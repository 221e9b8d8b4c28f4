--------------------------- MODULE StartupProofs ---------------------------
(***************************************************************************)
(* Proofs about Startup: whatever users rename, make and remove, whichever *)
(* calls fail and however often the service crashes, what is on disk stays *)
(* a tree of the names there are, a start that comes to its end has that   *)
(* tree as its index and leaves no record of a file it did not find, and   *)
(* the records of files that were there all the time stay.                 *)
(***************************************************************************)
EXTENDS Startup, SequenceTheorems, WellFoundedInduction, TLAPS

\* The file system: every file has its directory.
FsOK ==
    /\ dirs \subseteq FsPaths
    /\ files \subseteq dirs \X AllFiles
    /\ rootFiles \subseteq DirNames

\* What is to be listed are names in the root.
TodoOK == \A t \in todo : t.kind = "name" => \E n \in DirNames : t.path = <<n>>

\* Where a start stands.
StartOK ==
    /\ pc \in {"down", "list", "walk", "purge", "built"}
    /\ pc \notin {"list", "walk"} => todo = {}

\* A record is kept only for a file that was found.
IdsOK == ids \subseteq db /\ ids \subseteq found

Bounded == crashes \in 0 .. MaxCrashes /\ faults \in 0 .. MaxFaults

\* The inductive invariant.
StartInv == FsOK /\ TodoOK /\ StartOK /\ IdsOK /\ Bounded /\ NoStrayRecords

LEMMA Parts == StartInv => TypeOK
BY DEF StartInv, FsOK, StartOK, IdsOK, Bounded, TypeOK

-----------------------------------------------------------------------------
\* A path is a sequence of one to MaxDepth names.
LEMMA PathIsSeq ==
    ASSUME NEW x
    PROVE  x \in FsPaths <=> x \in Seq(DirNames) /\ Len(x) \in 1 .. MaxDepth
<1>1. ASSUME x \in FsPaths
      PROVE  x \in Seq(DirNames) /\ Len(x) \in 1 .. MaxDepth
  <2>1. PICK n \in 1 .. MaxDepth : x \in [1 .. n -> DirNames]
    BY <1>1 DEF FsPaths
  <2>. QED BY <2>1, DepthAssumption
<1>2. ASSUME x \in Seq(DirNames), Len(x) \in 1 .. MaxDepth
      PROVE  x \in FsPaths
  <2>1. x \in [1 .. Len(x) -> DirNames]
    BY <1>2
  <2>. QED BY <1>2, <2>1 DEF FsPaths
<1>. QED BY <1>1, <1>2

\* A name in the root is a path.
LEMMA RootIsPath ==
    ASSUME NEW n \in DirNames
    PROVE  <<n>> \in FsPaths
<1>1. <<n>> \in [1 .. 1 -> DirNames] /\ 1 \in 1 .. MaxDepth
  BY DepthAssumption
<1>. QED BY <1>1 DEF FsPaths

\* The directory above a path, and the path with another last name.
LEMMA ParentFacts ==
    ASSUME NEW x \in FsPaths, NEW n \in DirNames
    PROVE  /\ Parent(x) \in Seq(DirNames) /\ Len(Parent(x)) = Len(x) - 1
           /\ Append(Parent(x), n) \in FsPaths
           /\ Len(Append(Parent(x), n)) = Len(x)
<1>1. x \in Seq(DirNames) /\ Len(x) \in 1 .. MaxDepth
  BY PathIsSeq
<1>2. Parent(x) \in Seq(DirNames) /\ Len(Parent(x)) = Len(x) - 1
  <2>1. Len(x) \in Nat /\ Len(x) - 1 \in Nat /\ Len(x) - 1 <= Len(x)
    BY <1>1, DepthAssumption
  <2>2. \A i \in 1 .. Len(x) - 1 : x[i] \in DirNames
    BY <1>1, <2>1
  <2>. DEFINE k == Len(x) - 1
  <2>3. k \in Nat /\ \A i \in 1 .. k : x[i] \in DirNames
    BY <2>1, <2>2
  <2>4. Parent(x) = SubSeq(x, 1, k)
    BY DEF Parent
  <2>. HIDE DEF k
  <2>5. SubSeq(x, 1, k) \in Seq(DirNames) /\ Len(SubSeq(x, 1, k)) = k
    BY <2>3, SubSeqProperties
  <2>. QED BY <2>4, <2>5 DEF k
<1>3. Append(Parent(x), n) \in Seq(DirNames) /\ Len(Append(Parent(x), n)) = Len(x)
  BY <1>1, <1>2
<1>. QED BY <1>1, <1>2, <1>3, PathIsSeq

\* The normalised path is one of the paths there may be, of the same depth.
LEMMA NormalIsPath ==
    ASSUME NEW x \in FsPaths
    PROVE  NormalNew(x) \in FsPaths /\ Len(NormalNew(x)) = Len(x)
<1>1. Name(x) \in DirNames
  <2>1. x \in Seq(DirNames) /\ Len(x) \in 1 .. MaxDepth
    BY PathIsSeq
  <2>. QED BY <2>1, DepthAssumption DEF Name
<1>2. Invalid \in DirNames /\ Norm[Name(x)] \in DirNames \cup {Empty}
  BY <1>1, NormAssumption DEF DirNames
<1>3. CASE Norm[Name(x)] = Empty
  BY <1>2, <1>3, ParentFacts DEF NormalNew
<1>4. CASE Norm[Name(x)] # Empty
  <2>1. Norm[Name(x)] \in DirNames
    BY <1>2, <1>4
  <2>. QED BY <1>4, <2>1, ParentFacts DEF NormalNew, Normal
<1>. QED BY <1>3, <1>4

\* What lies below a renamed directory is still a path.
LEMMA MovedIsPath ==
    ASSUME NEW x \in FsPaths, NEW p \in FsPaths, NEW q \in FsPaths, Len(q) = Len(p)
    PROVE  Moved(x, p, q) \in FsPaths
<1>1. /\ x \in Seq(DirNames) /\ Len(x) \in 1 .. MaxDepth
      /\ p \in Seq(DirNames) /\ Len(p) \in 1 .. MaxDepth
      /\ q \in Seq(DirNames)
  BY PathIsSeq
<1>2. CASE Under(p, x)
  <2>1. Len(p) <= Len(x)
    BY <1>2 DEF Under
  <2>2. /\ SubSeq(x, Len(p) + 1, Len(x)) \in Seq(DirNames)
        /\ Len(SubSeq(x, Len(p) + 1, Len(x))) = Len(x) - Len(p)
    BY <1>1, <2>1, DepthAssumption
  <2>3. /\ Rebase(x, p, q) \in Seq(DirNames)
        /\ Len(Rebase(x, p, q)) = Len(x)
    BY <1>1, <2>1, <2>2 DEF Rebase
  <2>. QED BY <1>1, <1>2, <2>3, PathIsSeq DEF Moved
<1>3. CASE ~Under(p, x)
  BY <1>3 DEF Moved
<1>. QED BY <1>2, <1>3

-----------------------------------------------------------------------------
\* The rename of a directory keeps every file in a directory.
LEMMA MoveDirKeeps ==
    ASSUME FsOK, NEW p \in FsPaths, MoveDir(p, NormalNew(p))
    PROVE  FsOK'
<1>. DEFINE q == NormalNew(p)
<1>1. q \in FsPaths /\ Len(q) = Len(p)
  BY NormalIsPath
<1>. HIDE DEF q
<1>2. /\ dirs' = {Moved(x, p, q) : x \in dirs}
      /\ files' = {<<Moved(x[1], p, q), x[2]>> : x \in files}
      /\ rootFiles' = {Moved(<<n>>, p, q)[1] : n \in rootFiles}
  BY DEF MoveDir, q
<1>3. dirs' \subseteq FsPaths
  BY <1>1, <1>2, MovedIsPath DEF FsOK
<1>4. files' \subseteq dirs' \X AllFiles
  BY <1>2 DEF FsOK
<1>5. rootFiles' \subseteq DirNames
  <2>. SUFFICES ASSUME NEW n \in rootFiles PROVE Moved(<<n>>, p, q)[1] \in DirNames
    BY <1>2
  <2>1. <<n>> \in FsPaths
    BY RootIsPath DEF FsOK
  <2>2. Moved(<<n>>, p, q) \in FsPaths
    BY <1>1, <2>1, MovedIsPath
  <2>. QED BY <2>2, PathIsSeq
<1>. QED BY <1>3, <1>4, <1>5 DEF FsOK

\* The first state.
LEMMA Begins == Init => StartInv
<1>. SUFFICES ASSUME Init PROVE StartInv
  OBVIOUS
<1>1. FsOK
  BY StartupAssumption DEF Init, FsOK
<1>. QED BY <1>1, StartupAssumption
         DEF Init, StartInv, TodoOK, StartOK, IdsOK, Bounded, NoStrayRecords

\* Listing the root and normalising the buckets.
LEMMA ListKeeps ==
    ASSUME StartInv, List
    PROVE  StartInv'
<1>1. PICK t \in todo : ListBucket(t)
  BY DEF List
<1>2. PICK n \in DirNames : t.path = <<n>>
  BY <1>1 DEF StartInv, TodoOK, ListBucket
<1>3. t.path \in FsPaths
  BY <1>2, RootIsPath
<1>4. FsOK'
  <2>1. CASE Renamable(t.path)
    BY <1>1, <1>3, <2>1, MoveDirKeeps DEF StartInv, ListBucket
  <2>2. CASE ~Renamable(t.path)
    BY <1>1, <2>2 DEF StartInv, FsOK, ListBucket, fs
  <2>. QED BY <2>1, <2>2
<1>5. TodoOK'
  BY <1>1 DEF StartInv, TodoOK, ListBucket, Task
<1>. QED BY <1>4, <1>5
         DEF List, StartInv, StartOK, IdsOK, Bounded, NoStrayRecords, index, bounds

\* What is put on the list of things to do during the walk is no name to list.
LEMMA EntriesAreNoNames ==
    \A p : \A t \in Entries(p) : t.kind # "name"
BY DEF Entries, Task

\* Opening a directory.
LEMMA OpenDirKeeps ==
    ASSUME StartInv, pc = "walk", UNCHANGED <<pc, crashes>>, NEW t \in todo, OpenDir(t)
    PROVE  StartInv'
<1>1. TodoOK'
  BY EntriesAreNoNames DEF StartInv, TodoOK, OpenDir
<1>. QED BY <1>1
         DEF OpenDir, StartInv, FsOK, StartOK, IdsOK, Bounded, NoStrayRecords, fs

\* Renaming a directory or a file, or failing to.
LEMMA NormaliseKeeps ==
    ASSUME StartInv, pc = "walk", UNCHANGED <<pc, crashes>>, NEW t \in todo,
           NormaliseDir(t) \/ NormaliseFile(t) \/ NormaliseGone(t) \/ NormaliseFails(t)
    PROVE  StartInv'
<1>1. FsOK'
  <2>1. CASE NormaliseDir(t)
    <3>1. t.path \in FsPaths
      BY <2>1 DEF NormaliseDir, StartInv, FsOK
    <3>. QED BY <2>1, <3>1, MoveDirKeeps DEF NormaliseDir, StartInv
  <2>2. CASE NormaliseFile(t)
    <3>1. Parent(t.path) \in dirs /\ Name(t.path) \in AllFiles
      BY <2>2 DEF NormaliseFile, IsFile, StartInv, FsOK
    <3>2. Norm[Name(t.path)] \in AllFiles
      BY <3>1, NormAssumption DEF AllFiles
    <3>. QED BY <2>2, <3>1, <3>2 DEF NormaliseFile, StartInv, FsOK
  <2>3. CASE NormaliseGone(t) \/ NormaliseFails(t)
    BY <2>3 DEF NormaliseGone, NormaliseFails, StartInv, FsOK, fs
  <2>. QED BY <2>1, <2>2, <2>3
<1>2. TodoOK'
  BY DEF StartInv, TodoOK, NormaliseDir, NormaliseFile, NormaliseGone,
         NormaliseFails, Task
<1>3. faults' \in 0 .. MaxFaults
  BY StartupAssumption
     DEF StartInv, Bounded, NormaliseDir, NormaliseFile, NormaliseGone, NormaliseFails
<1>4. UNCHANGED <<db, ids, found>>
  BY DEF NormaliseDir, NormaliseFile, NormaliseGone, NormaliseFails, index
<1>. QED BY <1>1, <1>2, <1>3, <1>4
         DEF StartInv, StartOK, IdsOK, Bounded, NoStrayRecords

\* Looking a file up: its id is kept only with its record, and the file is found.
LEMMA SyncKeeps ==
    ASSUME StartInv, pc = "walk", UNCHANGED <<pc, crashes>>, NEW t \in todo,
           SyncObject(t) \/ SyncObjectFails(t)
    PROVE  StartInv'
<1>1. FsOK' /\ TodoOK'
  BY DEF StartInv, FsOK, TodoOK, SyncObject, SyncObjectFails, fs
<1>2. IdsOK'
  BY DEF StartInv, IdsOK, SyncObject, SyncObjectFails, Recorded
<1>3. faults' \in 0 .. MaxFaults
  BY StartupAssumption DEF StartInv, Bounded, SyncObject, SyncObjectFails
<1>. QED BY <1>1, <1>2, <1>3 DEF StartInv, StartOK, Bounded, NoStrayRecords

\* The last step deletes the records without an id: those left are of files found.
LEMMA PurgeKeeps ==
    ASSUME StartInv, Purge
    PROVE  StartInv'
BY DEF Purge, StartInv, FsOK, TodoOK, StartOK, IdsOK, Bounded, NoStrayRecords,
       fs, index, bounds

\* Starting, going from one part to the next, and ending.
LEMMA StartAndStopKeep ==
    ASSUME StartInv, Start \/ Listed \/ Panic \/ Walked \/ PurgeFails \/ Crash
    PROVE  StartInv'
<1>. USE DEF StartInv, FsOK, TodoOK, StartOK, IdsOK, Bounded, NoStrayRecords,
             fs, index, bounds
<1>1. CASE Start
  <2>1. \A n \in {p[1] : p \in dirs} \cup rootFiles : n \in DirNames
    <3>1. \A p \in dirs : p[1] \in DirNames
      BY PathIsSeq
    <3>. QED BY <3>1
  <2>2. TodoOK'
    BY <1>1, <2>1 DEF Start, Task
  <2>. QED BY <1>1, <2>2 DEF Start
<1>2. CASE Listed \/ Walked
  BY <1>2 DEF Listed, Walked
<1>3. CASE Panic
  BY <1>3 DEF Panic, Stop
<1>4. CASE PurgeFails
  BY <1>4, StartupAssumption DEF PurgeFails
<1>5. CASE Crash
  BY <1>5, StartupAssumption DEF Crash
<1>. QED BY <1>1, <1>2, <1>3, <1>4, <1>5

\* Whatever users do leaves every file in a directory.
LEMMA UserKeeps ==
    ASSUME StartInv, User
    PROVE  StartInv'
<1>1. FsOK' /\ UNCHANGED <<db, pc, todo, ids, index, crashes, faults>>
  <2>. USE DEF StartInv, FsOK, Act
  <2>1. CASE \E p \in dirs, f \in AllFiles : AddFile(p, f)
    BY <2>1 DEF AddFile
  <2>2. CASE \E x \in files : RemoveFile(x)
    BY <2>2 DEF RemoveFile
  <2>3. CASE \E p \in FsPaths : AddDir(p)
    BY <2>3 DEF AddDir
  <2>4. CASE \E p \in dirs : RemoveDir(p)
    BY <2>4 DEF RemoveDir
  <2>5. CASE \E n \in DirNames : AddRootFile(n)
    BY <2>5 DEF AddRootFile
  <2>6. CASE \E n \in rootFiles : RemoveRootFile(n)
    BY <2>6 DEF RemoveRootFile
  <2>. QED BY <2>1, <2>2, <2>3, <2>4, <2>5, <2>6 DEF User
<1>. QED BY <1>1 DEF StartInv, TodoOK, StartOK, IdsOK, Bounded, NoStrayRecords, index

LEMMA StartInvariant == Spec => []StartInv
<1>1. Init => StartInv
  BY Begins
<1>2. StartInv /\ [Next]_vars => StartInv'
  <2>. SUFFICES ASSUME StartInv, [Next]_vars PROVE StartInv'
    OBVIOUS
  <2>1. CASE List
    BY <2>1, ListKeeps
  <2>2. CASE Walk
    <3>1. PICK t \in todo :
             \/ OpenDir(t)
             \/ NormaliseDir(t) \/ NormaliseFile(t) \/ NormaliseGone(t) \/ NormaliseFails(t)
             \/ SyncObject(t) \/ SyncObjectFails(t)
      BY <2>2 DEF Walk
    <3>2. pc = "walk" /\ UNCHANGED <<pc, crashes>>
      BY <2>2 DEF Walk
    <3>3. CASE OpenDir(t)
      BY <3>2, <3>3, OpenDirKeeps
    <3>4. CASE NormaliseDir(t) \/ NormaliseFile(t) \/ NormaliseGone(t) \/ NormaliseFails(t)
      BY <3>2, <3>4, NormaliseKeeps
    <3>5. CASE SyncObject(t) \/ SyncObjectFails(t)
      BY <3>2, <3>5, SyncKeeps
    <3>. QED BY <3>1, <3>3, <3>4, <3>5
  <2>3. CASE Purge
    BY <2>3, PurgeKeeps
  <2>4. CASE Start \/ Listed \/ Panic \/ Walked \/ PurgeFails \/ Crash
    BY <2>4, StartAndStopKeep
  <2>5. CASE User
    BY <2>5, UserKeeps
  <2>6. CASE UNCHANGED vars
    BY <2>6 DEF vars, fs, index, bounds, StartInv, FsOK, TodoOK, StartOK, IdsOK,
                Bounded, NoStrayRecords
  <2>. QED BY <2>1, <2>2, <2>3, <2>4, <2>5, <2>6 DEF Next, Service
<1>. QED BY <1>1, <1>2, PTL DEF Spec

-----------------------------------------------------------------------------
\* However users and the start get into each other's way, files stay in
\* directories, and an id is kept only of a record there is and a file found.
THEOREM StartIsTyped == Spec => []TypeOK
BY StartInvariant, Parts, PTL

\* A start that comes to its end leaves no record of a file it did not find, for
\* every file system and every number of crashes and failed calls.
THEOREM NoStrays == Spec => []NoStrayRecords
<1>1. StartInv => NoStrayRecords
  BY DEF StartInv
<1>. QED BY <1>1, StartInvariant, PTL

-----------------------------------------------------------------------------
(***************************************************************************)
(* Paths of directories and files, name by name.                           *)
(***************************************************************************)
Segs == DirNames \cup AllFiles

\* The names a name can come to in the end.
Ends == Names \cup FileNames \cup {Empty}

\* The path of a file.
FilePath(x) == Append(x[1], x[2])

\* A set of numbers has a least element.
LEMMA LeastNumber ==
    ASSUME NEW T \in SUBSET Nat, T # {}
    PROVE  \E m \in T : \A k \in T : m <= k
<1>. DEFINE R == {ss \in Nat \X Nat : ss[1] < ss[2]}
<1>1. IsWellFoundedOn(R, Nat)
  BY NatLessThanWellFounded DEF OpToRel
<1>2. \A k, m \in T : k < m => <<k, m>> \in R
  OBVIOUS
<1>. HIDE DEF R
<1>3. PICK m \in T : \A k \in T : ~(<<k, m>> \in R)
  BY <1>1, WFMin
<1>4. \A k \in T : ~(k < m)
  BY <1>2, <1>3
<1>. QED BY <1>4

\* The first names of a path.
LEMMA PrefixFacts ==
    ASSUME NEW S, NEW x \in Seq(S), NEW k \in 0 .. Len(x)
    PROVE  /\ SubSeq(x, 1, k) \in Seq(S) /\ Len(SubSeq(x, 1, k)) = k
           /\ \A i \in 1 .. k : SubSeq(x, 1, k)[i] = x[i]
<1>1. k \in Nat /\ \A i \in 1 .. k : x[i] \in S
  OBVIOUS
<1>2. SubSeq(x, 1, k) \in Seq(S) /\ Len(SubSeq(x, 1, k)) = k
  BY <1>1, SubSeqProperties
<1>. QED BY <1>1, <1>2

\* To lie below a path is to have its names first.
LEMMA UnderIs ==
    ASSUME NEW S, NEW p \in Seq(S), NEW x \in Seq(S)
    PROVE  Under(p, x) <=> Len(p) <= Len(x) /\ \A i \in 1 .. Len(p) : p[i] = x[i]
<1>1. CASE Len(p) <= Len(x)
  <2>1. Len(p) \in 0 .. Len(x)
    BY <1>1
  <2>2. /\ SubSeq(x, 1, Len(p)) \in Seq(S) /\ Len(SubSeq(x, 1, Len(p))) = Len(p)
        /\ \A i \in 1 .. Len(p) : SubSeq(x, 1, Len(p))[i] = x[i]
    BY <2>1, PrefixFacts
  <2>. DEFINE y == SubSeq(x, 1, Len(p))
  <2>. HIDE DEF y
  <2>3. y \in Seq(S) /\ Len(y) = Len(p) /\ \A i \in 1 .. Len(p) : y[i] = x[i]
    BY <2>2 DEF y
  <2>4. y = p <=> \A i \in 1 .. Len(p) : p[i] = x[i]
    BY <2>3, SeqEqual
  <2>. QED BY <1>1, <2>4 DEF Under, y
<1>2. CASE ~(Len(p) <= Len(x))
  BY <1>2 DEF Under
<1>. QED BY <1>1, <1>2

\* Under is a partial order whose sets of larger elements are chains.
LEMMA UnderOrder ==
    ASSUME NEW S, NEW p \in Seq(S), NEW q \in Seq(S), NEW x \in Seq(S)
    PROVE  /\ Under(x, x)
           /\ Under(p, q) /\ Under(q, x) => Under(p, x)
           /\ Under(p, q) => Len(p) <= Len(q)
           /\ Under(p, q) /\ Len(p) = Len(q) => p = q
<1>1. Under(x, x)
  BY UnderIs
<1>2. ASSUME Under(p, q), Under(q, x) PROVE Under(p, x)
  <2>1. Len(p) <= Len(q) /\ \A i \in 1 .. Len(p) : p[i] = q[i]
    BY <1>2, UnderIs
  <2>2. Len(q) <= Len(x) /\ \A i \in 1 .. Len(q) : q[i] = x[i]
    BY <1>2, UnderIs
  <2>3. Len(p) <= Len(x) /\ \A i \in 1 .. Len(p) : p[i] = x[i]
    BY <2>1, <2>2
  <2>. QED BY <2>3, UnderIs
<1>3. Under(p, q) => Len(p) <= Len(q)
  BY DEF Under
<1>4. ASSUME Under(p, q), Len(p) = Len(q) PROVE p = q
  <2>1. \A i \in 1 .. Len(p) : p[i] = q[i]
    BY <1>4, UnderIs
  <2>. QED BY <1>4, <2>1, SeqEqual
<1>. QED BY <1>1, <1>2, <1>3, <1>4

\* What lies below a path with one more name.
LEMMA UnderAppend ==
    ASSUME NEW S, NEW p \in Seq(S), NEW x \in Seq(S), NEW n \in S
    PROVE  /\ Under(p, Append(x, n)) <=> Under(p, x) \/ p = Append(x, n)
           /\ Under(Append(x, n), p) => Under(x, p)
<1>. DEFINE y == Append(x, n)
<1>1. y \in Seq(S) /\ Len(y) = Len(x) + 1 /\ \A i \in 1 .. Len(x) : y[i] = x[i]
  BY AppendProperties
<1>2. \A i \in 1 .. Len(x) : i \in 1 .. Len(y)
  BY <1>1
<1>. HIDE DEF y
<1>3. Under(x, y)
  BY <1>1, UnderIs
<1>4. Under(y, p) => Under(x, p)
  BY <1>1, <1>3, UnderOrder
<1>5. ASSUME Under(p, y), Len(p) <= Len(x) PROVE Under(p, x)
  <2>1. \A i \in 1 .. Len(p) : p[i] = y[i]
    BY <1>1, <1>5, UnderIs
  <2>2. \A i \in 1 .. Len(p) : p[i] = x[i]
    BY <1>1, <1>5, <2>1
  <2>. QED BY <1>5, <2>2, UnderIs
<1>6. ASSUME Under(p, y), ~(Len(p) <= Len(x)) PROVE p = y
  <2>1. Len(p) <= Len(y)
    BY <1>1, <1>6, UnderOrder
  <2>2. Len(p) = Len(y)
    BY <1>1, <1>6, <2>1
  <2>. QED BY <1>1, <1>6, <2>2, UnderOrder
<1>7. Under(p, x) => Under(p, y)
  BY <1>1, <1>3, UnderOrder
<1>8. Under(y, y)
  BY <1>1, UnderOrder
<1>9. Under(p, y) <=> Under(p, x) \/ p = y
  BY <1>5, <1>6, <1>7, <1>8
<1>. QED BY <1>4, <1>9 DEF y

\* A directory's names are paths like any other.
LEMMA FsPathIsSeq ==
    ASSUME NEW p \in FsPaths
    PROVE  p \in Seq(Segs) /\ Len(p) \in Nat \ {0} /\ \A i \in 1 .. Len(p) : p[i] \in DirNames
<1>1. p \in Seq(DirNames) /\ Len(p) \in 1 .. MaxDepth
  BY PathIsSeq
<1>2. Len(p) \in Nat \ {0} /\ \A i \in 1 .. Len(p) : p[i] \in DirNames
  BY <1>1, DepthAssumption
<1>3. DirNames \subseteq Segs
  BY DEF Segs
<1>4. p \in Seq(Segs)
  BY <1>1, <1>3, SeqMonotonic
<1>. QED BY <1>2, <1>4

\* A path is the one above it with its last name.
LEMMA SplitPath ==
    ASSUME NEW S, NEW p \in Seq(S), Len(p) # 0
    PROVE  /\ Parent(p) \in Seq(S) /\ Len(Parent(p)) = Len(p) - 1
           /\ Name(p) \in S /\ p = Append(Parent(p), Name(p))
           /\ Under(Parent(p), p)
<1>1. Len(p) \in Nat /\ Len(p) - 1 \in 0 .. Len(p)
  OBVIOUS
<1>. DEFINE k == Len(p) - 1
<1>2. k \in 0 .. Len(p)
  BY <1>1
<1>3. Parent(p) = SubSeq(p, 1, k)
  BY DEF Parent
<1>. HIDE DEF k
<1>4. /\ SubSeq(p, 1, k) \in Seq(S) /\ Len(SubSeq(p, 1, k)) = k
      /\ \A i \in 1 .. k : SubSeq(p, 1, k)[i] = p[i]
  BY <1>2, PrefixFacts
<1>5. Parent(p) \in Seq(S) /\ Len(Parent(p)) = k /\ \A i \in 1 .. k : Parent(p)[i] = p[i]
  BY <1>3, <1>4
<1>6. k = Len(p) - 1
  BY DEF k
<1>7. Name(p) = p[Len(p)] /\ Name(p) \in S
  BY <1>1 DEF Name
<1>. DEFINE y == Append(Parent(p), Name(p))
<1>8. /\ y \in Seq(S) /\ Len(y) = k + 1 /\ y[k + 1] = Name(p)
      /\ \A i \in 1 .. k : y[i] = Parent(p)[i]
  BY <1>5, <1>7, AppendProperties
<1>9. Len(y) = Len(p)
  BY <1>1, <1>6, <1>8
<1>. HIDE DEF y
<1>10. \A i \in 1 .. Len(p) : y[i] = p[i]
  <2>. SUFFICES ASSUME NEW i \in 1 .. Len(p) PROVE y[i] = p[i]
    OBVIOUS
  <2>1. CASE i \in 1 .. k
    BY <1>5, <1>8, <2>1
  <2>2. CASE i = k + 1
    BY <1>6, <1>7, <1>8, <1>1, <2>2
  <2>. QED BY <1>1, <1>6, <2>1, <2>2
<1>11. y = p
  BY <1>8, <1>9, <1>10, SeqEqual
<1>12. Under(Parent(p), p)
  BY <1>1, <1>5, <1>6, UnderIs
<1>. QED BY <1>5, <1>6, <1>7, <1>11, <1>12 DEF y

\* What the names come to in the end, and that directories and files keep apart.
LEMMA FinalFacts ==
    /\ \A n \in DirNames : Final(n) \in Ends \ FileNames
    /\ \A n \in AllFiles :
          /\ Final(n) = Norm[n] /\ Norm[n] \in FileNames /\ Norm[n] \in AllFiles
          /\ Final(Norm[n]) = Norm[n]
    /\ \A n \in DirNames : Norm[n] # Empty =>
          Norm[n] \in Names /\ Norm[n] \in DirNames /\ Final(Norm[n]) = Final(n)
    /\ \A n \in DirNames : Norm[n] = Empty => Final(Invalid) = Final(n)
    /\ Invalid \in DirNames /\ DirNames \cap AllFiles = {}
<1>. USE NormAssumption, KindsAssumption DEF DirNames, AllFiles, Ends, Final
<1>1. \A n \in AllFiles : Norm[n] \in FileNames /\ Norm[n] # Empty
  OBVIOUS
<1>2. \A n \in DirNames : Norm[n] \in Names \cup {Empty}
  OBVIOUS
<1>3. Invalid \in DirNames
  OBVIOUS
<1>4. \A n \in DirNames : Final(n) \in Ends \ FileNames
  BY <1>2, <1>3
<1>5. \A n \in AllFiles :
          /\ Final(n) = Norm[n] /\ Norm[n] \in FileNames /\ Norm[n] \in AllFiles
          /\ Final(Norm[n]) = Norm[n]
  BY <1>1
<1>6. \A n \in DirNames : Norm[n] # Empty =>
          Norm[n] \in Names /\ Norm[n] \in DirNames /\ Final(Norm[n]) = Final(n)
  BY <1>2
<1>7. \A n \in DirNames : Norm[n] = Empty => Final(Invalid) = Final(n)
  OBVIOUS
<1>8. DirNames \cap AllFiles = {}
  BY <1>1, <1>2
<1>. QED BY <1>3, <1>4, <1>5, <1>6, <1>7, <1>8

\* The path something will have in the end, name by name.
LEMMA CanonFacts ==
    ASSUME NEW p \in Seq(Segs)
    PROVE  /\ Canon(p) \in Seq(Ends) /\ Len(Canon(p)) = Len(p)
           /\ \A i \in 1 .. Len(p) : Canon(p)[i] = Final(p[i])
<1>1. \A n \in Segs : Final(n) \in Ends
  BY FinalFacts DEF Segs, Ends
<1>2. DOMAIN p = 1 .. Len(p) /\ Len(p) \in Nat
  OBVIOUS
<1>3. Canon(p) = [i \in 1 .. Len(p) |-> Final(p[i])]
  BY <1>2 DEF Canon
<1>4. \A i \in 1 .. Len(p) : Final(p[i]) \in Ends
  BY <1>1
<1>5. Canon(p) \in [1 .. Len(p) -> Ends]
  BY <1>3, <1>4
<1>6. Canon(p) \in Seq(Ends) /\ Len(Canon(p)) = Len(p)
  BY <1>2, <1>5
<1>. QED BY <1>3, <1>6

LEMMA CanonUnder ==
    ASSUME NEW p \in Seq(Segs), NEW x \in Seq(Segs)
    PROVE  /\ Under(Canon(p), Canon(x)) <=>
                 Len(p) <= Len(x) /\ \A i \in 1 .. Len(p) : Final(p[i]) = Final(x[i])
           /\ Under(p, x) => Under(Canon(p), Canon(x))
<1>1. /\ Canon(p) \in Seq(Ends) /\ Len(Canon(p)) = Len(p)
      /\ \A i \in 1 .. Len(p) : Canon(p)[i] = Final(p[i])
  BY CanonFacts
<1>2. /\ Canon(x) \in Seq(Ends) /\ Len(Canon(x)) = Len(x)
      /\ \A i \in 1 .. Len(x) : Canon(x)[i] = Final(x[i])
  BY CanonFacts
<1>3. Under(Canon(p), Canon(x)) <=>
         Len(p) <= Len(x) /\ \A i \in 1 .. Len(p) : Canon(p)[i] = Canon(x)[i]
  BY <1>1, <1>2, UnderIs
<1>4. ASSUME Len(p) <= Len(x)
      PROVE  \A i \in 1 .. Len(p) : Canon(p)[i] = Final(p[i]) /\ Canon(x)[i] = Final(x[i])
  BY <1>1, <1>2, <1>4
<1>5. Under(p, x) <=> Len(p) <= Len(x) /\ \A i \in 1 .. Len(p) : p[i] = x[i]
  BY UnderIs
<1>6. Under(Canon(p), Canon(x)) <=>
         Len(p) <= Len(x) /\ \A i \in 1 .. Len(p) : Final(p[i]) = Final(x[i])
  BY <1>3, <1>4
<1>. QED BY <1>5, <1>6

\* Paths that come to the same.
LEMMA CanonSame ==
    ASSUME NEW p \in Seq(Segs), NEW x \in Seq(Segs)
    PROVE  Canon(p) = Canon(x) <=>
              Len(p) = Len(x) /\ \A i \in 1 .. Len(p) : Final(p[i]) = Final(x[i])
<1>1. /\ Canon(p) \in Seq(Ends) /\ Len(Canon(p)) = Len(p)
      /\ \A i \in 1 .. Len(p) : Canon(p)[i] = Final(p[i])
  BY CanonFacts
<1>2. /\ Canon(x) \in Seq(Ends) /\ Len(Canon(x)) = Len(x)
      /\ \A i \in 1 .. Len(x) : Canon(x)[i] = Final(x[i])
  BY CanonFacts
<1>3. ASSUME Len(p) = Len(x), \A i \in 1 .. Len(p) : Final(p[i]) = Final(x[i])
      PROVE  Canon(p) = Canon(x)
  <2>1. \A i \in 1 .. Len(Canon(p)) : Canon(p)[i] = Canon(x)[i]
    BY <1>1, <1>2, <1>3
  <2>. QED BY <1>1, <1>2, <1>3, <2>1, SeqEqual
<1>4. ASSUME Canon(p) = Canon(x)
      PROVE  Len(p) = Len(x) /\ \A i \in 1 .. Len(p) : Final(p[i]) = Final(x[i])
  BY <1>1, <1>2, <1>4
<1>. QED BY <1>3, <1>4

\* A path with the last name replaced by one that comes to the same.
LEMMA CanonRename ==
    ASSUME NEW p \in Seq(Segs), Len(p) # 0, NEW m \in Segs, Final(m) = Final(Name(p))
    PROVE  /\ Append(Parent(p), m) \in Seq(Segs)
           /\ Len(Append(Parent(p), m)) = Len(p)
           /\ Canon(Append(Parent(p), m)) = Canon(p)
<1>. DEFINE y == Append(Parent(p), m)
            k == Len(p) - 1
<1>1. Parent(p) \in Seq(Segs) /\ Len(Parent(p)) = k /\ Under(Parent(p), p)
  BY SplitPath
<1>2. k \in Nat /\ Len(p) = k + 1
  OBVIOUS
<1>3. Name(p) = p[k + 1]
  BY <1>2 DEF Name
<1>. HIDE DEF k
<1>4. \A i \in 1 .. k : Parent(p)[i] = p[i]
  BY <1>1, UnderIs
<1>5. y \in Seq(Segs) /\ Len(y) = k + 1 /\ y[k + 1] = m /\ \A i \in 1 .. k : y[i] = Parent(p)[i]
  BY <1>1, AppendProperties
<1>. HIDE DEF y
<1>6. \A i \in 1 .. k + 1 : Final(y[i]) = Final(p[i])
  <2>. SUFFICES ASSUME NEW i \in 1 .. k + 1 PROVE Final(y[i]) = Final(p[i])
    OBVIOUS
  <2>1. CASE i = k + 1
    BY <1>3, <1>5, <2>1
  <2>2. CASE i # k + 1
    <3>1. i \in 1 .. k
      BY <1>2, <2>2
    <3>2. y[i] = p[i]
      BY <1>4, <1>5, <3>1
    <3>. QED BY <3>2
  <2>. QED BY <2>1, <2>2
<1>7. Canon(y) = Canon(p)
  BY <1>2, <1>5, <1>6, CanonSame
<1>. QED BY <1>2, <1>5, <1>7 DEF y

-----------------------------------------------------------------------------
(***************************************************************************)
(* Trees of directories in which no two paths come to the same.            *)
(***************************************************************************)
Closed(D) == \A p \in D : \A k \in 1 .. Len(p) : SubSeq(p, 1, k) \in D

Apart(D) == \A p, q \in D : Canon(p) = Canon(q) => p = q

\* It is enough that the names of each directory stay apart.
LEMMA ApartFromDistinct ==
    ASSUME NEW D \in SUBSET FsPaths, NEW F, Closed(D), Distinct(D, F)
    PROVE  Apart(D)
<1>. SUFFICES ASSUME NEW p \in D, NEW q \in D, Canon(p) = Canon(q), p # q
              PROVE  FALSE
  BY DEF Apart
<1>1. /\ p \in Seq(Segs) /\ q \in Seq(Segs) /\ Len(p) = Len(q) /\ Len(p) \in Nat
      /\ \A i \in 1 .. Len(p) : Final(p[i]) = Final(q[i])
  BY FsPathIsSeq, CanonSame
<1>. DEFINE T == {i \in 1 .. Len(p) : p[i] # q[i]}
<1>2. T # {}
  BY <1>1, SeqEqual
<1>3. T \in SUBSET Nat
  OBVIOUS
<1>4. \A i \in 1 .. Len(p) : i \notin T => p[i] = q[i]
  OBVIOUS
<1>5. \A k \in T : k \in 1 .. Len(p) /\ p[k] # q[k]
  OBVIOUS
<1>. HIDE DEF T
<1>6. PICK m \in T : \A k \in T : m <= k
  BY <1>2, <1>3, LeastNumber
<1>7. m \in 1 .. Len(p) /\ m \in 0 .. Len(p) /\ m \in 0 .. Len(q) /\ p[m] # q[m]
  BY <1>1, <1>5
<1>. DEFINE x == SubSeq(p, 1, m)
            y == SubSeq(q, 1, m)
<1>8. x \in D /\ y \in D
  BY <1>1, <1>7 DEF Closed
<1>9. x \in Seq(Segs) /\ Len(x) = m /\ \A i \in 1 .. m : x[i] = p[i]
  BY <1>1, <1>7, PrefixFacts
<1>10. y \in Seq(Segs) /\ Len(y) = m /\ \A i \in 1 .. m : y[i] = q[i]
  BY <1>1, <1>7, PrefixFacts
<1>. HIDE DEF x, y
<1>11. /\ Parent(x) \in Seq(Segs) /\ Len(Parent(x)) = m - 1 /\ Under(Parent(x), x)
       /\ Parent(y) \in Seq(Segs) /\ Len(Parent(y)) = m - 1 /\ Under(Parent(y), y)
  <2>1. Len(x) # 0 /\ Len(y) # 0
    BY <1>7, <1>9, <1>10
  <2>2. Parent(x) \in Seq(Segs) /\ Len(Parent(x)) = m - 1 /\ Under(Parent(x), x)
    BY <1>9, <2>1, SplitPath
  <2>3. Parent(y) \in Seq(Segs) /\ Len(Parent(y)) = m - 1 /\ Under(Parent(y), y)
    BY <1>10, <2>1, SplitPath
  <2>. QED BY <2>2, <2>3
<1>12. \A i \in 1 .. m - 1 : i \in 1 .. m /\ i \in 1 .. Len(p) /\ ~(m <= i)
  BY <1>1, <1>7
<1>13. \A i \in 1 .. m - 1 : x[i] = y[i]
  BY <1>4, <1>6, <1>9, <1>10, <1>12
<1>14. \A i \in 1 .. m - 1 : Parent(x)[i] = x[i] /\ Parent(y)[i] = y[i]
  BY <1>9, <1>10, <1>11, UnderIs
<1>15. Parent(x) = Parent(y)
  BY <1>11, <1>13, <1>14, SeqEqual
<1>16. Name(x) = p[m] /\ Name(y) = q[m]
  BY <1>7, <1>9, <1>10 DEF Name
<1>17. Final(Name(x)) = Final(Name(y)) /\ x # y
  BY <1>1, <1>7, <1>16
<1>. QED BY <1>8, <1>15, <1>17 DEF Distinct

\* What comes to lie below where a directory comes to is below it.
LEMMA Through ==
    ASSUME NEW D \in SUBSET FsPaths, Closed(D), Apart(D), NEW t \in D, NEW d \in D,
           Under(Canon(t), Canon(d))
    PROVE  Under(t, d) /\ SubSeq(d, 1, Len(t)) = t
<1>1. /\ t \in Seq(Segs) /\ Len(t) \in Nat \ {0}
      /\ d \in Seq(Segs) /\ Len(d) \in Nat \ {0}
  BY FsPathIsSeq
<1>2. Len(t) <= Len(d) /\ \A i \in 1 .. Len(t) : Final(t[i]) = Final(d[i])
  BY <1>1, CanonUnder
<1>3. Len(t) \in 1 .. Len(d) /\ Len(t) \in 0 .. Len(d)
  BY <1>1, <1>2
<1>. DEFINE x == SubSeq(d, 1, Len(t))
<1>4. x \in D
  BY <1>3 DEF Closed
<1>5. x \in Seq(Segs) /\ Len(x) = Len(t) /\ \A i \in 1 .. Len(t) : x[i] = d[i]
  BY <1>1, <1>3, PrefixFacts
<1>. HIDE DEF x
<1>6. Canon(x) = Canon(t)
  BY <1>1, <1>2, <1>5, CanonSame
<1>7. x = t
  BY <1>4, <1>6 DEF Apart
<1>8. Under(t, d)
  BY <1>2, <1>7 DEF Under, x
<1>. QED BY <1>7, <1>8 DEF x

\* A file's path.
LEMMA FilePathFacts ==
    ASSUME NEW x \in FsPaths \X Segs
    PROVE  /\ FilePath(x) \in Seq(Segs) /\ Len(FilePath(x)) = Len(x[1]) + 1
           /\ Len(FilePath(x)) \in Nat \ {0} /\ Len(x[1]) \in Nat \ {0}
           /\ FilePath(x)[Len(FilePath(x))] = x[2]
           /\ Parent(FilePath(x)) = x[1] /\ Name(FilePath(x)) = x[2]
           /\ Under(x[1], FilePath(x))
           /\ x = <<x[1], x[2]>>
<1>1. x[1] \in Seq(Segs) /\ Len(x[1]) \in Nat \ {0} /\ x[2] \in Segs /\ x = <<x[1], x[2]>>
  BY FsPathIsSeq
<1>. DEFINE p == x[1]
            n == x[2]
<1>2. FilePath(x) = Append(p, n)
  BY DEF FilePath
<1>3. p \in Seq(Segs) /\ Len(p) \in Nat \ {0} /\ n \in Segs
  BY <1>1
<1>. HIDE DEF p, n
<1>4. /\ Append(p, n) \in Seq(Segs) /\ Len(Append(p, n)) = Len(p) + 1
      /\ Append(p, n)[Len(p) + 1] = n
      /\ \A i \in 1 .. Len(p) : Append(p, n)[i] = p[i]
  BY <1>3, AppendProperties
<1>. DEFINE y == Append(p, n)
<1>5. Len(y) # 0 /\ y \in Seq(Segs) /\ Len(y) = Len(p) + 1 /\ y[Len(p) + 1] = n
      /\ \A i \in 1 .. Len(p) : y[i] = p[i]
  BY <1>3, <1>4
<1>. HIDE DEF y
<1>6. Parent(y) \in Seq(Segs) /\ Len(Parent(y)) = Len(y) - 1 /\ Under(Parent(y), y)
  BY <1>5, SplitPath
<1>7. Len(Parent(y)) = Len(p)
  BY <1>3, <1>5, <1>6
<1>8. Under(p, y)
  BY <1>3, <1>5, UnderIs
<1>9. \A i \in 1 .. Len(p) : Parent(y)[i] = y[i]
  BY <1>5, <1>6, <1>7, UnderIs
<1>10. Parent(y) = p
  BY <1>3, <1>5, <1>6, <1>7, <1>9, SeqEqual
<1>11. Name(y) = n
  BY <1>5 DEF Name
<1>. QED BY <1>1, <1>2, <1>3, <1>5, <1>8, <1>10, <1>11 DEF y, p, n

\* No directory comes to lie where a file comes to, or below.
LEMMA DirNotBelowFile ==
    ASSUME NEW x \in Seq(Segs), Len(x) # 0, Name(x) \in AllFiles, NEW d \in FsPaths
    PROVE  ~Under(Canon(x), Canon(d))
<1>. SUFFICES ASSUME Under(Canon(x), Canon(d)) PROVE FALSE
  OBVIOUS
<1>1. d \in Seq(Segs) /\ Len(d) \in Nat /\ \A i \in 1 .. Len(d) : d[i] \in DirNames
  BY FsPathIsSeq
<1>2. Len(x) <= Len(d) /\ \A i \in 1 .. Len(x) : Final(x[i]) = Final(d[i])
  BY <1>1, CanonUnder
<1>3. Len(x) \in 1 .. Len(x) /\ Len(x) \in 1 .. Len(d)
  BY <1>1, <1>2
<1>4. Final(Name(x)) = Final(d[Len(x)])
  BY <1>2, <1>3 DEF Name
<1>5. d[Len(x)] \in DirNames
  BY <1>1, <1>3
<1>. QED BY <1>4, <1>5, FinalFacts

\* Nor does a file come to lie below another.
LEMMA FileBelowFile ==
    ASSUME NEW x \in Seq(Segs), Len(x) # 0, Name(x) \in AllFiles,
           NEW y \in FsPaths \X AllFiles, Under(Canon(x), Canon(FilePath(y)))
    PROVE  /\ Canon(x) = Canon(FilePath(y))
           /\ Canon(Parent(x)) = Canon(y[1])
           /\ Final(Name(x)) = Final(y[2])
<1>0. y[1] \in FsPaths /\ y[2] \in AllFiles /\ y \in FsPaths \X Segs
  BY DEF Segs
<1>1. /\ FilePath(y) \in Seq(Segs) /\ Len(FilePath(y)) = Len(y[1]) + 1
      /\ FilePath(y)[Len(FilePath(y))] = y[2]
      /\ Under(y[1], FilePath(y))
  BY <1>0, FilePathFacts
<1>2. y[1] \in Seq(Segs) /\ Len(y[1]) \in Nat
  BY <1>0, FsPathIsSeq
<1>. DEFINE z == FilePath(y)
            p == y[1]
<1>3. /\ z \in Seq(Segs) /\ Len(z) = Len(p) + 1 /\ Under(p, z)
      /\ p \in Seq(Segs) /\ Len(p) \in Nat /\ p \in FsPaths /\ Under(Canon(x), Canon(z))
      /\ z[Len(z)] = y[2]
  BY <1>0, <1>1, <1>2
<1>. HIDE DEF z, p
<1>4. Len(x) <= Len(z) /\ \A i \in 1 .. Len(x) : Final(x[i]) = Final(z[i])
  BY <1>3, CanonUnder
<1>5. \A i \in 1 .. Len(p) : p[i] = z[i]
  BY <1>3, UnderIs
<1>6. Len(x) \in Nat
  OBVIOUS
<1>7. ~(Len(x) <= Len(p))
  <2>. SUFFICES ASSUME Len(x) <= Len(p) PROVE FALSE
    OBVIOUS
  <2>1. \A i \in 1 .. Len(x) : i \in 1 .. Len(p)
    BY <1>3
  <2>2. \A i \in 1 .. Len(x) : Final(x[i]) = Final(p[i])
    BY <1>4, <1>5, <2>1
  <2>3. Under(Canon(x), Canon(p))
    BY <1>3, <2>2, CanonUnder
  <2>. QED BY <1>3, <2>3, DirNotBelowFile
<1>8. Len(x) = Len(z)
  BY <1>3, <1>4, <1>6, <1>7
<1>9. Canon(x) = Canon(z)
  BY <1>3, <1>4, <1>8, CanonSame
<1>10. Parent(x) \in Seq(Segs) /\ Len(Parent(x)) = Len(x) - 1 /\ Under(Parent(x), x)
  BY SplitPath
<1>11. Len(Parent(x)) = Len(p)
  BY <1>3, <1>8, <1>10
<1>12. \A i \in 1 .. Len(p) : Parent(x)[i] = x[i] /\ i \in 1 .. Len(x)
  BY <1>3, <1>8, <1>10, <1>11, UnderIs
<1>13. \A i \in 1 .. Len(p) : Final(Parent(x)[i]) = Final(p[i])
  BY <1>4, <1>5, <1>12
<1>14. Canon(Parent(x)) = Canon(p)
  BY <1>3, <1>10, <1>11, <1>13, CanonSame
<1>15. Len(x) \in 1 .. Len(x)
  BY <1>6
<1>16. Final(Name(x)) = Final(y[2])
  BY <1>3, <1>4, <1>8, <1>15 DEF Name
<1>. QED BY <1>9, <1>14, <1>16 DEF z, p

\* A file that comes to lie below a directory is in it, or below.
LEMMA FileBelowDir ==
    ASSUME NEW t \in FsPaths, NEW y \in FsPaths \X AllFiles,
           Under(Canon(t), Canon(FilePath(y)))
    PROVE  Under(Canon(t), Canon(y[1]))
<1>0. y[1] \in FsPaths /\ y[2] \in AllFiles /\ y \in FsPaths \X Segs
  BY DEF Segs
<1>1. /\ FilePath(y) \in Seq(Segs) /\ Len(FilePath(y)) = Len(y[1]) + 1
      /\ FilePath(y)[Len(FilePath(y))] = y[2]
      /\ Under(y[1], FilePath(y))
  BY <1>0, FilePathFacts
<1>2. y[1] \in Seq(Segs) /\ Len(y[1]) \in Nat
  BY <1>0, FsPathIsSeq
<1>3. t \in Seq(Segs) /\ Len(t) \in Nat \ {0} /\ \A i \in 1 .. Len(t) : t[i] \in DirNames
  BY FsPathIsSeq
<1>. DEFINE z == FilePath(y)
            p == y[1]
<1>4. /\ z \in Seq(Segs) /\ Len(z) = Len(p) + 1 /\ Under(p, z)
      /\ p \in Seq(Segs) /\ Len(p) \in Nat /\ Under(Canon(t), Canon(z))
      /\ z[Len(z)] = y[2]
  BY <1>1, <1>2
<1>. HIDE DEF z, p
<1>5. Len(t) <= Len(z) /\ \A i \in 1 .. Len(t) : Final(t[i]) = Final(z[i])
  BY <1>3, <1>4, CanonUnder
<1>6. \A i \in 1 .. Len(p) : p[i] = z[i]
  BY <1>4, UnderIs
<1>7. Len(t) # Len(z)
  <2>. SUFFICES ASSUME Len(t) = Len(z) PROVE FALSE
    OBVIOUS
  <2>1. Len(t) \in 1 .. Len(t)
    BY <1>3
  <2>2. Final(t[Len(t)]) = Final(y[2]) /\ t[Len(t)] \in DirNames
    BY <1>3, <1>4, <1>5, <2>1
  <2>. QED BY <1>0, <2>2, FinalFacts
<1>8. Len(t) <= Len(p)
  BY <1>3, <1>4, <1>5, <1>7
<1>9. \A i \in 1 .. Len(t) : i \in 1 .. Len(p)
  BY <1>3, <1>4, <1>8
<1>10. \A i \in 1 .. Len(t) : Final(t[i]) = Final(p[i])
  BY <1>5, <1>6, <1>9
<1>11. Under(Canon(t), Canon(p))
  BY <1>3, <1>4, <1>8, <1>10, CanonUnder
<1>. QED BY <1>11 DEF p

-----------------------------------------------------------------------------
\* The normalised path differs from the path in the last name, which comes to
\* the same and can be changed.
LEMMA NormalNewFacts ==
    ASSUME NEW p \in FsPaths
    PROVE  /\ Canon(NormalNew(p)) = Canon(p)
           /\ \A i \in 1 .. Len(p) : i # Len(p) => NormalNew(p)[i] = p[i]
           /\ NormalNew(p)[Len(p)] \notin Lossy
<1>1. p \in Seq(Segs) /\ Len(p) \in Nat \ {0} /\ \A i \in 1 .. Len(p) : p[i] \in DirNames
  BY FsPathIsSeq
<1>2. Name(p) \in DirNames
  BY <1>1 DEF Name
<1>3. PICK m \in DirNames : /\ NormalNew(p) = Append(Parent(p), m)
                            /\ Final(m) = Final(Name(p)) /\ m \notin Lossy
  <2>1. \A n \in Names : n \notin Lossy
    BY NormAssumption, StartupAssumption
  <2>2. Invalid \notin Lossy /\ Invalid \in DirNames
    BY StartupAssumption, FinalFacts
  <2>3. CASE Norm[Name(p)] = Empty
    <3>1. NormalNew(p) = Append(Parent(p), Invalid)
      BY <2>3 DEF NormalNew
    <3>2. Final(Invalid) = Final(Name(p))
      BY <1>2, <2>3, FinalFacts
    <3>. QED BY <2>2, <3>1, <3>2
  <2>4. CASE Norm[Name(p)] # Empty
    <3>1. NormalNew(p) = Append(Parent(p), Norm[Name(p)])
      BY <2>4 DEF NormalNew, Normal
    <3>2. Norm[Name(p)] \in Names /\ Norm[Name(p)] \in DirNames
          /\ Final(Norm[Name(p)]) = Final(Name(p))
      BY <1>2, <2>4, FinalFacts
    <3>. QED BY <2>1, <3>1, <3>2
  <2>. QED BY <2>3, <2>4
<1>4. m \in Segs /\ Len(p) # 0
  BY <1>1 DEF Segs
<1>5. Canon(Append(Parent(p), m)) = Canon(p)
  BY <1>1, <1>3, <1>4, CanonRename
<1>. DEFINE k == Len(p) - 1
            u == Parent(p)
<1>6. u \in Seq(Segs) /\ Len(u) = k /\ Under(u, p)
  BY <1>1, <1>4, SplitPath
<1>7. k \in Nat /\ Len(p) = k + 1
  BY <1>1
<1>. HIDE DEF k, u
<1>8. Append(u, m)[k + 1] = m /\ \A i \in 1 .. k : Append(u, m)[i] = u[i]
  BY <1>4, <1>6, AppendProperties
<1>9. \A i \in 1 .. k : u[i] = p[i]
  BY <1>1, <1>6, UnderIs
<1>10. \A i \in 1 .. Len(p) : i # Len(p) => i \in 1 .. k
  BY <1>7
<1>. QED BY <1>3, <1>5, <1>7, <1>8, <1>9, <1>10 DEF u

\* Where something is after the rename of a directory, name by name.
LEMMA MovedFacts ==
    ASSUME NEW p \in FsPaths, NEW x \in FsPaths
    PROVE  LET y == Moved(x, p, NormalNew(p))
           IN  /\ y \in FsPaths /\ Len(y) = Len(x)
               /\ Canon(y) = Canon(x)
               /\ ~Under(p, x) => y = x
               /\ Under(p, x) => \A i \in 1 .. Len(x) :
                     y[i] = IF i = Len(p) THEN NormalNew(p)[Len(p)] ELSE x[i]
<1>. DEFINE q == NormalNew(p)
            y == Moved(x, p, q)
<1>1. /\ q \in FsPaths /\ Len(q) = Len(p) /\ Canon(q) = Canon(p)
      /\ \A i \in 1 .. Len(p) : i # Len(p) => q[i] = p[i]
  BY NormalIsPath, NormalNewFacts
<1>. HIDE DEF q
<1>2. /\ p \in Seq(Segs) /\ Len(p) \in Nat \ {0}
      /\ q \in Seq(Segs)
      /\ x \in Seq(Segs) /\ Len(x) \in Nat \ {0}
  BY <1>1, FsPathIsSeq
<1>3. y \in FsPaths
  BY <1>1, MovedIsPath
<1>4. CASE Under(p, x)
  <2>1. Len(p) <= Len(x) /\ \A i \in 1 .. Len(p) : p[i] = x[i]
    BY <1>2, <1>4, UnderIs
  <2>. DEFINE z == SubSeq(x, Len(p) + 1, Len(x))
  <2>2. y = q \o z
    BY <1>4 DEF Moved, Rebase
  <2>3. z \in Seq(Segs) /\ Len(z) = Len(x) - Len(p)
        /\ \A i \in 1 .. Len(x) - Len(p) : z[i] = x[Len(p) + i]
    BY <1>2, <2>1
  <2>. HIDE DEF z
  <2>4. Len(y) = Len(x) /\ \A i \in 1 .. Len(x) :
           y[i] = IF i <= Len(p) THEN q[i] ELSE z[i - Len(p)]
    BY <1>1, <1>2, <2>1, <2>2, <2>3
  <2>5. ASSUME NEW i \in 1 .. Len(x)
        PROVE  y[i] = IF i = Len(p) THEN q[Len(p)] ELSE x[i]
    <3>1. CASE i <= Len(p)
      BY <1>1, <1>2, <2>1, <2>4, <3>1
    <3>2. CASE ~(i <= Len(p))
      <4>1. i - Len(p) \in 1 .. Len(x) - Len(p) /\ Len(p) + (i - Len(p)) = i
        BY <1>2, <2>1, <3>2
      <4>2. z[i - Len(p)] = x[i]
        BY <2>3, <4>1
      <4>3. i # Len(p)
        BY <1>2, <3>2
      <4>. QED BY <2>4, <3>2, <4>2, <4>3
    <3>. QED BY <3>1, <3>2
  <2>6. \A i \in 1 .. Len(p) : Final(q[i]) = Final(p[i])
    BY <1>1, <1>2, CanonSame
  <2>7. Len(p) \in 1 .. Len(p)
    BY <1>2
  <2>8. Final(q[Len(p)]) = Final(x[Len(p)])
    BY <2>1, <2>6, <2>7
  <2>. HIDE DEF y
  <2>9. \A i \in 1 .. Len(x) : Final(y[i]) = Final(x[i])
    BY <2>5, <2>8
  <2>10. y \in Seq(Segs)
    BY <1>3, FsPathIsSeq
  <2>11. Canon(y) = Canon(x)
    BY <1>2, <2>4, <2>9, <2>10, CanonSame
  <2>. QED BY <1>3, <1>4, <2>4, <2>5, <2>11 DEF y, q
<1>5. CASE ~Under(p, x)
  BY <1>3, <1>5 DEF Moved, q
<1>. QED BY <1>4, <1>5

\* What is above it moves along.
LEMMA MovedPrefix ==
    ASSUME NEW p \in FsPaths, NEW x \in FsPaths, NEW k \in 1 .. Len(x),
           SubSeq(x, 1, k) \in FsPaths
    PROVE  SubSeq(Moved(x, p, NormalNew(p)), 1, k) = Moved(SubSeq(x, 1, k), p, NormalNew(p))
<1>. DEFINE w == SubSeq(x, 1, k)
            M(z) == Moved(z, p, NormalNew(p))
            y == M(x)
            v == M(w)
            n == NormalNew(p)[Len(p)]
            u == SubSeq(y, 1, k)
<1>1. /\ p \in Seq(Segs) /\ Len(p) \in Nat \ {0}
      /\ x \in Seq(Segs) /\ Len(x) \in Nat \ {0}
  BY FsPathIsSeq
<1>2. k \in 0 .. Len(x) /\ k \in Nat
  OBVIOUS
<1>3. w \in Seq(Segs) /\ Len(w) = k /\ \A i \in 1 .. k : w[i] = x[i]
  BY <1>1, <1>2, PrefixFacts
<1>4. /\ y \in FsPaths /\ Len(y) = Len(x) /\ (~Under(p, x) => y = x)
      /\ Under(p, x) => \A i \in 1 .. Len(x) : y[i] = IF i = Len(p) THEN n ELSE x[i]
  BY MovedFacts
<1>. HIDE DEF w
<1>5. w \in FsPaths
  BY DEF w
<1>6. /\ v \in FsPaths /\ Len(v) = Len(w) /\ (~Under(p, w) => v = w)
      /\ Under(p, w) => \A i \in 1 .. Len(w) : v[i] = IF i = Len(p) THEN n ELSE w[i]
  BY <1>5, MovedFacts
<1>. HIDE DEF y, v, n, M
<1>7. y \in Seq(Segs) /\ v \in Seq(Segs)
  BY <1>4, <1>6, FsPathIsSeq
<1>8. u \in Seq(Segs) /\ Len(u) = k /\ \A i \in 1 .. k : u[i] = y[i]
  BY <1>2, <1>4, <1>7, PrefixFacts
<1>. HIDE DEF u
<1>9. Under(w, x)
  BY <1>1, <1>2, <1>3, UnderIs
<1>10. \A i \in 1 .. k : i \in 1 .. Len(x) /\ i \in 1 .. Len(w)
  BY <1>1, <1>3
<1>11. \A i \in 1 .. k : u[i] = v[i]
  <2>1. CASE Under(p, x) /\ Len(p) <= k
    <3>1. \A i \in 1 .. Len(p) : i \in 1 .. k
      BY <1>1, <2>1
    <3>2. \A i \in 1 .. Len(p) : p[i] = x[i]
      BY <1>1, <2>1, UnderIs
    <3>3. \A i \in 1 .. Len(p) : p[i] = w[i]
      BY <1>3, <3>1, <3>2
    <3>4. Under(p, w)
      BY <1>1, <1>3, <2>1, <3>3, UnderIs
    <3>. QED BY <1>3, <1>4, <1>6, <1>8, <1>10, <2>1, <3>4
  <2>2. CASE Under(p, x) /\ ~(Len(p) <= k)
    <3>1. ~Under(p, w)
      BY <1>3, <2>2 DEF Under
    <3>2. \A i \in 1 .. k : i # Len(p)
      BY <1>1, <2>2
    <3>. QED BY <1>3, <1>4, <1>6, <1>8, <1>10, <2>2, <3>1, <3>2
  <2>3. CASE ~Under(p, x)
    <3>1. ~Under(p, w)
      BY <1>1, <1>3, <1>9, <2>3, UnderOrder
    <3>. QED BY <1>3, <1>4, <1>6, <1>8, <2>3, <3>1
  <2>. QED BY <2>1, <2>2, <2>3
<1>12. u = v
  BY <1>3, <1>6, <1>7, <1>8, <1>11, SeqEqual
<1>. QED BY <1>12 DEF u, v, y, w, M

-----------------------------------------------------------------------------
(***************************************************************************)
(* The invariant of a walk.  Directories and files come to paths that are  *)
(* all different, so what a step renames can be told from the rest; each   *)
(* thing to do answers for what comes to lie below its path, and nothing   *)
(* below it is done before, or something else to do.                       *)
(***************************************************************************)
RootPaths == {<<n>> : n \in rootFiles}

\* The file system: directories lie in directories, and names stay apart.
TreeOK ==
    /\ Closed(dirs)
    /\ Apart(dirs \cup RootPaths)
    /\ \A x, y \in files : x[1] = y[1] /\ Norm[x[2]] = Norm[y[2]] => x = y
    /\ dirs \cap RootPaths = {}

TasksOK ==
    \A t \in todo :
        /\ t.kind \in {"name", "bucket", "entry", "key", "file", "sync"}
        /\ t.path \in Seq(Segs) /\ Len(t.path) # 0
        /\ t.kind \in {"name", "bucket", "entry", "key"} => t.path \in FsPaths
        /\ t.kind \in {"name", "bucket"} <=> Len(t.path) = 1
        /\ t.kind = "file" => Name(t.path) \in AllFiles
        /\ t.kind \in {"file", "sync"} => Parent(t.path) \in FsPaths

IndexOK == seen \subseteq FsPaths /\ found \subseteq FsPaths \X Segs

Present == dirs \cup {FilePath(x) : x \in files}

\* Users have touched whatever is below what they have touched.
Whole ==
    \A p \in Present :
        (\E c \in touched : Under(c, Canon(p))) => Canon(p) \in touched

\* What was found is still there, or users have touched it.
There ==
    /\ \A p \in seen : p \in dirs \/ Touched(p)
    /\ \A x \in found : x \in files \/ Touched(FilePath(x))
    /\ \A t \in todo :
          /\ t.kind = "entry" => t.path \in dirs \/ Touched(t.path)
          /\ t.kind \in {"file", "sync"} => IsFile(t.path) \/ Touched(t.path)

\* The paths that have been dealt with.
Done == seen \cup {FilePath(x) : x \in found}

Ahead ==
    \A t \in todo :
        /\ \A s \in todo : s # t => ~Under(Canon(t.path), Canon(s.path))
        /\ \A p \in Done : ~Under(Canon(t.path), Canon(p))

\* A name in it could not be changed: as Stuck, but a bucket is always opened.
Held(p) ==
    \/ ~Allowed(p) /\ faults > 0
    \/ \E i \in 2 .. Len(p) : p[i] \in Lossy

Due(p) == \E t \in todo : Under(Canon(t.path), Canon(p))

Coming(p) == Touched(p) \/ Held(p) \/ Due(p)

\* What is there is in the index, or will be, unless users touched it or its
\* name could not be changed.
Covered ==
    /\ \A p \in dirs : p \in seen \/ Coming(p)
    /\ \A x \in files : x \in found \/ Coming(FilePath(x))

Walking == TasksOK /\ IndexOK /\ Whole /\ There /\ Ahead /\ Covered

WalkInv == TreeOK /\ (pc # "down" => Walking)

-----------------------------------------------------------------------------
\* Two paths with something below both.
LEMMA UnderChain ==
    ASSUME NEW S, NEW p \in Seq(S), NEW q \in Seq(S), NEW x \in Seq(S),
           Under(p, x), Under(q, x)
    PROVE  Under(p, q) \/ Under(q, p)
<1>1. Len(p) <= Len(x) /\ \A i \in 1 .. Len(p) : p[i] = x[i]
  BY UnderIs
<1>2. Len(q) <= Len(x) /\ \A i \in 1 .. Len(q) : q[i] = x[i]
  BY UnderIs
<1>3. CASE Len(p) <= Len(q)
  <2>1. \A i \in 1 .. Len(p) : p[i] = q[i]
    BY <1>1, <1>2, <1>3
  <2>. QED BY <1>3, <2>1, UnderIs
<1>4. CASE Len(q) <= Len(p)
  <2>1. \A i \in 1 .. Len(q) : q[i] = p[i]
    BY <1>1, <1>2, <1>4
  <2>. QED BY <1>4, <2>1, UnderIs
<1>. QED BY <1>3, <1>4

LEMMA CanonIsSeq == \A p \in Seq(Segs) : Canon(p) \in Seq(Ends)
BY CanonFacts

\* The file system and the index hold paths.
LEMMA PathsAreSeqs ==
    /\ FsOK => /\ \A p \in dirs : p \in FsPaths /\ p \in Seq(Segs)
               /\ \A x \in files : /\ x \in FsPaths \X AllFiles /\ x \in FsPaths \X Segs
                                   /\ x[1] \in dirs /\ x[2] \in AllFiles
                                   /\ FilePath(x) \in Seq(Segs)
    /\ IndexOK => /\ \A p \in Done : p \in Seq(Segs)
                  /\ \A x \in found : x \in FsPaths \X Segs /\ FilePath(x) \in Seq(Segs)
<1>1. AllFiles \subseteq Segs
  BY DEF Segs
<1>2. ASSUME FsOK
      PROVE  /\ \A p \in dirs : p \in FsPaths /\ p \in Seq(Segs)
             /\ \A x \in files : /\ x \in FsPaths \X AllFiles /\ x \in FsPaths \X Segs
                                 /\ x[1] \in dirs /\ x[2] \in AllFiles
                                 /\ FilePath(x) \in Seq(Segs)
  <2>1. \A p \in dirs : p \in FsPaths /\ p \in Seq(Segs)
    BY <1>2, FsPathIsSeq DEF FsOK
  <2>2. ASSUME NEW x \in files
        PROVE  /\ x \in FsPaths \X AllFiles /\ x \in FsPaths \X Segs
               /\ x[1] \in dirs /\ x[2] \in AllFiles
    BY <1>1, <1>2 DEF FsOK
  <2>3. \A x \in files : FilePath(x) \in Seq(Segs)
    BY <2>2, FilePathFacts
  <2>. QED BY <2>1, <2>2, <2>3
<1>3. ASSUME IndexOK
      PROVE  /\ \A p \in Done : p \in Seq(Segs)
             /\ \A x \in found : x \in FsPaths \X Segs /\ FilePath(x) \in Seq(Segs)
  <2>1. \A x \in found : x \in FsPaths \X Segs /\ FilePath(x) \in Seq(Segs)
    BY <1>3, FilePathFacts DEF IndexOK
  <2>2. \A p \in seen : p \in Seq(Segs)
    BY <1>3, FsPathIsSeq DEF IndexOK
  <2>. QED BY <2>1, <2>2 DEF Done
<1>. QED BY <1>2, <1>3

\* Where a file comes to follows from where its directory and its name come to.
LEMMA CanonFilePath ==
    ASSUME NEW x \in FsPaths \X Segs, NEW y \in FsPaths \X Segs,
           Canon(x[1]) = Canon(y[1]), Final(x[2]) = Final(y[2])
    PROVE  Canon(FilePath(x)) = Canon(FilePath(y))
<1>. DEFINE p == FilePath(x)
            q == FilePath(y)
            k == Len(x[1])
<1>1. /\ p \in Seq(Segs) /\ Len(p) = Len(x[1]) + 1 /\ p[Len(p)] = x[2] /\ Under(x[1], p)
      /\ q \in Seq(Segs) /\ Len(q) = Len(y[1]) + 1 /\ q[Len(q)] = y[2] /\ Under(y[1], q)
  BY FilePathFacts
<1>2. x[1] \in Seq(Segs) /\ y[1] \in Seq(Segs) /\ Len(x[1]) \in Nat
  BY FsPathIsSeq
<1>3. Len(y[1]) = Len(x[1]) /\ \A i \in 1 .. Len(x[1]) : Final(x[1][i]) = Final(y[1][i])
  BY <1>2, CanonSame
<1>4. /\ \A i \in 1 .. Len(x[1]) : x[1][i] = p[i]
      /\ \A i \in 1 .. Len(y[1]) : y[1][i] = q[i]
  BY <1>1, <1>2, UnderIs
<1>. HIDE DEF p, q
<1>5. Len(p) = k + 1 /\ Len(q) = k + 1 /\ k \in Nat
  BY <1>1, <1>2, <1>3
<1>6. \A i \in 1 .. k : Final(p[i]) = Final(q[i])
  BY <1>3, <1>4
<1>7. Final(p[k + 1]) = Final(q[k + 1])
  BY <1>1, <1>5
<1>. HIDE DEF k
<1>8. \A i \in 1 .. k + 1 : Final(p[i]) = Final(q[i])
  <2>1. \A i \in 1 .. k + 1 : i \in 1 .. k \/ i = k + 1
    BY <1>5
  <2>. QED BY <1>6, <1>7, <2>1
<1>9. Canon(p) = Canon(q)
  BY <1>1, <1>5, <1>8, CanonSame
<1>. QED BY <1>9 DEF p, q

\* The two ways a file's path is written.
LEMMA IsFileFacts ==
    ASSUME FsOK, NEW p \in Seq(Segs), Len(p) # 0
    PROVE  /\ IsFile(p) => \E x \in files : FilePath(x) = p /\ x = <<Parent(p), Name(p)>>
           /\ \A x \in files : FilePath(x) = p => IsFile(p)
           /\ FilePath(<<Parent(p), Name(p)>>) = p
<1>1. FilePath(<<Parent(p), Name(p)>>) = p
  BY SplitPath DEF FilePath
<1>2. ASSUME NEW x \in files, FilePath(x) = p PROVE IsFile(p)
  <2>1. x \in FsPaths \X Segs
    BY PathsAreSeqs
  <2>2. Parent(p) = x[1] /\ Name(p) = x[2] /\ x = <<x[1], x[2]>>
    BY <1>2, <2>1, FilePathFacts
  <2>. QED BY <2>2 DEF IsFile
<1>. QED BY <1>1, <1>2 DEF IsFile

-----------------------------------------------------------------------------
\* A thing to do may be replaced by others that lie below it, apart from each
\* other, or be done if none of them is it.
LEMMA AheadKept ==
    ASSUME TasksOK, IndexOK, Ahead, NEW t \in todo, NEW N,
           todo' \subseteq (todo \ {t}) \cup N,
           \A p \in Done' : p \in Done \/ p = t.path,
           \A u \in N : u.path \in Seq(Segs) /\ Under(Canon(t.path), Canon(u.path)),
           \A u, v \in N : u # v => ~Under(Canon(u.path), Canon(v.path)),
           \A u \in N : Done' \subseteq Done \/ ~Under(Canon(u.path), Canon(t.path))
    PROVE  Ahead'
<1>1. \A s \in todo : Canon(s.path) \in Seq(Ends)
  BY CanonIsSeq DEF TasksOK
<1>2. \A u \in N : Canon(u.path) \in Seq(Ends)
  BY CanonIsSeq
<1>3. \A p \in Done : Canon(p) \in Seq(Ends)
  BY CanonIsSeq, PathsAreSeqs
<1>4. ASSUME NEW a \in todo', NEW b \in todo', b # a
      PROVE  ~Under(Canon(a.path), Canon(b.path))
  <2>1. CASE a \in todo /\ a # t /\ b \in todo /\ b # t
    BY <1>4, <2>1 DEF Ahead
  <2>2. CASE a \in todo /\ a # t /\ b \in N
    <3>1. ~Under(Canon(a.path), Canon(t.path)) /\ ~Under(Canon(t.path), Canon(a.path))
      BY <2>2 DEF Ahead
    <3>2. /\ Canon(a.path) \in Seq(Ends) /\ Canon(t.path) \in Seq(Ends)
          /\ Canon(b.path) \in Seq(Ends) /\ Under(Canon(t.path), Canon(b.path))
      BY <1>1, <1>2, <2>2
    <3>. QED BY <3>1, <3>2, UnderChain
  <2>3. CASE a \in N /\ b \in todo /\ b # t
    <3>1. ~Under(Canon(t.path), Canon(b.path))
      BY <2>3 DEF Ahead
    <3>2. /\ Canon(a.path) \in Seq(Ends) /\ Canon(t.path) \in Seq(Ends)
          /\ Canon(b.path) \in Seq(Ends) /\ Under(Canon(t.path), Canon(a.path))
      BY <1>1, <1>2, <2>3
    <3>. QED BY <3>1, <3>2, UnderOrder
  <2>4. CASE a \in N /\ b \in N
    BY <1>4, <2>4
  <2>. QED BY <2>1, <2>2, <2>3, <2>4
<1>5. ASSUME NEW a \in todo', NEW p \in Done'
      PROVE  ~Under(Canon(a.path), Canon(p))
  <2>1. CASE a \in todo /\ a # t
    BY <1>5, <2>1 DEF Ahead
  <2>2. CASE a \in N /\ p \in Done
    <3>1. ~Under(Canon(t.path), Canon(p))
      BY <2>2 DEF Ahead
    <3>2. /\ Canon(a.path) \in Seq(Ends) /\ Canon(t.path) \in Seq(Ends)
          /\ Canon(p) \in Seq(Ends) /\ Under(Canon(t.path), Canon(a.path))
      BY <1>1, <1>2, <1>3, <2>2
    <3>. QED BY <3>1, <3>2, UnderOrder
  <2>3. CASE a \in N /\ p \notin Done
    BY <1>5, <2>3
  <2>. QED BY <2>1, <2>2, <2>3
<1>. QED BY <1>4, <1>5 DEF Ahead

\* Nothing a thing to do answers for is lost when the file system stays as it is.
LEMMA CoveredKept ==
    ASSUME Covered, NEW t \in todo, UNCHANGED <<dirs, files, touched>>,
           faults \in Nat, faults' = faults \/ faults' = faults + 1,
           todo \ {t} \subseteq todo', seen \subseteq seen', found \subseteq found',
           \A p \in dirs : Under(Canon(t.path), Canon(p)) => p \in seen' \/ Coming(p)',
           \A x \in files : Under(Canon(t.path), Canon(FilePath(x))) =>
              x \in found' \/ Coming(FilePath(x))'
    PROVE  Covered'
<1>1. ASSUME NEW p, Coming(p), ~Under(Canon(t.path), Canon(p))
      PROVE  Coming(p)'
  <2>1. CASE Touched(p)
    BY <2>1 DEF Coming, Touched
  <2>2. CASE Held(p)
    <3>1. faults > 0 => faults' > 0
      OBVIOUS
    <3>. QED BY <2>2, <3>1 DEF Coming, Held
  <2>3. CASE Due(p)
    BY <1>1, <2>3 DEF Coming, Due
  <2>. QED BY <1>1, <2>1, <2>2, <2>3 DEF Coming
<1>2. \A p \in dirs' : p \in seen' \/ Coming(p)'
  BY <1>1 DEF Covered
<1>3. \A x \in files' : x \in found' \/ Coming(FilePath(x))'
  BY <1>1 DEF Covered
<1>. QED BY <1>2, <1>3 DEF Covered

\* What the rename of a directory does: everything that was there is there, under
\* a path that comes to the same, and nothing else; only what is below it moved.
LEMMA MoveEffects ==
    ASSUME FsOK, NEW p \in FsPaths, MoveDir(p, NormalNew(p))
    PROVE  /\ \A d \in dirs' : \E e \in dirs :
                 Canon(d) = Canon(e) /\ (~Under(p, e) => d = e)
                 /\ d = Moved(e, p, NormalNew(p))
           /\ \A y \in files' : \E x \in files :
                 /\ Canon(y[1]) = Canon(x[1]) /\ y[2] = x[2]
                 /\ Canon(FilePath(y)) = Canon(FilePath(x))
                 /\ (~Under(p, x[1]) => y = x)
           /\ \A d \in RootPaths' : \E e \in RootPaths :
                 Canon(d) = Canon(e) /\ d \in FsPaths
           /\ \A e \in dirs : ~Under(p, e) => e \in dirs'
           /\ \A x \in files : ~Under(p, x[1]) => x \in files'
<1>. DEFINE M(x) == Moved(x, p, NormalNew(p))
<1>1. /\ dirs' = {M(x) : x \in dirs}
      /\ files' = {<<M(x[1]), x[2]>> : x \in files}
      /\ rootFiles' = {M(<<n>>)[1] : n \in rootFiles}
  BY DEF MoveDir
<1>2. \A x \in FsPaths : M(x) \in FsPaths /\ Len(M(x)) = Len(x) /\ Canon(M(x)) = Canon(x)
                         /\ (~Under(p, x) => M(x) = x)
  BY MovedFacts
<1>3. \A e \in dirs : e \in FsPaths
  BY PathsAreSeqs
<1>. HIDE DEF M
<1>4. \A d \in dirs' : \E e \in dirs :
         Canon(d) = Canon(e) /\ (~Under(p, e) => d = e) /\ d = M(e)
  BY <1>1, <1>2, <1>3
<1>5. \A e \in dirs : ~Under(p, e) => e \in dirs'
  BY <1>1, <1>2, <1>3
<1>6. ASSUME NEW x \in files
      PROVE  /\ x \in FsPaths \X Segs /\ x[1] \in FsPaths /\ x = <<x[1], x[2]>>
             /\ <<M(x[1]), x[2]>> \in FsPaths \X Segs
             /\ Canon(M(x[1])) = Canon(x[1])
             /\ Canon(FilePath(<<M(x[1]), x[2]>>)) = Canon(FilePath(x))
             /\ (~Under(p, x[1]) => <<M(x[1]), x[2]>> = x)
  <2>1. x \in FsPaths \X Segs
    BY PathsAreSeqs
  <2>2. x[1] \in FsPaths /\ x[2] \in Segs /\ x = <<x[1], x[2]>>
    BY <2>1
  <2>3. M(x[1]) \in FsPaths /\ Canon(M(x[1])) = Canon(x[1])
        /\ (~Under(p, x[1]) => M(x[1]) = x[1])
    BY <1>2, <2>2
  <2>. DEFINE y == <<M(x[1]), x[2]>>
  <2>4. y \in FsPaths \X Segs /\ y[1] = M(x[1]) /\ y[2] = x[2]
    BY <2>2, <2>3
  <2>. HIDE DEF y
  <2>5. Canon(FilePath(y)) = Canon(FilePath(x))
    BY <2>1, <2>3, <2>4, CanonFilePath
  <2>. QED BY <2>1, <2>2, <2>3, <2>4, <2>5 DEF y
<1>7. ASSUME NEW y \in files'
      PROVE  \E x \in files : /\ Canon(y[1]) = Canon(x[1]) /\ y[2] = x[2]
                              /\ Canon(FilePath(y)) = Canon(FilePath(x))
                              /\ (~Under(p, x[1]) => y = x)
  <2>1. PICK x \in files : y = <<M(x[1]), x[2]>>
    BY <1>1
  <2>2. y[1] = M(x[1]) /\ y[2] = x[2]
    BY <2>1
  <2>. QED BY <1>6, <2>1, <2>2
<1>8. \A x \in files : ~Under(p, x[1]) => x \in files'
  BY <1>1, <1>6
<1>9. ASSUME NEW d \in RootPaths'
      PROVE  \E e \in RootPaths : Canon(d) = Canon(e) /\ d \in FsPaths
  <2>1. PICK n \in rootFiles : d = <<M(<<n>>)[1]>>
    BY <1>1 DEF RootPaths
  <2>2. <<n>> \in FsPaths
    BY RootIsPath DEF FsOK
  <2>3. M(<<n>>) \in FsPaths /\ Len(M(<<n>>)) = 1 /\ Canon(M(<<n>>)) = Canon(<<n>>)
    BY <1>2, <2>2
  <2>. DEFINE w == M(<<n>>)
  <2>. HIDE DEF w
  <2>4. w \in Seq(Segs) /\ Len(w) = 1
    BY <2>3, FsPathIsSeq DEF w
  <2>5. w = <<w[1]>>
    BY <2>4
  <2>6. d = w
    BY <2>1, <2>5 DEF w
  <2>7. <<n>> \in RootPaths
    BY DEF RootPaths
  <2>. QED BY <2>3, <2>6, <2>7 DEF w
<1>. QED BY <1>4, <1>5, <1>7, <1>8, <1>9 DEF M

\* The rename of a directory keeps paths apart.
LEMMA MoveKeepsTree ==
    ASSUME FsOK, TreeOK, NEW p \in FsPaths, MoveDir(p, NormalNew(p))
    PROVE  TreeOK'
<1>. DEFINE M(x) == Moved(x, p, NormalNew(p))
<1>1. /\ \A d \in dirs' : \E e \in dirs : Canon(d) = Canon(e) /\ d = M(e)
      /\ \A y \in files' : \E x \in files :
            /\ Canon(y[1]) = Canon(x[1]) /\ y[2] = x[2]
            /\ y = <<M(x[1]), x[2]>>
      /\ \A d \in RootPaths' : \E e \in RootPaths : Canon(d) = Canon(e)
  <2>1. \A y \in files' : \E x \in files : y = <<M(x[1]), x[2]>>
    BY DEF MoveDir
  <2>2. \A x \in files : x[1] \in FsPaths
    BY PathsAreSeqs
  <2>3. \A x \in files : Canon(M(x[1])) = Canon(x[1])
    BY <2>2, MovedFacts
  <2>4. \A y \in files' : \E x \in files :
            /\ Canon(y[1]) = Canon(x[1]) /\ y[2] = x[2]
            /\ y = <<M(x[1]), x[2]>>
    <3>. TAKE y \in files'
    <3>1. PICK x \in files : y = <<M(x[1]), x[2]>>
      BY <2>1
    <3>2. y[1] = M(x[1]) /\ y[2] = x[2]
      BY <3>1
    <3>. QED BY <2>3, <3>1, <3>2
  <2>. QED BY <2>4, MoveEffects
<1>2. \A e \in dirs : M(e) \in dirs' /\ e \in FsPaths
  BY PathsAreSeqs DEF MoveDir
<1>3. Closed(dirs')
  <2>. SUFFICES ASSUME NEW d \in dirs', NEW k \in 1 .. Len(d)
                PROVE  SubSeq(d, 1, k) \in dirs'
    BY DEF Closed
  <2>1. PICK e \in dirs : d = M(e)
    BY <1>1
  <2>2. e \in FsPaths /\ Len(d) = Len(e)
    BY <1>2, <2>1, MovedFacts
  <2>3. SubSeq(e, 1, k) \in dirs
    BY <2>2 DEF TreeOK, Closed
  <2>4. SubSeq(e, 1, k) \in FsPaths /\ k \in 1 .. Len(e)
    BY <1>2, <2>2, <2>3
  <2>5. SubSeq(d, 1, k) = M(SubSeq(e, 1, k))
    BY <2>1, <2>2, <2>4, MovedPrefix
  <2>. QED BY <1>2, <2>3, <2>5
<1>4. ASSUME NEW d \in dirs' \cup RootPaths', NEW e \in dirs' \cup RootPaths',
             Canon(d) = Canon(e)
      PROVE  d \in dirs' /\ e \in dirs' => d = e
  <2>. SUFFICES ASSUME d \in dirs', e \in dirs' PROVE d = e
    OBVIOUS
  <2>1. PICK a \in dirs : Canon(d) = Canon(a) /\ d = M(a)
    BY <1>1
  <2>2. PICK b \in dirs : Canon(e) = Canon(b) /\ e = M(b)
    BY <1>1
  <2>3. a = b
    BY <1>4, <2>1, <2>2 DEF TreeOK, Apart
  <2>. QED BY <2>1, <2>2, <2>3
<1>5. ASSUME NEW d \in dirs', NEW e \in RootPaths'
      PROVE  Canon(d) # Canon(e)
  <2>1. PICK a \in dirs : Canon(d) = Canon(a)
    BY <1>1
  <2>2. PICK b \in RootPaths : Canon(e) = Canon(b)
    BY <1>1
  <2>. QED BY <2>1, <2>2 DEF TreeOK, Apart
<1>6. ASSUME NEW d \in RootPaths', NEW e \in RootPaths', Canon(d) = Canon(e)
      PROVE  d = e
  <2>1. PICK m \in rootFiles : d = <<M(<<m>>)[1]>>
    BY DEF RootPaths, MoveDir
  <2>2. PICK n \in rootFiles : e = <<M(<<n>>)[1]>>
    BY DEF RootPaths, MoveDir
  <2>. DEFINE v == M(<<m>>)
              w == M(<<n>>)
  <2>3. <<m>> \in FsPaths /\ <<n>> \in FsPaths
    BY RootIsPath DEF FsOK
  <2>4. /\ v \in FsPaths /\ Len(v) = 1 /\ Canon(v) = Canon(<<m>>)
        /\ w \in FsPaths /\ Len(w) = 1 /\ Canon(w) = Canon(<<n>>)
    BY <2>3, MovedFacts
  <2>. HIDE DEF v, w
  <2>5. v \in Seq(Segs) /\ w \in Seq(Segs)
    BY <2>4, FsPathIsSeq
  <2>6. v = <<v[1]>> /\ w = <<w[1]>>
    BY <2>4, <2>5
  <2>7. d = v /\ e = w
    BY <2>1, <2>2, <2>6 DEF v, w
  <2>8. Canon(<<m>>) = Canon(<<n>>)
    BY <1>6, <2>4, <2>7
  <2>9. <<m>> = <<n>>
    BY <2>8 DEF TreeOK, Apart, RootPaths
  <2>. QED BY <2>7, <2>9 DEF v, w
<1>7. Apart(dirs' \cup RootPaths')
  BY <1>4, <1>5, <1>6 DEF Apart
<1>8. dirs' \cap RootPaths' = {}
  BY <1>5
<1>9. \A x, y \in files' : x[1] = y[1] /\ Norm[x[2]] = Norm[y[2]] => x = y
  <2>. SUFFICES ASSUME NEW x \in files', NEW y \in files',
                       x[1] = y[1], Norm[x[2]] = Norm[y[2]]
                PROVE  x = y
    OBVIOUS
  <2>1. PICK a \in files : Canon(x[1]) = Canon(a[1]) /\ x[2] = a[2] /\ x = <<M(a[1]), a[2]>>
    BY <1>1
  <2>2. PICK b \in files : Canon(y[1]) = Canon(b[1]) /\ y[2] = b[2] /\ y = <<M(b[1]), b[2]>>
    BY <1>1
  <2>3. a[1] \in dirs /\ b[1] \in dirs
    BY PathsAreSeqs
  <2>4. a[1] = b[1]
    BY <2>1, <2>2, <2>3 DEF TreeOK, Apart
  <2>5. a = b
    BY <2>1, <2>2, <2>4 DEF TreeOK
  <2>. QED BY <2>1, <2>2, <2>5
<1>. QED BY <1>3, <1>7, <1>8, <1>9 DEF TreeOK, Closed, Apart, RootPaths

-----------------------------------------------------------------------------
\* A walk goes on after the rename of a directory that is to be dealt with.
LEMMA MoveKeepsWalk ==
    ASSUME FsOK, Walking, faults \in Nat, NEW t \in todo, t.path \in FsPaths,
           MoveDir(t.path, NormalNew(t.path)),
           NEW u, u.kind \in {"bucket", "key"}, u.path \in FsPaths,
           Canon(u.path) = Canon(t.path),
           todo' = (todo \ {t}) \cup {u}, UNCHANGED <<seen, found, touched, faults>>
    PROVE  Whole' /\ There' /\ Ahead' /\ Covered'
<1>. DEFINE p == t.path
<1>1. /\ \A d \in dirs' : \E e \in dirs : Canon(d) = Canon(e) /\ (~Under(p, e) => d = e)
      /\ \A y \in files' : \E x \in files :
            Canon(FilePath(y)) = Canon(FilePath(x)) /\ (~Under(p, x[1]) => y = x)
      /\ \A e \in dirs : ~Under(p, e) => e \in dirs'
      /\ \A x \in files : ~Under(p, x[1]) => x \in files'
  BY MoveEffects
<1>2. p \in Seq(Segs) /\ u.path \in Seq(Segs) /\ Canon(p) \in Seq(Ends)
  BY FsPathIsSeq, CanonIsSeq
<1>3. \A x \in Seq(Segs) : Under(p, x) => Under(Canon(p), Canon(x))
  BY <1>2, CanonUnder
<1>4. ASSUME NEW x \in FsPaths \X Segs, Under(p, x[1])
      PROVE  Under(Canon(p), Canon(FilePath(x)))
  <2>1. x[1] \in Seq(Segs) /\ FilePath(x) \in Seq(Segs) /\ Under(x[1], FilePath(x))
    BY FsPathIsSeq, FilePathFacts
  <2>2. Under(p, FilePath(x))
    BY <1>2, <1>4, <2>1, UnderOrder
  <2>. QED BY <1>3, <2>1, <2>2
<1>5. Whole'
  <2>. SUFFICES ASSUME NEW d \in Present', NEW c \in touched, Under(c, Canon(d))
                PROVE  Canon(d) \in touched
    BY DEF Whole, Touched
  <2>1. PICK e \in Present : Canon(e) = Canon(d)
    BY <1>1 DEF Present
  <2>. QED BY <2>1 DEF Walking, Whole, Touched
<1>6. There'
  <2>1. ASSUME NEW d \in seen PROVE (d \in dirs \/ Touched(d))'
    <3>1. d \in Done /\ d \in Seq(Segs)
      BY PathsAreSeqs DEF Walking, Done
    <3>2. ~Under(p, d)
      BY <1>3, <3>1 DEF Walking, Ahead
    <3>3. d \in dirs \/ Touched(d)
      BY DEF Walking, There
    <3>. QED BY <1>1, <3>2, <3>3 DEF Touched
  <2>2. ASSUME NEW x \in found PROVE (x \in files \/ Touched(FilePath(x)))'
    <3>1. FilePath(x) \in Done /\ x \in FsPaths \X Segs
      BY PathsAreSeqs DEF Walking, Done
    <3>2. ~Under(p, x[1])
      BY <1>4, <3>1 DEF Walking, Ahead
    <3>3. x \in files \/ Touched(FilePath(x))
      BY DEF Walking, There
    <3>. QED BY <1>1, <3>2, <3>3 DEF Touched
  <2>3. ASSUME NEW s \in todo, s # t, s.kind = "entry"
        PROVE  (s.path \in dirs \/ Touched(s.path))'
    <3>1. s.path \in Seq(Segs) /\ ~Under(Canon(p), Canon(s.path))
      BY <2>3 DEF Walking, TasksOK, Ahead
    <3>2. ~Under(p, s.path)
      BY <1>3, <3>1
    <3>3. s.path \in dirs \/ Touched(s.path)
      BY <2>3 DEF Walking, There
    <3>. QED BY <1>1, <3>2, <3>3 DEF Touched
  <2>4. ASSUME NEW s \in todo, s # t, s.kind \in {"file", "sync"}
        PROVE  (IsFile(s.path) \/ Touched(s.path))'
    <3>1. /\ s.path \in Seq(Segs) /\ Len(s.path) # 0
          /\ ~Under(Canon(p), Canon(s.path))
      BY <2>4 DEF Walking, TasksOK, Ahead
    <3>2. CASE IsFile(s.path)
      <4>1. PICK x \in files : FilePath(x) = s.path /\ x = <<Parent(s.path), Name(s.path)>>
        BY <3>1, <3>2, IsFileFacts
      <4>2. x \in FsPaths \X Segs
        BY PathsAreSeqs
      <4>3. ~Under(p, x[1])
        BY <1>4, <3>1, <4>1, <4>2
      <4>4. x \in files'
        BY <1>1, <4>3
      <4>. QED BY <4>1, <4>4 DEF IsFile
    <3>3. CASE ~IsFile(s.path)
      <4>1. Touched(s.path)
        BY <2>4, <3>3 DEF Walking, There
      <4>. QED BY <4>1 DEF Touched
    <3>. QED BY <3>2, <3>3
  <2>5. ASSUME NEW s \in todo'
        PROVE  /\ s.kind = "entry" => (s.path \in dirs \/ Touched(s.path))'
               /\ s.kind \in {"file", "sync"} => (IsFile(s.path) \/ Touched(s.path))'
    BY <2>3, <2>4
  <2>. QED BY <2>1, <2>2, <2>5 DEF There
<1>7. Under(Canon(p), Canon(u.path))
  BY <1>2, UnderOrder
<1>8. Ahead'
  <2>. DEFINE N == {u}
  <2>1. todo' \subseteq (todo \ {t}) \cup N
    OBVIOUS
  <2>2. \A d \in Done' : d \in Done
    BY DEF Done
  <2>3. /\ \A v \in N : v.path \in Seq(Segs) /\ Under(Canon(p), Canon(v.path))
        /\ \A v, w \in N : v # w => ~Under(Canon(v.path), Canon(w.path))
    BY <1>2, <1>7
  <2>. HIDE DEF N
  <2>. QED BY <2>1, <2>2, <2>3, AheadKept DEF Walking
<1>9. ASSUME NEW d, NEW e, Canon(d) = Canon(e), Coming(e),
             ~Under(Canon(p), Canon(e)) => d = e
      PROVE  Coming(d)'
  <2>1. CASE Under(Canon(p), Canon(e))
    <3>1. u \in todo' /\ Under(Canon(u.path), Canon(d))
      BY <1>9, <2>1
    <3>. QED BY <3>1 DEF Coming, Due
  <2>2. CASE ~Under(Canon(p), Canon(e))
    <3>1. d = e
      BY <1>9, <2>2
    <3>2. Due(e) => Due(e)'
      BY <2>2 DEF Due
    <3>. QED BY <1>9, <3>1, <3>2 DEF Coming, Touched, Held
  <2>. QED BY <2>1, <2>2
<1>10. ASSUME NEW d, NEW e, Canon(d) = Canon(e), Under(Canon(p), Canon(e))
       PROVE  Coming(d)'
  <2>1. u \in todo' /\ Under(Canon(u.path), Canon(d))
    BY <1>10
  <2>. QED BY <2>1 DEF Coming, Due
<1>11. ASSUME NEW d \in dirs' PROVE d \in seen' \/ Coming(d)'
  <2>1. PICK e \in dirs : Canon(d) = Canon(e) /\ (~Under(p, e) => d = e)
    BY <1>1
  <2>2. e \in Seq(Segs)
    BY PathsAreSeqs
  <2>3. ~Under(Canon(p), Canon(e)) => d = e
    BY <1>3, <2>1, <2>2
  <2>4. e \in seen \/ Coming(e)
    BY DEF Walking, Covered
  <2>. QED BY <1>9, <1>10, <2>1, <2>3, <2>4
<1>12. ASSUME NEW y \in files' PROVE y \in found' \/ Coming(FilePath(y))'
  <2>1. PICK x \in files : Canon(FilePath(y)) = Canon(FilePath(x)) /\ (~Under(p, x[1]) => y = x)
    BY <1>1
  <2>2. x \in FsPaths \X Segs
    BY PathsAreSeqs
  <2>3. ~Under(Canon(p), Canon(FilePath(x))) => y = x
    BY <1>4, <2>1, <2>2
  <2>4. x \in found \/ Coming(FilePath(x))
    BY DEF Walking, Covered
  <2>5. CASE Under(Canon(p), Canon(FilePath(x)))
    BY <1>10, <2>1, <2>5
  <2>6. CASE ~Under(Canon(p), Canon(FilePath(x)))
    <3>1. y = x
      BY <2>3, <2>6
    <3>. QED BY <1>9, <2>4, <2>6, <3>1
  <2>. QED BY <2>5, <2>6
<1>13. Covered'
  BY <1>11, <1>12 DEF Covered
<1>. QED BY <1>5, <1>6, <1>8, <1>13

-----------------------------------------------------------------------------
LEMMA FaultsAreNat == StartInv => faults \in Nat
BY StartupAssumption DEF StartInv, Bounded

\* The directory a path that lies below another lies in, one level below it.
LEMMA StepDown ==
    ASSUME NEW S, NEW p \in Seq(S), NEW d \in Seq(S), Under(p, d), p # d
    PROVE  LET e == SubSeq(d, 1, Len(p) + 1)
           IN  /\ Len(p) + 1 \in 1 .. Len(d) /\ e \in Seq(S) /\ Len(e) = Len(p) + 1
               /\ Parent(e) = p /\ Under(e, d)
<1>. DEFINE k == Len(p) + 1
            e == SubSeq(d, 1, k)
<1>1. Len(p) <= Len(d) /\ \A i \in 1 .. Len(p) : p[i] = d[i]
  BY UnderIs
<1>2. Len(p) # Len(d)
  BY UnderOrder
<1>3. k \in 1 .. Len(d) /\ k \in 0 .. Len(d) /\ k \in Nat /\ k = Len(p) + 1 /\ k # 0
  BY <1>1, <1>2
<1>. HIDE DEF k
<1>4. e \in Seq(S) /\ Len(e) = k /\ \A i \in 1 .. k : e[i] = d[i]
  BY <1>3, PrefixFacts
<1>. HIDE DEF e
<1>5. Under(e, d)
  BY <1>3, <1>4, UnderIs
<1>6. Parent(e) \in Seq(S) /\ Len(Parent(e)) = Len(p) /\ Under(Parent(e), e)
  BY <1>3, <1>4, SplitPath
<1>7. \A i \in 1 .. Len(p) : Parent(e)[i] = e[i] /\ i \in 1 .. k
  BY <1>3, <1>4, <1>6, UnderIs
<1>8. \A i \in 1 .. Len(p) : Parent(e)[i] = p[i]
  BY <1>1, <1>4, <1>7
<1>9. Parent(e) = p
  BY <1>6, <1>8, SeqEqual
<1>. QED BY <1>3, <1>4, <1>5, <1>9 DEF e, k

\* What a step changes that leaves the file system alone.
LEMMA SameFiles ==
    ASSUME UNCHANGED <<dirs, files, touched>>
    PROVE  /\ Whole => Whole'
           /\ \A p : Touched(p)' <=> Touched(p)
           /\ \A p : IsFile(p)' <=> IsFile(p)
           /\ UNCHANGED rootFiles /\ TreeOK => TreeOK'
BY DEF Whole, Present, Touched, IsFile, TreeOK, Apart, Closed, RootPaths

\* Listing the root and normalising the buckets.
LEMMA ListKeepsWalk ==
    ASSUME StartInv, StartInv', TreeOK, Walking, List
    PROVE  TreeOK' /\ Walking'
<1>1. PICK t \in todo : ListBucket(t)
  BY DEF List
<1>. DEFINE u == Task("bucket", t.path)
<1>2. /\ t.kind = "name" /\ todo' = (todo \ {t}) \cup {u}
      /\ UNCHANGED <<seen, found, touched, faults>>
      /\ IF Renamable(t.path) THEN MoveDir(t.path, NormalNew(t.path)) ELSE UNCHANGED fs
  BY <1>1 DEF List, ListBucket, index, history, bounds
<1>3. t.path \in FsPaths /\ t.path \in Seq(Segs) /\ Len(t.path) = 1
  BY <1>2 DEF Walking, TasksOK
<1>4. u.kind = "bucket" /\ u.path = t.path
  BY DEF Task
<1>. HIDE DEF u
<1>5. TasksOK' /\ IndexOK'
  BY <1>2, <1>3, <1>4 DEF Walking, TasksOK, IndexOK
<1>6. FsOK /\ faults \in Nat
  BY FaultsAreNat DEF StartInv
<1>7. CASE Renamable(t.path)
  <2>1. MoveDir(t.path, NormalNew(t.path))
    BY <1>2, <1>7
  <2>2. TreeOK'
    BY <1>3, <1>6, <2>1, MoveKeepsTree
  <2>3. Whole' /\ There' /\ Ahead' /\ Covered'
    BY <1>2, <1>3, <1>4, <1>6, <2>1, MoveKeepsWalk
  <2>. QED BY <1>5, <2>2, <2>3 DEF Walking
<1>8. CASE ~Renamable(t.path)
  <2>1. UNCHANGED <<dirs, files, rootFiles>>
    BY <1>2, <1>8 DEF fs
  <2>2. TreeOK' /\ Whole'
    BY <1>2, <2>1, SameFiles DEF Walking
  <2>3. There'
    BY <1>2, <1>4, <2>1, SameFiles DEF Walking, There
  <2>4. Canon(t.path) \in Seq(Ends)
    BY <1>3, CanonIsSeq
  <2>5. Under(Canon(t.path), Canon(u.path))
    BY <1>4, <2>4, UnderOrder
  <2>6. Ahead'
    <3>. DEFINE N == {u}
    <3>1. todo' \subseteq (todo \ {t}) \cup N /\ Done' = Done
      BY <1>2 DEF Done
    <3>2. /\ \A v \in N : v.path \in Seq(Segs) /\ Under(Canon(t.path), Canon(v.path))
          /\ \A v, w \in N : v # w => ~Under(Canon(v.path), Canon(w.path))
      BY <1>3, <1>4, <2>5
    <3>. HIDE DEF N
    <3>. QED BY <3>1, <3>2, AheadKept DEF Walking
  <2>7. ASSUME NEW p, Under(Canon(t.path), Canon(p)) PROVE Coming(p)'
    <3>1. u \in todo' /\ Under(Canon(u.path), Canon(p))
      BY <1>2, <1>4, <2>7
    <3>. QED BY <3>1 DEF Coming, Due
  <2>8. Covered'
    BY <1>2, <1>6, <2>1, <2>7, CoveredKept DEF Walking
  <2>. QED BY <1>5, <2>2, <2>3, <2>6, <2>8 DEF Walking
<1>. QED BY <1>7, <1>8

\* The entries of a directory.
LEMMA EntriesFacts ==
    ASSUME FsOK, NEW p \in dirs, NEW e \in Entries(p)
    PROVE  /\ e.kind \in {"entry", "file"} /\ e = Task(e.kind, e.path)
           /\ e.path \in Seq(Segs) /\ Len(e.path) = Len(p) + 1 /\ Len(p) \in Nat \ {0}
           /\ Under(p, e.path) /\ Parent(e.path) = p
           /\ e.kind = "entry" => e.path \in dirs
           /\ e.kind = "file" => \E y \in files : y[1] = p /\ e.path = FilePath(y)
<1>1. p \in Seq(Segs) /\ Len(p) \in Nat \ {0}
  BY PathsAreSeqs, FsPathIsSeq
<1>2. CASE \E r \in dirs : Len(r) > 1 /\ Parent(r) = p /\ e = Task("entry", r)
  <2>1. PICK r \in dirs : Len(r) > 1 /\ Parent(r) = p /\ e = Task("entry", r)
    BY <1>2
  <2>2. r \in Seq(Segs) /\ Len(r) \in Nat
    BY PathsAreSeqs, FsPathIsSeq
  <2>3. Len(p) = Len(r) - 1 /\ Under(p, r)
    BY <2>1, <2>2, SplitPath
  <2>4. Len(r) = Len(p) + 1
    BY <2>2, <2>3
  <2>. QED BY <1>1, <2>1, <2>2, <2>3, <2>4 DEF Task
<1>3. CASE \E y \in files : y[1] = p /\ e = Task("file", Append(p, y[2]))
  <2>1. PICK y \in files : y[1] = p /\ e = Task("file", Append(p, y[2]))
    BY <1>3
  <2>2. y \in FsPaths \X Segs
    BY PathsAreSeqs
  <2>3. /\ FilePath(y) \in Seq(Segs) /\ Len(FilePath(y)) = Len(p) + 1
        /\ Under(p, FilePath(y)) /\ Parent(FilePath(y)) = p
    BY <2>1, <2>2, FilePathFacts
  <2>4. e.kind = "file" /\ e.path = FilePath(y) /\ e = Task(e.kind, e.path)
    BY <2>1 DEF Task, FilePath
  <2>. QED BY <1>1, <2>1, <2>3, <2>4
<1>4. \/ \E r \in dirs : Len(r) > 1 /\ Parent(r) = p /\ e = Task("entry", r)
      \/ \E y \in files : y[1] = p /\ e = Task("file", Append(p, y[2]))
  BY DEF Entries
<1>. QED BY <1>2, <1>3, <1>4

\* They come to different paths.
LEMMA EntriesApart ==
    ASSUME FsOK, TreeOK, NEW p \in dirs, NEW u \in Entries(p), NEW v \in Entries(p), u # v
    PROVE  ~Under(Canon(u.path), Canon(v.path))
<1>. SUFFICES ASSUME Under(Canon(u.path), Canon(v.path)) PROVE FALSE
  OBVIOUS
<1>1. /\ u.path \in Seq(Segs) /\ v.path \in Seq(Segs)
      /\ Len(u.path) = Len(p) + 1 /\ Len(v.path) = Len(p) + 1 /\ Len(p) \in Nat \ {0}
      /\ u.kind \in {"entry", "file"} /\ v.kind \in {"entry", "file"}
      /\ u = Task(u.kind, u.path) /\ v = Task(v.kind, v.path)
  BY EntriesFacts
<1>2. Len(u.path) # 0
  BY <1>1
<1>3. CASE u.kind = "entry" /\ v.kind = "entry"
  <2>1. u.path \in dirs /\ v.path \in dirs
    BY <1>3, EntriesFacts
  <2>2. /\ Canon(u.path) \in Seq(Ends) /\ Len(Canon(u.path)) = Len(u.path)
        /\ Canon(v.path) \in Seq(Ends) /\ Len(Canon(v.path)) = Len(v.path)
    BY <1>1, CanonFacts
  <2>3. Canon(u.path) = Canon(v.path)
    BY <1>1, <2>2, UnderOrder
  <2>4. u.path = v.path
    BY <2>1, <2>3 DEF TreeOK, Apart
  <2>. QED BY <1>1, <1>3, <2>4
<1>4. CASE u.kind = "entry" /\ v.kind = "file"
  <2>1. u.path \in FsPaths
    BY <1>4, EntriesFacts, PathsAreSeqs
  <2>2. PICK y \in files : y[1] = p /\ v.path = FilePath(y)
    BY <1>4, EntriesFacts
  <2>3. y \in FsPaths \X AllFiles
    BY PathsAreSeqs
  <2>4. Under(Canon(u.path), Canon(p))
    BY <2>1, <2>2, <2>3, FileBelowDir
  <2>5. p \in Seq(Segs)
    BY PathsAreSeqs
  <2>6. Len(u.path) <= Len(p)
    BY <1>1, <2>4, <2>5, CanonUnder
  <2>. QED BY <1>1, <2>6
<1>5. CASE u.kind = "file"
  <2>1. PICK x \in files : x[1] = p /\ u.path = FilePath(x)
    BY <1>5, EntriesFacts
  <2>2. x \in FsPaths \X Segs /\ x[2] \in AllFiles
    BY PathsAreSeqs
  <2>3. Name(u.path) = x[2] /\ x = <<x[1], x[2]>>
    BY <2>1, <2>2, FilePathFacts
  <2>4. CASE v.kind = "entry"
    <3>1. v.path \in FsPaths
      BY <2>4, EntriesFacts, PathsAreSeqs
    <3>. QED BY <1>1, <1>2, <2>2, <2>3, <3>1, DirNotBelowFile
  <2>5. CASE v.kind = "file"
    <3>1. PICK y \in files : y[1] = p /\ v.path = FilePath(y)
      BY <2>5, EntriesFacts
    <3>2. y \in FsPaths \X AllFiles /\ y[2] \in AllFiles
      BY PathsAreSeqs
    <3>3. Final(x[2]) = Final(y[2])
      BY <1>1, <1>2, <2>2, <2>3, <3>1, <3>2, FileBelowFile
    <3>4. Norm[x[2]] = Norm[y[2]]
      BY <2>2, <3>2, <3>3, FinalFacts
    <3>5. x = y
      BY <2>1, <3>1, <3>4 DEF TreeOK
    <3>. QED BY <1>1, <1>5, <2>1, <2>5, <3>1, <3>5
  <2>. QED BY <1>1, <2>4, <2>5
<1>. QED BY <1>1, <1>3, <1>4, <1>5

\* What lies below a directory is the directory or lies below one of its entries.
LEMMA EntriesCover ==
    ASSUME FsOK, TreeOK, NEW p \in dirs
    PROVE  /\ \A d \in dirs : Under(Canon(p), Canon(d)) =>
                 d = p \/ \E e \in Entries(p) : Under(Canon(e.path), Canon(d))
           /\ \A x \in files : Under(Canon(p), Canon(FilePath(x))) =>
                 \E e \in Entries(p) : Under(Canon(e.path), Canon(FilePath(x)))
<1>. DEFINE E == Entries(p)
<1>1. p \in FsPaths /\ p \in Seq(Segs) /\ Len(p) \in Nat \ {0}
  BY PathsAreSeqs, FsPathIsSeq
<1>2. dirs \in SUBSET FsPaths /\ Closed(dirs) /\ Apart(dirs)
  BY DEF FsOK, TreeOK, Apart
<1>3. ASSUME NEW d \in dirs, Under(Canon(p), Canon(d)), d # p
      PROVE  \E e \in E : e.path \in Seq(Segs) /\ Under(e.path, d)
  <2>1. d \in Seq(Segs)
    BY PathsAreSeqs
  <2>2. Under(p, d)
    BY <1>2, <1>3, Through
  <2>. DEFINE r == SubSeq(d, 1, Len(p) + 1)
  <2>3. /\ Len(p) + 1 \in 1 .. Len(d) /\ r \in Seq(Segs) /\ Len(r) = Len(p) + 1
        /\ Parent(r) = p /\ Under(r, d)
    BY <1>1, <1>3, <2>1, <2>2, StepDown
  <2>4. r \in dirs
    BY <1>2, <2>3 DEF Closed
  <2>. HIDE DEF r
  <2>5. Len(r) > 1
    BY <1>1, <2>3
  <2>6. Task("entry", r) \in E
    BY <2>3, <2>4, <2>5 DEF Entries
  <2>7. Task("entry", r).path = r
    BY DEF Task
  <2>. QED BY <2>3, <2>6, <2>7
<1>. HIDE DEF E
<1>4. ASSUME NEW d \in dirs, Under(Canon(p), Canon(d)), d # p
      PROVE  \E e \in E : Under(Canon(e.path), Canon(d))
  <2>1. PICK e \in E : e.path \in Seq(Segs) /\ Under(e.path, d)
    BY <1>3, <1>4
  <2>2. d \in Seq(Segs)
    BY PathsAreSeqs
  <2>3. Under(Canon(e.path), Canon(d))
    BY <2>1, <2>2, CanonUnder
  <2>. QED BY <2>3
<1>5. ASSUME NEW x \in files, Under(Canon(p), Canon(FilePath(x)))
      PROVE  \E e \in E : Under(Canon(e.path), Canon(FilePath(x)))
  <2>1. /\ x \in FsPaths \X AllFiles /\ x \in FsPaths \X Segs /\ x[1] \in dirs
        /\ FilePath(x) \in Seq(Segs) /\ x[1] \in Seq(Segs)
    BY PathsAreSeqs
  <2>2. Under(Canon(p), Canon(x[1]))
    BY <1>1, <1>5, <2>1, FileBelowDir
  <2>3. Under(x[1], FilePath(x))
    BY <2>1, FilePathFacts
  <2>4. CASE x[1] = p
    <3>1. Task("file", FilePath(x)) \in E
      BY <2>4 DEF E, Entries, FilePath
    <3>2. Task("file", FilePath(x)).path = FilePath(x)
      BY DEF Task
    <3>3. Canon(FilePath(x)) \in Seq(Ends)
      BY <2>1, CanonIsSeq
    <3>4. Under(Canon(FilePath(x)), Canon(FilePath(x)))
      BY <3>3, UnderOrder
    <3>. QED BY <3>1, <3>2, <3>4
  <2>5. CASE x[1] # p
    <3>1. PICK e \in E : e.path \in Seq(Segs) /\ Under(e.path, x[1])
      BY <1>3, <2>1, <2>2, <2>5
    <3>2. Under(e.path, FilePath(x))
      BY <2>1, <2>3, <3>1, UnderOrder
    <3>3. Under(Canon(e.path), Canon(FilePath(x)))
      BY <2>1, <3>1, <3>2, CanonUnder
    <3>. QED BY <3>3
  <2>. QED BY <2>4, <2>5
<1>. QED BY <1>4, <1>5 DEF E

\* Opening a directory.
LEMMA OpenDirKeepsWalk ==
    ASSUME StartInv, TreeOK, Walking, NEW t \in todo, OpenDir(t), UNCHANGED touched
    PROVE  TreeOK' /\ Walking'
<1>. DEFINE p == t.path
            N == Entries(p)
<1>1. /\ t.kind \in {"bucket", "key"} /\ p \in dirs
      /\ todo' = (todo \ {t}) \cup N /\ seen' = seen \cup {p}
      /\ UNCHANGED <<dirs, files, rootFiles, found, faults, touched>>
  BY DEF OpenDir, fs
<1>2. FsOK /\ faults \in Nat
  BY FaultsAreNat DEF StartInv
<1>3. p \in FsPaths /\ p \in Seq(Segs) /\ Len(p) \in Nat \ {0} /\ Canon(p) \in Seq(Ends)
  BY <1>1, <1>2, PathsAreSeqs, FsPathIsSeq, CanonIsSeq
<1>4. \A e \in N : /\ e.kind \in {"entry", "file"}
                   /\ e.path \in Seq(Segs) /\ Len(e.path) = Len(p) + 1
                   /\ Under(p, e.path)
                   /\ e.kind = "entry" => e.path \in dirs
                   /\ e.kind = "file" => \E y \in files : y[1] = p /\ e.path = FilePath(y)
  BY <1>1, <1>2, EntriesFacts
<1>5. \A u, v \in N : u # v => ~Under(Canon(u.path), Canon(v.path))
  BY <1>1, <1>2, EntriesApart
<1>6. /\ \A d \in dirs : Under(Canon(p), Canon(d)) =>
            d = p \/ \E e \in N : Under(Canon(e.path), Canon(d))
      /\ \A x \in files : Under(Canon(p), Canon(FilePath(x))) =>
            \E e \in N : Under(Canon(e.path), Canon(FilePath(x)))
  BY <1>1, <1>2, EntriesCover
<1>. HIDE DEF p, N
<1>7. TreeOK' /\ Whole'
  BY <1>1, SameFiles DEF Walking
<1>8. ASSUME NEW e \in N, e.kind = "file"
      PROVE  Name(e.path) \in AllFiles /\ Parent(e.path) \in FsPaths /\ IsFile(e.path)
  <2>1. PICK y \in files : y[1] = p /\ e.path = FilePath(y)
    BY <1>4, <1>8
  <2>2. y \in FsPaths \X Segs /\ y[2] \in AllFiles /\ y[1] \in FsPaths
    BY <1>2, PathsAreSeqs
  <2>3. Name(e.path) = y[2] /\ Parent(e.path) = y[1] /\ y = <<y[1], y[2]>>
    BY <2>1, <2>2, FilePathFacts
  <2>. QED BY <2>2, <2>3 DEF IsFile
<1>9. TasksOK'
  <2>1. ASSUME NEW e \in N
        PROVE  /\ e.kind \in {"entry", "file"}
               /\ e.path \in Seq(Segs) /\ Len(e.path) # 0 /\ Len(e.path) # 1
               /\ e.kind = "entry" => e.path \in FsPaths
               /\ e.kind = "file" => Name(e.path) \in AllFiles /\ Parent(e.path) \in FsPaths
    <3>1. Len(e.path) # 0 /\ Len(e.path) # 1
      BY <1>3, <1>4
    <3>2. e.kind = "entry" => e.path \in FsPaths
      BY <1>2, <1>4, PathsAreSeqs
    <3>. QED BY <1>4, <1>8, <3>1, <3>2
  <2>. QED BY <1>1, <2>1 DEF Walking, TasksOK
<1>10. IndexOK'
  BY <1>1, <1>3 DEF Walking, IndexOK
<1>11. There'
  <2>1. /\ \A q \in seen' : (q \in dirs \/ Touched(q))'
        /\ \A x \in found' : (x \in files \/ Touched(FilePath(x)))'
    BY <1>1, SameFiles DEF Walking, There
  <2>2. \A s \in todo' :
          /\ s.kind = "entry" => (s.path \in dirs \/ Touched(s.path))'
          /\ s.kind \in {"file", "sync"} => (IsFile(s.path) \/ Touched(s.path))'
    BY <1>1, <1>4, <1>8, SameFiles DEF Walking, There
  <2>. QED BY <2>1, <2>2 DEF There
<1>12. Ahead'
  <2>1. todo' \subseteq (todo \ {t}) \cup N
    BY <1>1
  <2>2. \A q \in Done' : q \in Done \/ q = t.path
    BY <1>1 DEF Done, p
  <2>3. \A u \in N : u.path \in Seq(Segs) /\ Under(Canon(t.path), Canon(u.path))
    BY <1>3, <1>4, CanonUnder DEF p
  <2>4. \A u \in N : ~Under(Canon(u.path), Canon(t.path))
    <3>. SUFFICES ASSUME NEW u \in N, Under(Canon(u.path), Canon(p)) PROVE FALSE
      BY DEF p
    <3>1. u.path \in Seq(Segs) /\ Len(u.path) = Len(p) + 1
      BY <1>4
    <3>2. Len(u.path) <= Len(p)
      BY <1>3, <3>1, CanonUnder
    <3>. QED BY <1>3, <3>1, <3>2
  <2>. QED BY <1>5, <2>1, <2>2, <2>3, <2>4, AheadKept DEF Walking
<1>13. Covered'
  <2>1. ASSUME NEW q, \E e \in N : Under(Canon(e.path), Canon(q)) PROVE Coming(q)'
    BY <1>1, <2>1 DEF Coming, Due
  <2>2. \A d \in dirs : Under(Canon(t.path), Canon(d)) => d \in seen' \/ Coming(d)'
    BY <1>1, <1>6, <2>1 DEF p
  <2>3. \A x \in files : Under(Canon(t.path), Canon(FilePath(x))) =>
           x \in found' \/ Coming(FilePath(x))'
    BY <1>6, <2>1 DEF p
  <2>. QED BY <1>1, <1>2, <2>2, <2>3, CoveredKept DEF Walking
<1>. QED BY <1>7, <1>9, <1>10, <1>11, <1>12, <1>13 DEF Walking

\* Renaming a directory.
LEMMA NormaliseDirKeepsWalk ==
    ASSUME StartInv, TreeOK, Walking, NEW t \in todo, NormaliseDir(t), UNCHANGED touched
    PROVE  TreeOK' /\ Walking'
<1>. DEFINE u == Task("key", NormalNew(t.path))
<1>1. /\ t.kind = "entry" /\ t.path \in dirs
      /\ MoveDir(t.path, NormalNew(t.path))
      /\ todo' = (todo \ {t}) \cup {u}
      /\ UNCHANGED <<seen, found, faults, touched>>
  BY DEF NormaliseDir, index
<1>2. FsOK /\ faults \in Nat
  BY FaultsAreNat DEF StartInv
<1>3. u.kind = "key" /\ u.path = NormalNew(t.path)
  BY DEF Task
<1>4. t.path \in FsPaths
  BY <1>1, <1>2, PathsAreSeqs
<1>5. /\ u.path \in FsPaths /\ Len(u.path) = Len(t.path)
      /\ Canon(u.path) = Canon(t.path)
  BY <1>3, <1>4, NormalIsPath, NormalNewFacts
<1>. HIDE DEF u
<1>6. TreeOK'
  BY <1>1, <1>2, <1>4, MoveKeepsTree
<1>7. Whole' /\ There' /\ Ahead' /\ Covered'
  BY <1>1, <1>2, <1>3, <1>4, <1>5, MoveKeepsWalk
<1>8. u.path \in Seq(Segs) /\ Len(u.path) # 0 /\ Len(u.path) # 1
  <2>1. Len(t.path) # 1
    BY <1>1 DEF Walking, TasksOK
  <2>. QED BY <1>5, <2>1, FsPathIsSeq
<1>9. TasksOK' /\ IndexOK'
  BY <1>1, <1>3, <1>5, <1>8 DEF Walking, TasksOK, IndexOK
<1>. QED BY <1>6, <1>7, <1>9 DEF Walking

\* Renaming a file.
LEMMA NormaliseFileKeepsWalk ==
    ASSUME StartInv, TreeOK, Walking, NEW t \in todo, NormaliseFile(t), UNCHANGED touched
    PROVE  TreeOK' /\ Walking'
<1>. DEFINE p == t.path
            n == Name(p)
            x == <<Parent(p), n>>
            y == <<Parent(p), Norm[n]>>
            u == Task("sync", Normal(p))
<1>1. /\ t.kind = "file" /\ x \in files
      /\ files' = (files \ {x}) \cup {y}
      /\ todo' = (todo \ {t}) \cup {u}
      /\ UNCHANGED <<dirs, rootFiles, seen, found, faults, touched>>
  BY DEF NormaliseFile, IsFile, index
<1>2. FsOK /\ faults \in Nat
  BY FaultsAreNat DEF StartInv
<1>3. p \in Seq(Segs) /\ Len(p) # 0 /\ Parent(p) \in FsPaths
  BY <1>1 DEF Walking, TasksOK
<1>4. n \in AllFiles /\ x \in FsPaths \X Segs /\ Parent(p) \in dirs
  BY <1>1, <1>2, PathsAreSeqs
<1>5. /\ Norm[n] \in AllFiles /\ Norm[n] \in Segs /\ Final(Norm[n]) = Final(n)
      /\ Norm[Norm[n]] = Norm[n]
  BY <1>4, FinalFacts DEF Segs
<1>6. y \in FsPaths \X Segs
  BY <1>3, <1>5
<1>7. u.kind = "sync" /\ u.path = FilePath(y)
  BY DEF Task, Normal, FilePath
<1>8. /\ FilePath(x) = p /\ FilePath(x) \in Seq(Segs)
      /\ FilePath(y) \in Seq(Segs) /\ Len(FilePath(y)) = Len(Parent(p)) + 1
      /\ Len(Parent(p)) \in Nat \ {0}
      /\ Parent(FilePath(y)) = Parent(p) /\ Name(FilePath(y)) = Norm[n]
  BY <1>2, <1>3, <1>4, <1>6, FilePathFacts, IsFileFacts
<1>9. Canon(FilePath(y)) = Canon(p)
  BY <1>4, <1>5, <1>6, <1>8, CanonFilePath
<1>10. Canon(p) \in Seq(Ends)
  BY <1>3, CanonIsSeq
<1>11. y[1] = Parent(p) /\ y[2] = Norm[n] /\ x[1] = Parent(p) /\ x[2] = n
  OBVIOUS
<1>. HIDE DEF p, n, x, y, u
<1>12. TreeOK'
  <2>1. ASSUME NEW a \in files', NEW b \in files', a[1] = b[1], Norm[a[2]] = Norm[b[2]]
        PROVE  a = b
    <3>1. CASE a \in files /\ a # x /\ b \in files /\ b # x
      BY <2>1, <3>1 DEF TreeOK
    <3>2. CASE a = y /\ b \in files /\ b # x
      <4>1. b[1] = x[1] /\ Norm[b[2]] = Norm[x[2]]
        BY <1>5, <1>11, <2>1, <3>2
      <4>. QED BY <1>1, <3>2, <4>1 DEF TreeOK
    <3>3. CASE b = y /\ a \in files /\ a # x
      <4>1. a[1] = x[1] /\ Norm[a[2]] = Norm[x[2]]
        BY <1>5, <1>11, <2>1, <3>3
      <4>. QED BY <1>1, <3>3, <4>1 DEF TreeOK
    <3>. QED BY <1>1, <3>1, <3>2, <3>3
  <2>. QED BY <1>1, <2>1 DEF TreeOK, Closed, Apart, RootPaths
<1>13. TasksOK' /\ IndexOK'
  <2>1. Len(u.path) # 0 /\ Len(u.path) # 1 /\ u.path \in Seq(Segs) /\ Parent(u.path) \in FsPaths
    BY <1>3, <1>7, <1>8
  <2>. QED BY <1>1, <1>7, <2>1 DEF Walking, TasksOK, IndexOK
<1>14. \A a \in files' : \E b \in files :
          Canon(FilePath(a)) = Canon(FilePath(b)) /\ (a = b \/ b = x)
  BY <1>1, <1>8, <1>9
<1>15. Whole'
  <2>. SUFFICES ASSUME NEW d \in Present', NEW c \in touched, Under(c, Canon(d))
                PROVE  Canon(d) \in touched
    BY <1>1 DEF Whole, Touched
  <2>1. PICK e \in Present : Canon(e) = Canon(d)
    BY <1>1, <1>14 DEF Present
  <2>. QED BY <2>1 DEF Walking, Whole, Touched
<1>16. There'
  <2>1. ASSUME NEW z \in found PROVE (z \in files \/ Touched(FilePath(z)))'
    <3>1. FilePath(z) \in Done
      BY DEF Done
    <3>2. ~Under(Canon(p), Canon(FilePath(z)))
      BY <3>1 DEF Walking, Ahead, p
    <3>3. z # x
      BY <1>8, <1>10, <3>2, UnderOrder
    <3>. QED BY <1>1, <3>3 DEF Walking, There, Touched
  <2>2. ASSUME NEW s \in todo, s # t, s.kind \in {"file", "sync"}
        PROVE  (IsFile(s.path) \/ Touched(s.path))'
    <3>1. ~Under(Canon(p), Canon(s.path)) /\ s.path \in Seq(Segs) /\ Len(s.path) # 0
      BY <2>2 DEF Walking, TasksOK, Ahead, p
    <3>2. s.path # p
      BY <1>10, <3>1, UnderOrder
    <3>3. CASE IsFile(s.path)
      <4>1. PICK z \in files : FilePath(z) = s.path /\ z = <<Parent(s.path), Name(s.path)>>
        BY <1>2, <3>1, <3>3, IsFileFacts
      <4>2. z # x
        BY <1>8, <3>2, <4>1
      <4>. QED BY <1>1, <4>1, <4>2 DEF IsFile
    <3>4. CASE ~IsFile(s.path)
      BY <1>1, <2>2, <3>4 DEF Walking, There, Touched
    <3>. QED BY <3>3, <3>4
  <2>3. (IsFile(u.path))'
    BY <1>1, <1>7, <1>8 DEF IsFile, y
  <2>4. /\ \A q \in seen' : (q \in dirs \/ Touched(q))'
        /\ \A s \in todo' : s.kind = "entry" => (s.path \in dirs \/ Touched(s.path))'
    BY <1>1, <1>7 DEF Walking, There, Touched
  <2>5. \A s \in todo' : s.kind \in {"file", "sync"} => (IsFile(s.path) \/ Touched(s.path))'
    BY <1>1, <2>2, <2>3
  <2>. QED BY <1>1, <2>1, <2>4, <2>5 DEF There
<1>17. Under(Canon(p), Canon(u.path))
  BY <1>7, <1>9, <1>10, UnderOrder
<1>18. Ahead'
  <2>. DEFINE N == {u}
  <2>1. todo' \subseteq (todo \ {t}) \cup N /\ Done' = Done
    BY <1>1 DEF Done
  <2>2. /\ \A v \in N : v.path \in Seq(Segs) /\ Under(Canon(t.path), Canon(v.path))
        /\ \A v, w \in N : v # w => ~Under(Canon(v.path), Canon(w.path))
    BY <1>7, <1>8, <1>17 DEF p
  <2>. HIDE DEF N
  <2>. QED BY <2>1, <2>2, AheadKept DEF Walking
<1>19. ASSUME NEW q, Coming(q) PROVE Coming(q)'
  <2>1. CASE Due(q)
    <3>1. PICK s \in todo : Under(Canon(s.path), Canon(q))
      BY <2>1 DEF Due
    <3>2. CASE s = t
      <4>1. u \in todo' /\ Under(Canon(u.path), Canon(q))
        BY <1>1, <1>7, <1>9, <3>1, <3>2 DEF p
      <4>. QED BY <4>1 DEF Coming, Due
    <3>3. CASE s # t
      BY <1>1, <3>1, <3>3 DEF Coming, Due
    <3>. QED BY <3>2, <3>3
  <2>2. CASE Touched(q) \/ Held(q)
    BY <1>1, <2>2 DEF Coming, Touched, Held
  <2>. QED BY <1>19, <2>1, <2>2 DEF Coming
<1>20. Covered'
  <2>1. Coming(FilePath(y))'
    <3>1. u \in todo' /\ Under(Canon(u.path), Canon(FilePath(y)))
      BY <1>1, <1>7, <1>9, <1>10, UnderOrder
    <3>. QED BY <3>1 DEF Coming, Due
  <2>2. \A z \in files' : z \in found' \/ Coming(FilePath(z))'
    BY <1>1, <1>19, <2>1 DEF Walking, Covered
  <2>3. \A d \in dirs' : d \in seen' \/ Coming(d)'
    BY <1>1, <1>19 DEF Walking, Covered
  <2>. QED BY <2>2, <2>3 DEF Covered
<1>. QED BY <1>12, <1>13, <1>15, <1>16, <1>18, <1>20 DEF Walking

\* Passing over what is gone: users have touched it, and whatever was below.
LEMMA NormaliseGoneKeepsWalk ==
    ASSUME StartInv, TreeOK, Walking, NEW t \in todo, NormaliseGone(t), UNCHANGED touched
    PROVE  TreeOK' /\ Walking'
<1>. DEFINE p == t.path
            N == {Task("sync", q) : q \in {r \in {p} : Norm[Name(r)] = Name(r)}}
<1>1. /\ t.kind \in {"entry", "file"} /\ p \notin dirs /\ ~IsFile(p)
      /\ todo' = (todo \ {t}) \cup N
      /\ UNCHANGED <<dirs, files, rootFiles, seen, found, faults, touched>>
  BY DEF NormaliseGone, fs, index
<1>2. FsOK /\ faults \in Nat
  BY FaultsAreNat DEF StartInv
<1>3. p \in Seq(Segs) /\ Len(p) # 0 /\ Len(p) # 1 /\ Canon(p) \in Seq(Ends)
  BY <1>1, CanonIsSeq DEF Walking, TasksOK
<1>4. Touched(p)
  BY <1>1 DEF Walking, There
<1>5. \A u \in N : u.kind = "sync" /\ u.path = p
  BY DEF Task
<1>6. \A u, v \in N : u = v
  BY DEF Task
<1>7. Parent(p) \in FsPaths
  <2>1. CASE t.kind = "entry"
    <3>1. p \in FsPaths
      BY <2>1 DEF Walking, TasksOK
    <3>2. p \in Seq(DirNames) /\ Len(p) \in 1 .. MaxDepth
      BY <3>1, PathIsSeq
    <3>3. Parent(p) \in Seq(DirNames) /\ Len(Parent(p)) = Len(p) - 1
      BY <1>3, <3>2, SplitPath
    <3>4. Len(Parent(p)) \in 1 .. MaxDepth
      <4>. DEFINE k == Len(p)
                  m == Len(Parent(p))
      <4>1. k \in 1 .. MaxDepth /\ k # 1 /\ m = k - 1
        BY <1>3, <3>2, <3>3
      <4>. HIDE DEF k, m
      <4>2. m \in 1 .. MaxDepth
        BY <4>1, DepthAssumption
      <4>. QED BY <4>2 DEF m
    <3>. QED BY <3>3, <3>4, PathIsSeq
  <2>2. CASE t.kind = "file"
    BY <2>2 DEF Walking, TasksOK
  <2>. QED BY <1>1, <2>1, <2>2
<1>. HIDE DEF p, N
<1>8. TreeOK' /\ Whole'
  BY <1>1, SameFiles DEF Walking
<1>9. TasksOK' /\ IndexOK'
  BY <1>1, <1>3, <1>5, <1>7 DEF Walking, TasksOK, IndexOK
<1>10. There'
  <2>1. \A q : (Touched(q)' <=> Touched(q)) /\ (IsFile(q)' <=> IsFile(q))
    BY <1>1, SameFiles
  <2>2. \A s \in todo' : /\ s.kind = "entry" => (s.path \in dirs \/ Touched(s.path))'
                         /\ s.kind \in {"file", "sync"} => (IsFile(s.path) \/ Touched(s.path))'
    BY <1>1, <1>4, <1>5, <2>1 DEF Walking, There
  <2>. QED BY <1>1, <2>1, <2>2 DEF Walking, There
<1>11. Ahead'
  <2>1. todo' \subseteq (todo \ {t}) \cup N /\ Done' = Done
    BY <1>1 DEF Done
  <2>2. Under(Canon(p), Canon(p))
    BY <1>3, UnderOrder
  <2>3. /\ \A v \in N : v.path \in Seq(Segs) /\ Under(Canon(t.path), Canon(v.path))
        /\ \A v, w \in N : v # w => ~Under(Canon(v.path), Canon(w.path))
    BY <1>3, <1>5, <1>6, <2>2 DEF p
  <2>. QED BY <2>1, <2>3, AheadKept DEF Walking
<1>12. ASSUME NEW q \in Present, Under(Canon(p), Canon(q)) PROVE Coming(q)'
  <2>1. Touched(q)
    BY <1>4, <1>12 DEF Walking, Whole, Touched
  <2>. QED BY <1>1, <2>1 DEF Coming, Touched
<1>13. Covered'
  <2>1. \A d \in dirs : Under(Canon(t.path), Canon(d)) => d \in seen' \/ Coming(d)'
    BY <1>12 DEF Present, p
  <2>2. \A x \in files : Under(Canon(t.path), Canon(FilePath(x))) =>
           x \in found' \/ Coming(FilePath(x))'
    BY <1>12 DEF Present, p
  <2>. QED BY <1>1, <1>2, <2>1, <2>2, CoveredKept DEF Walking
<1>. QED BY <1>8, <1>9, <1>10, <1>11, <1>13 DEF Walking

\* What lies below a path whose last name could not be changed.
LEMMA BelowUnchanged ==
    ASSUME NEW p \in Seq(Segs), Len(p) # 0, Len(p) # 1, Norm[Name(p)] # Name(p),
           ~Renamable(p) \/ faults' > 0,
           NEW q \in Seq(Segs), Under(p, q)
    PROVE  Held(q)'
<1>. DEFINE k == Len(p)
<1>1. Len(p) <= Len(q) /\ \A i \in 1 .. Len(p) : p[i] = q[i]
  BY UnderIs
<1>2. k \in 2 .. Len(q) /\ k \in 1 .. Len(q) /\ k \in 1 .. Len(p) /\ DOMAIN q = 1 .. Len(q)
  <2>. DEFINE m == Len(q)
  <2>1. k \in Nat /\ k # 0 /\ k # 1 /\ m \in Nat /\ k <= m /\ k = Len(p) /\ DOMAIN q = 1 .. m
    BY <1>1
  <2>. HIDE DEF k, m
  <2>2. k \in 2 .. m /\ k \in 1 .. m /\ k \in 1 .. k
    BY <2>1
  <2>. QED BY <2>1, <2>2 DEF m
<1>3. q[k] = Name(p)
  BY <1>1, <1>2 DEF Name
<1>. HIDE DEF k
<1>4. Name(p) \notin Names \cup FileNames
  BY NormAssumption
<1>5. ~Allowed(q)
  BY <1>2, <1>3, <1>4 DEF Allowed
<1>6. CASE faults' > 0
  BY <1>5, <1>6 DEF Held, Allowed
<1>7. CASE ~Renamable(p)
  BY <1>2, <1>3, <1>7 DEF Held, Renamable
<1>. QED BY <1>6, <1>7

\* What is left of a directory or a file that could not be renamed.
LEMMA LeftUnchanged ==
    ASSUME FsOK, TreeOK, Walking, NEW t \in todo, NormaliseFails(t), UNCHANGED touched,
           \A q \in Seq(Segs) : Under(t.path, q) => Held(q)'
    PROVE  \A q \in Present : Under(Canon(t.path), Canon(q)) => Coming(q)'
<1>. DEFINE p == t.path
<1>1. t.kind \in {"entry", "file"} /\ UNCHANGED <<dirs, files, touched>>
  BY DEF NormaliseFails, fs
<1>2. p \in Seq(Segs) /\ Len(p) # 0
  BY DEF Walking, TasksOK
<1>3. \A q \in Seq(Segs) : Under(p, q) => Held(q)'
  OBVIOUS
<1>4. CASE Touched(p)
  <2>1. ASSUME NEW q \in Present, Under(Canon(p), Canon(q)) PROVE Coming(q)'
    <3>1. Touched(q)
      BY <1>4, <2>1 DEF Walking, Whole, Touched
    <3>. QED BY <1>1, <3>1 DEF Coming, Touched
  <2>. QED BY <2>1
<1>5. CASE t.kind = "entry" /\ p \in dirs
  <2>1. dirs \in SUBSET FsPaths /\ Closed(dirs) /\ Apart(dirs)
    BY DEF FsOK, TreeOK, Apart
  <2>2. ASSUME NEW d \in dirs, Under(Canon(p), Canon(d)) PROVE Under(p, d)
    BY <1>5, <2>1, <2>2, Through
  <2>3. ASSUME NEW d \in dirs, Under(Canon(p), Canon(d)) PROVE Coming(d)'
    BY <1>3, <2>2, <2>3, PathsAreSeqs DEF Coming
  <2>4. ASSUME NEW x \in files, Under(Canon(p), Canon(FilePath(x))) PROVE Coming(FilePath(x))'
    <3>1. /\ x \in FsPaths \X AllFiles /\ x \in FsPaths \X Segs /\ x[1] \in dirs
          /\ FilePath(x) \in Seq(Segs) /\ x[1] \in Seq(Segs) /\ p \in FsPaths
      BY <1>5, PathsAreSeqs
    <3>2. Under(Canon(p), Canon(x[1]))
      BY <2>4, <3>1, FileBelowDir
    <3>3. Under(p, x[1]) /\ Under(x[1], FilePath(x))
      BY <2>2, <3>1, <3>2, FilePathFacts
    <3>4. Under(p, FilePath(x))
      BY <1>2, <3>1, <3>3, UnderOrder
    <3>. QED BY <1>3, <3>1, <3>4 DEF Coming
  <2>. QED BY <2>3, <2>4 DEF Present
<1>6. CASE t.kind = "file" /\ IsFile(p)
  <2>1. PICK z \in files : FilePath(z) = p /\ z = <<Parent(p), Name(p)>>
    BY <1>2, <1>6, IsFileFacts
  <2>2. Name(p) \in AllFiles /\ z[1] = Parent(p) /\ z[2] = Name(p) /\ z[1] \in dirs
    BY <2>1, PathsAreSeqs
  <2>3. ASSUME NEW d \in dirs, Under(Canon(p), Canon(d)) PROVE FALSE
    <3>1. d \in FsPaths
      BY PathsAreSeqs
    <3>. QED BY <1>2, <2>2, <2>3, <3>1, DirNotBelowFile
  <2>4. ASSUME NEW x \in files, Under(Canon(p), Canon(FilePath(x))) PROVE Coming(FilePath(x))'
    <3>1. x \in FsPaths \X AllFiles /\ x[1] \in dirs /\ x[2] \in AllFiles
      BY PathsAreSeqs
    <3>2. Canon(Parent(p)) = Canon(x[1]) /\ Final(Name(p)) = Final(x[2])
      BY <1>2, <2>2, <2>4, <3>1, FileBelowFile
    <3>3. x[1] = z[1]
      BY <2>2, <3>1, <3>2 DEF TreeOK, Apart
    <3>4. Norm[x[2]] = Norm[z[2]]
      BY <2>2, <3>1, <3>2, FinalFacts
    <3>5. x = z
      BY <3>3, <3>4 DEF TreeOK
    <3>6. Under(p, p)
      BY <1>2, UnderOrder
    <3>. QED BY <1>2, <1>3, <2>1, <3>5, <3>6 DEF Coming
  <2>. QED BY <2>3, <2>4 DEF Present
<1>7. Touched(p) \/ (t.kind = "entry" /\ p \in dirs) \/ (t.kind = "file" /\ IsFile(p))
  BY <1>1 DEF Walking, There
<1>. QED BY <1>4, <1>5, <1>6, <1>7

\* Passing over what could not be renamed.
LEMMA NormaliseFailsKeepsWalk ==
    ASSUME StartInv, TreeOK, Walking, NEW t \in todo, NormaliseFails(t), UNCHANGED touched
    PROVE  TreeOK' /\ Walking'
<1>. DEFINE p == t.path
<1>1. /\ t.kind \in {"entry", "file"} /\ Norm[Name(p)] # Name(p)
      /\ (~Renamable(p) /\ faults' = faults) \/ faults' = faults + 1
      /\ todo' = todo \ {t}
      /\ UNCHANGED <<dirs, files, rootFiles, seen, found, touched>>
  BY DEF NormaliseFails, fs, index
<1>2. FsOK /\ faults \in Nat
  BY FaultsAreNat DEF StartInv
<1>3. p \in Seq(Segs) /\ Len(p) # 0 /\ Len(p) # 1 /\ Canon(p) \in Seq(Ends)
  BY <1>1, CanonIsSeq DEF Walking, TasksOK
<1>4. ~Renamable(p) \/ faults' > 0
  BY <1>1, <1>2
<1>5. \A q \in Seq(Segs) : Under(p, q) => Held(q)'
  BY <1>1, <1>3, <1>4, BelowUnchanged
<1>6. \A q \in Present : Under(Canon(p), Canon(q)) => Coming(q)'
  BY <1>2, <1>5, LeftUnchanged
<1>. HIDE DEF p
<1>7. TreeOK' /\ Whole'
  BY <1>1, SameFiles DEF Walking
<1>8. TasksOK' /\ IndexOK'
  BY <1>1 DEF Walking, TasksOK, IndexOK
<1>9. There'
  <2>1. \A q : (Touched(q)' <=> Touched(q)) /\ (IsFile(q)' <=> IsFile(q))
    BY <1>1, SameFiles
  <2>. QED BY <1>1, <2>1 DEF Walking, There
<1>10. Ahead'
  BY <1>1 DEF Walking, Ahead, Done
<1>11. Covered'
  <2>1. \A d \in dirs : Under(Canon(t.path), Canon(d)) => d \in seen' \/ Coming(d)'
    BY <1>6 DEF Present, p
  <2>2. \A x \in files : Under(Canon(t.path), Canon(FilePath(x))) =>
           x \in found' \/ Coming(FilePath(x))'
    BY <1>6 DEF Present, p
  <2>3. todo \ {t} \subseteq todo' /\ (faults' = faults \/ faults' = faults + 1)
    BY <1>1
  <2>. QED BY <1>1, <1>2, <2>1, <2>2, <2>3, CoveredKept DEF Walking
<1>. QED BY <1>7, <1>8, <1>9, <1>10, <1>11 DEF Walking

\* Looking a file up: nothing else comes to lie where it does.
LEMMA SyncKeepsWalk ==
    ASSUME StartInv, TreeOK, Walking, NEW t \in todo,
           SyncObject(t) \/ SyncObjectFails(t), UNCHANGED touched
    PROVE  TreeOK' /\ Walking'
<1>. DEFINE p == t.path
            x == <<Parent(p), Name(p)>>
<1>1. /\ t.kind = "sync" /\ todo' = todo \ {t} /\ found' = found \cup {x}
      /\ faults' = faults \/ faults' = faults + 1
      /\ UNCHANGED <<dirs, files, rootFiles, seen, touched>>
  BY DEF SyncObject, SyncObjectFails, ReadyToSync, fs
<1>2. FsOK /\ faults \in Nat
  BY FaultsAreNat DEF StartInv
<1>3. /\ p \in Seq(Segs) /\ Len(p) # 0 /\ Len(p) # 1 /\ Canon(p) \in Seq(Ends)
      /\ Parent(p) \in FsPaths
  BY <1>1, CanonIsSeq DEF Walking, TasksOK
<1>4. x \in FsPaths \X Segs /\ FilePath(x) = p
  BY <1>2, <1>3, SplitPath, IsFileFacts
<1>5. IsFile(p) \/ Touched(p)
  BY <1>1 DEF Walking, There
<1>6. x[1] = Parent(p) /\ x[2] = Name(p)
  OBVIOUS
<1>7. IsFile(p) <=> x \in files
  BY DEF IsFile
<1>. HIDE DEF p, x
<1>8. TreeOK' /\ Whole'
  BY <1>1, SameFiles DEF Walking
<1>9. TasksOK' /\ IndexOK'
  BY <1>1, <1>4 DEF Walking, TasksOK, IndexOK
<1>10. There'
  <2>1. \A q : (Touched(q)' <=> Touched(q)) /\ (IsFile(q)' <=> IsFile(q))
    BY <1>1, SameFiles
  <2>2. \A z \in found' : (z \in files \/ Touched(FilePath(z)))'
    BY <1>1, <1>4, <1>5, <1>7, <2>1 DEF Walking, There
  <2>. QED BY <1>1, <2>1, <2>2 DEF Walking, There
<1>11. Ahead'
  <2>. DEFINE N == {}
  <2>1. todo' \subseteq (todo \ {t}) \cup N
    BY <1>1
  <2>2. \A q \in Done' : q \in Done \/ q = t.path
    BY <1>1, <1>4 DEF Done, p
  <2>3. \A u \in N : FALSE
    OBVIOUS
  <2>. HIDE DEF N
  <2>. QED BY <2>1, <2>2, <2>3, AheadKept DEF Walking
<1>12. \A d \in dirs : Under(Canon(p), Canon(d)) => Coming(d)'
  <2>. SUFFICES ASSUME NEW d \in dirs, Under(Canon(p), Canon(d)) PROVE Coming(d)'
    OBVIOUS
  <2>1. CASE Touched(p)
    <3>1. Touched(d)
      BY <2>1 DEF Walking, Whole, Touched, Present
    <3>. QED BY <1>1, <3>1 DEF Coming, Touched
  <2>2. CASE IsFile(p)
    <3>1. Name(p) \in AllFiles /\ d \in FsPaths
      BY <1>2, <1>6, <1>7, <2>2, PathsAreSeqs
    <3>. QED BY <1>3, <3>1, DirNotBelowFile
  <2>. QED BY <1>5, <2>1, <2>2
<1>13. \A z \in files : Under(Canon(p), Canon(FilePath(z))) => z \in found' \/ Coming(FilePath(z))'
  <2>. SUFFICES ASSUME NEW z \in files, Under(Canon(p), Canon(FilePath(z)))
                PROVE  z \in found' \/ Coming(FilePath(z))'
    OBVIOUS
  <2>1. CASE Touched(p)
    <3>1. Touched(FilePath(z))
      BY <2>1 DEF Walking, Whole, Touched, Present
    <3>. QED BY <1>1, <3>1 DEF Coming, Touched
  <2>2. CASE IsFile(p)
    <3>1. Name(p) \in AllFiles /\ x \in files /\ Parent(p) \in dirs
      BY <1>2, <1>6, <1>7, <2>2, PathsAreSeqs
    <3>2. z \in FsPaths \X AllFiles /\ z[1] \in dirs /\ z[2] \in AllFiles
      BY <1>2, PathsAreSeqs
    <3>3. Canon(Parent(p)) = Canon(z[1]) /\ Final(Name(p)) = Final(z[2])
      BY <1>3, <3>1, <3>2, FileBelowFile
    <3>4. z[1] = x[1]
      BY <1>6, <3>1, <3>2, <3>3 DEF TreeOK, Apart
    <3>5. Norm[z[2]] = Norm[x[2]]
      BY <1>6, <3>1, <3>2, <3>3, FinalFacts
    <3>6. z = x
      BY <3>1, <3>4, <3>5 DEF TreeOK
    <3>. QED BY <1>1, <3>6
  <2>. QED BY <1>5, <2>1, <2>2
<1>14. Covered'
  <2>1. /\ \A d \in dirs : Under(Canon(t.path), Canon(d)) => d \in seen' \/ Coming(d)'
        /\ \A z \in files : Under(Canon(t.path), Canon(FilePath(z))) =>
              z \in found' \/ Coming(FilePath(z))'
    BY <1>12, <1>13 DEF p
  <2>2. /\ todo \ {t} \subseteq todo' /\ seen \subseteq seen' /\ found \subseteq found'
        /\ UNCHANGED <<dirs, files, touched>>
    BY <1>1
  <2>. QED BY <1>1, <1>2, <2>1, <2>2, CoveredKept DEF Walking
<1>. QED BY <1>8, <1>9, <1>10, <1>11, <1>14 DEF Walking

-----------------------------------------------------------------------------
\* The directories with the files in the root are a tree like them.
LEMMA RootsFacts ==
    ASSUME FsOK, Closed(dirs)
    PROVE  /\ dirs \cup RootPaths \in SUBSET FsPaths
           /\ Closed(dirs \cup RootPaths)
<1>1. \A d \in RootPaths : d \in FsPaths /\ \A k \in 1 .. Len(d) : SubSeq(d, 1, k) = d
  <2>. SUFFICES ASSUME NEW n \in rootFiles
                PROVE  <<n>> \in FsPaths /\ \A k \in 1 .. Len(<<n>>) : SubSeq(<<n>>, 1, k) = <<n>>
    BY DEF RootPaths
  <2>. DEFINE d == <<n>>
  <2>1. d \in FsPaths /\ Len(d) = 1
    BY RootIsPath DEF FsOK
  <2>. HIDE DEF d
  <2>2. d \in Seq(Segs)
    BY <2>1, FsPathIsSeq
  <2>3. SubSeq(d, 1, 1) = d
    BY <2>1, <2>2
  <2>. QED BY <2>1, <2>3 DEF d
<1>2. dirs \cup RootPaths \in SUBSET FsPaths
  BY <1>1 DEF FsOK
<1>3. Closed(dirs \cup RootPaths)
  BY <1>1 DEF Closed
<1>. QED BY <1>2, <1>3

\* Names that users choose keep paths apart.
LEMMA FreeKeepsApart ==
    FsOK /\ Closed(dirs) /\ Free(dirs, files, rootFiles) =>
        /\ Apart(dirs \cup RootPaths)
        /\ \A x, y \in files : x[1] = y[1] /\ Norm[x[2]] = Norm[y[2]] => x = y
<1>. SUFFICES ASSUME FsOK, Closed(dirs), Free(dirs, files, rootFiles)
              PROVE  /\ Apart(dirs \cup RootPaths)
                     /\ \A x, y \in files :
                           x[1] = y[1] /\ Norm[x[2]] = Norm[y[2]] => x = y
  OBVIOUS
<1>1. Distinct(dirs \cup RootPaths, files)
  BY DEF Free, RootPaths
<1>2. dirs \cup RootPaths \in SUBSET FsPaths /\ Closed(dirs \cup RootPaths)
  BY RootsFacts
<1>. DEFINE D == dirs \cup RootPaths
<1>. HIDE DEF D
<1>3. Apart(D)
  BY <1>1, <1>2, ApartFromDistinct DEF D
<1>4. \A x, y \in files : x[1] = y[1] /\ Norm[x[2]] = Norm[y[2]] => x = y
  BY <1>1 DEF Distinct
<1>. QED BY <1>3, <1>4 DEF D

\* Nothing comes to lie where a file in the root does.
RootFilesAlone == \A n \in rootFiles, d \in dirs : ~Under(Canon(<<n>>), Canon(d))

LEMMA RootFileAlone == FsOK /\ TreeOK => RootFilesAlone
<1>. SUFFICES ASSUME FsOK, TreeOK, NEW n \in rootFiles, NEW d \in dirs
              PROVE  ~Under(Canon(<<n>>), Canon(d))
  BY DEF RootFilesAlone
<1>. DEFINE D == dirs \cup RootPaths
            r == <<n>>
<1>1. D \in SUBSET FsPaths /\ Closed(D) /\ Apart(D)
  BY RootsFacts DEF TreeOK
<1>2. r \in RootPaths /\ r \in D /\ d \in D /\ Len(r) = 1
  BY DEF RootPaths
<1>. HIDE DEF D, r
<1>3. ASSUME Under(Canon(r), Canon(d)) PROVE FALSE
  <2>1. SubSeq(d, 1, 1) = r
    BY <1>1, <1>2, <1>3, Through
  <2>2. Len(d) \in Nat \ {0}
    BY FsPathIsSeq, PathsAreSeqs
  <2>3. 1 \in 1 .. Len(d)
    BY <2>2
  <2>4. r \in dirs
    BY <2>1, <2>3 DEF TreeOK, Closed
  <2>. QED BY <1>2, <2>4 DEF TreeOK
<1>. QED BY <1>3 DEF r

\* What users make and remove leaves a tree whose paths stay apart.
LEMMA UserKeepsTree ==
    ASSUME StartInv, StartInv', TreeOK, User
    PROVE  TreeOK'
<1>. USE DEF StartInv
<1>1. (FsOK /\ Closed(dirs) /\ Free(dirs, files, rootFiles) =>
          /\ Apart(dirs \cup RootPaths)
          /\ \A x, y \in files : x[1] = y[1] /\ Norm[x[2]] = Norm[y[2]] => x = y)'
  BY FreeKeepsApart, PTL
<1>2. CASE \E p \in dirs, f \in AllFiles : AddFile(p, f)
  <2>1. Free(dirs, files, rootFiles)' /\ UNCHANGED <<dirs, rootFiles>>
    BY <1>2 DEF AddFile, Free, Distinct
  <2>2. Closed(dirs)'
    BY <2>1 DEF TreeOK, Closed
  <2>. QED BY <1>1, <2>1, <2>2 DEF TreeOK, RootPaths
<1>3. CASE \E p \in FsPaths : AddDir(p)
  <2>1. PICK p \in FsPaths : AddDir(p)
    BY <1>3
  <2>2. /\ dirs' = dirs \cup {p} /\ UNCHANGED <<files, rootFiles>>
        /\ Len(p) > 1 => Parent(p) \in dirs
        /\ p[1] \notin rootFiles
    BY <2>1 DEF AddDir
  <2>3. Free(dirs, files, rootFiles)'
    BY <2>1 DEF AddDir, Free, Distinct
  <2>4. p \in Seq(Segs) /\ Len(p) \in Nat \ {0}
    BY FsPathIsSeq
  <2>5. ASSUME NEW k \in 1 .. Len(p) PROVE SubSeq(p, 1, k) \in dirs \cup {p}
    <3>1. CASE k = Len(p)
      BY <2>4, <3>1
    <3>2. CASE k # Len(p)
      <4>. DEFINE q == Parent(p)
                  m == Len(p)
      <4>1. m \in Nat /\ k \in 1 .. m /\ k # m
        BY <2>4, <3>2
      <4>. HIDE DEF m
      <4>2. m > 1 /\ k \in 1 .. m - 1 /\ k \in 0 .. m - 1 /\ k \in 0 .. m
        BY <4>1
      <4>3. q \in Seq(Segs) /\ Len(q) = m - 1 /\ Under(q, p)
        BY <2>4, SplitPath DEF m
      <4>. HIDE DEF q
      <4>4. q \in dirs
        BY <2>2, <4>2 DEF q, m
      <4>5. SubSeq(q, 1, k) \in dirs
        BY <4>2, <4>3, <4>4 DEF TreeOK, Closed
      <4>6. \A i \in 1 .. m - 1 : q[i] = p[i]
        BY <2>4, <4>3, UnderIs
      <4>7. /\ SubSeq(q, 1, k) \in Seq(Segs) /\ Len(SubSeq(q, 1, k)) = k
            /\ \A i \in 1 .. k : SubSeq(q, 1, k)[i] = q[i]
        BY <4>2, <4>3, PrefixFacts
      <4>8. /\ SubSeq(p, 1, k) \in Seq(Segs) /\ Len(SubSeq(p, 1, k)) = k
            /\ \A i \in 1 .. k : SubSeq(p, 1, k)[i] = p[i]
        BY <2>4, <4>2, PrefixFacts DEF m
      <4>9. \A i \in 1 .. k : i \in 1 .. m - 1
        BY <4>1, <4>2
      <4>10. SubSeq(p, 1, k) = SubSeq(q, 1, k)
        <5>. DEFINE v == SubSeq(p, 1, k)
                    w == SubSeq(q, 1, k)
        <5>1. /\ v \in Seq(Segs) /\ w \in Seq(Segs) /\ Len(v) = k /\ Len(w) = k
              /\ \A i \in 1 .. k : v[i] = w[i]
          BY <4>6, <4>7, <4>8, <4>9
        <5>. HIDE DEF v, w
        <5>2. v = w
          BY <5>1, SeqEqual
        <5>. QED BY <5>2 DEF v, w
      <4>. QED BY <4>5, <4>10
    <3>. QED BY <3>1, <3>2
  <2>6. Closed(dirs')
    BY <2>2, <2>5 DEF TreeOK, Closed
  <2>7. p \notin RootPaths
    BY <2>2 DEF RootPaths
  <2>8. Closed(dirs)'
    BY <2>6 DEF Closed
  <2>. QED BY <1>1, <2>2, <2>3, <2>7, <2>8 DEF TreeOK, RootPaths
<1>4. CASE \E n \in DirNames : AddRootFile(n)
  <2>1. Free(dirs, files, rootFiles)' /\ UNCHANGED <<dirs, files>>
    BY <1>4 DEF AddRootFile, Free, Distinct
  <2>2. Closed(dirs)'
    BY <2>1 DEF TreeOK, Closed
  <2>3. (dirs \cap RootPaths = {})'
    BY <1>4 DEF AddRootFile, TreeOK, RootPaths
  <2>. QED BY <1>1, <2>1, <2>2, <2>3 DEF TreeOK
<1>5. CASE \E p \in dirs : RemoveDir(p)
  <2>1. PICK p \in dirs : RemoveDir(p)
    BY <1>5
  <2>2. /\ dirs' = dirs \ {p} /\ UNCHANGED <<files, rootFiles>>
        /\ \A r \in dirs : Under(p, r) => r = p
    BY <2>1 DEF RemoveDir
  <2>3. ASSUME NEW d \in dirs', NEW k \in 1 .. Len(d) PROVE SubSeq(d, 1, k) # p
    <3>1. ASSUME SubSeq(d, 1, k) = p PROVE FALSE
      <4>1. d \in Seq(Segs) /\ d \in dirs /\ Len(d) \in Nat
        BY <2>2, PathsAreSeqs
      <4>2. Len(SubSeq(d, 1, k)) = k /\ k <= Len(d)
        BY <4>1
      <4>3. Under(p, d)
        BY <3>1, <4>2 DEF Under
      <4>. QED BY <2>2, <4>1, <4>3
    <3>. QED BY <3>1
  <2>4. Closed(dirs')
    BY <2>2, <2>3 DEF TreeOK, Closed
  <2>. QED BY <2>2, <2>4 DEF TreeOK, RootPaths, Apart, Closed
<1>6. CASE \/ \E x \in files : RemoveFile(x)
           \/ \E n \in rootFiles : RemoveRootFile(n)
  <2>1. dirs' = dirs /\ files' \subseteq files /\ rootFiles' \subseteq rootFiles
    BY <1>6 DEF RemoveFile, RemoveRootFile
  <2>. QED BY <2>1 DEF TreeOK, RootPaths, Apart, Closed
<1>. QED BY <1>2, <1>3, <1>4, <1>5, <1>6 DEF User

\* A walk goes on when users make or remove something at r.
LEMMA ActKeepsWalk ==
    ASSUME FsOK, FsOK', Walking, NEW r \in Seq(Segs),
           touched' = touched \cup {Canon(r)}, UNCHANGED <<todo, seen, found, faults>>,
           \A d \in dirs : d \in dirs' \/ d = r,
           \A d \in dirs' : d \in dirs \/ d = r,
           \A x \in files : x \in files' \/ FilePath(x) = r,
           \A x \in files' : x \in files \/ FilePath(x) = r,
           \A q \in Present' : Under(Canon(r), Canon(q)) => Canon(q) \in touched'
    PROVE  Walking'
<1>1. \A q : (Touched(q) => Touched(q)') /\ (q = r => Touched(q)')
  BY DEF Touched
<1>2. TasksOK' /\ IndexOK' /\ Ahead'
  BY DEF Walking, TasksOK, IndexOK, Ahead, Done
<1>3. Whole'
  <2>. SUFFICES ASSUME NEW q \in Present', NEW c \in touched', Under(c, Canon(q))
                PROVE  Canon(q) \in touched'
    BY DEF Whole, Touched
  <2>1. CASE c \in touched /\ q \in Present
    BY <2>1 DEF Walking, Whole, Touched
  <2>2. CASE q \notin Present
    <3>1. q = r
      BY <2>2 DEF Present
    <3>. QED BY <3>1
  <2>3. CASE c = Canon(r)
    BY <2>3
  <2>. QED BY <2>1, <2>2, <2>3
<1>4. There'
  <2>1. ASSUME NEW s \in todo, s.kind \in {"file", "sync"}
        PROVE  (IsFile(s.path) \/ Touched(s.path))'
    <3>1. s.path \in Seq(Segs) /\ Len(s.path) # 0
      BY DEF Walking, TasksOK
    <3>2. CASE IsFile(s.path)
      <4>1. PICK x \in files : FilePath(x) = s.path /\ x = <<Parent(s.path), Name(s.path)>>
        BY <3>1, <3>2, IsFileFacts
      <4>2. x \in files' \/ FilePath(x) = r
        OBVIOUS
      <4>. QED BY <1>1, <4>1, <4>2 DEF IsFile
    <3>3. CASE ~IsFile(s.path)
      BY <1>1, <2>1, <3>3 DEF Walking, There
    <3>. QED BY <3>2, <3>3
  <2>2. ASSUME NEW s \in todo, s.kind = "entry"
        PROVE  (s.path \in dirs \/ Touched(s.path))'
    BY <1>1, <2>2 DEF Walking, There
  <2>3. \A p \in seen : (p \in dirs \/ Touched(p))'
    BY <1>1 DEF Walking, There
  <2>4. \A x \in found : (x \in files \/ Touched(FilePath(x)))'
    BY <1>1 DEF Walking, There
  <2>. QED BY <2>1, <2>2, <2>3, <2>4 DEF There
<1>5. ASSUME NEW q, Coming(q) PROVE Coming(q)'
  BY <1>1, <1>5 DEF Coming, Held, Due
<1>6. Covered'
  <2>1. \A d \in dirs' : d \in seen' \/ Coming(d)'
    BY <1>1, <1>5 DEF Walking, Covered, Coming
  <2>2. \A x \in files' : x \in found' \/ Coming(FilePath(x))'
    BY <1>1, <1>5 DEF Walking, Covered, Coming
  <2>. QED BY <2>1, <2>2 DEF Covered
<1>. QED BY <1>2, <1>3, <1>4, <1>6 DEF Walking

\* What comes to lie where a file does is that file, or one in its place.
FilesAlone ==
    \A x \in FsPaths \X AllFiles, q \in Present :
        Under(Canon(FilePath(x)), Canon(q)) => Canon(q) = Canon(FilePath(x))

LEMMA FileAlone == FsOK => FilesAlone
<1>. SUFFICES ASSUME FsOK, NEW x \in FsPaths \X AllFiles, NEW q \in Present,
                     Under(Canon(FilePath(x)), Canon(q))
              PROVE  Canon(q) = Canon(FilePath(x))
  BY DEF FilesAlone
<1>1. x \in FsPaths \X Segs /\ x[2] \in AllFiles
  BY DEF Segs
<1>2. FilePath(x) \in Seq(Segs) /\ Len(FilePath(x)) # 0 /\ Name(FilePath(x)) \in AllFiles
  BY <1>1, FilePathFacts
<1>3. CASE q \in dirs
  <2>1. q \in FsPaths
    BY <1>3, PathsAreSeqs
  <2>. QED BY <1>2, <2>1, DirNotBelowFile
<1>4. CASE \E y \in files : q = FilePath(y)
  <2>1. PICK y \in files : q = FilePath(y)
    BY <1>4
  <2>2. y \in FsPaths \X AllFiles
    BY PathsAreSeqs
  <2>. QED BY <1>2, <2>1, <2>2, FileBelowFile
<1>. QED BY <1>3, <1>4 DEF Present

\* What comes to lie where a directory does, or below, is below it.
DirsAlone ==
    \A p \in dirs, q \in Present : Under(Canon(p), Canon(q)) =>
        \/ q \in dirs /\ Under(p, q) /\ SubSeq(q, 1, Len(p)) = p
        \/ \E x \in files : q = FilePath(x) /\ Under(p, x[1]) /\ SubSeq(x[1], 1, Len(p)) = p

LEMMA DirAlone == FsOK /\ TreeOK => DirsAlone
<1>. SUFFICES ASSUME FsOK, TreeOK, NEW p \in dirs, NEW q \in Present,
                     Under(Canon(p), Canon(q))
              PROVE  \/ q \in dirs /\ Under(p, q) /\ SubSeq(q, 1, Len(p)) = p
                     \/ \E x \in files : /\ q = FilePath(x) /\ Under(p, x[1])
                                         /\ SubSeq(x[1], 1, Len(p)) = p
  BY DEF DirsAlone
<1>1. dirs \in SUBSET FsPaths /\ Closed(dirs) /\ Apart(dirs)
  BY DEF FsOK, TreeOK, Apart
<1>2. CASE q \in dirs
  BY <1>1, <1>2, Through
<1>3. CASE \E y \in files : q = FilePath(y)
  <2>1. PICK y \in files : q = FilePath(y)
    BY <1>3
  <2>2. y \in FsPaths \X AllFiles /\ y[1] \in dirs /\ p \in FsPaths
    BY PathsAreSeqs
  <2>3. Under(Canon(p), Canon(y[1]))
    BY <2>1, <2>2, FileBelowDir
  <2>4. Under(p, y[1]) /\ SubSeq(y[1], 1, Len(p)) = p
    BY <1>1, <2>2, <2>3, Through
  <2>. QED BY <2>1, <2>4
<1>. QED BY <1>2, <1>3 DEF Present

\* Users make and remove files and directories.
LEMMA UserKeepsWalk ==
    ASSUME StartInv, StartInv', TreeOK, TreeOK', pc # "down", Walking, User
    PROVE  Walking'
<1>0. FsOK /\ FsOK'
  BY DEF StartInv
<1>1. CASE \E p \in dirs, f \in AllFiles : AddFile(p, f)
  <2>1. PICK p \in dirs, f \in AllFiles : AddFile(p, f)
    BY <1>1
  <2>. DEFINE x == <<p, f>>
              r == FilePath(x)
  <2>2. /\ touched' = touched \cup {Canon(r)} /\ UNCHANGED <<todo, seen, found, faults>>
        /\ files' = files \cup {x} /\ UNCHANGED dirs
    BY <2>1 DEF AddFile, Act, index, FilePath
  <2>3. x \in FsPaths \X AllFiles /\ x \in FsPaths \X Segs
    BY <1>0, PathsAreSeqs DEF Segs
  <2>. HIDE DEF x
  <2>4. r \in Seq(Segs)
    BY <2>3, FilePathFacts
  <2>5. (FsOK => FilesAlone)'
    BY FileAlone, PTL
  <2>6. \A q \in Present' : Under(Canon(r), Canon(q)) => Canon(q) \in touched'
    BY <1>0, <2>2, <2>3, <2>5 DEF FilesAlone
  <2>. HIDE DEF r
  <2>7. \A z \in files' : z \in files \/ FilePath(z) = r
    BY <2>2 DEF r
  <2>. QED BY <1>0, <2>2, <2>4, <2>6, <2>7, ActKeepsWalk
<1>2. CASE \E x \in files : RemoveFile(x)
  <2>1. PICK x \in files : RemoveFile(x)
    BY <1>2
  <2>. DEFINE r == FilePath(x)
  <2>2. /\ touched' = touched \cup {Canon(r)} /\ UNCHANGED <<todo, seen, found, faults>>
        /\ files' = files \ {x} /\ UNCHANGED dirs
    BY <2>1 DEF RemoveFile, Act, index, FilePath
  <2>3. x \in FsPaths \X AllFiles /\ r \in Seq(Segs)
    BY <1>0, PathsAreSeqs
  <2>4. \A q \in Present' : q \in Present
    BY <2>2 DEF Present
  <2>5. \A q \in Present' : Under(Canon(r), Canon(q)) => Canon(q) \in touched'
    BY <1>0, <2>2, <2>3, <2>4, FileAlone DEF FilesAlone
  <2>. HIDE DEF r
  <2>6. \A z \in files : z \in files' \/ FilePath(z) = r
    BY <2>2 DEF r
  <2>. QED BY <1>0, <2>2, <2>3, <2>5, <2>6, ActKeepsWalk
<1>3. CASE \E p \in FsPaths : AddDir(p)
  <2>1. PICK p \in FsPaths : AddDir(p)
    BY <1>3
  <2>2. /\ touched' = touched \cup {Canon(p)} /\ UNCHANGED <<todo, seen, found, faults>>
        /\ dirs' = dirs \cup {p} /\ p \notin dirs /\ UNCHANGED files
    BY <2>1 DEF AddDir, Act, index
  <2>3. p \in Seq(Segs) /\ Len(p) \in Nat \ {0}
    BY FsPathIsSeq
  <2>4. (FsOK /\ TreeOK => DirsAlone)'
    BY DirAlone, PTL
  <2>5. ASSUME NEW d \in dirs, Under(p, d), SubSeq(d, 1, Len(p)) = p PROVE FALSE
    <3>1. Len(d) \in Nat /\ Len(p) <= Len(d)
      BY <1>0, <2>5, PathsAreSeqs, FsPathIsSeq DEF Under
    <3>2. Len(p) \in 1 .. Len(d)
      BY <2>3, <3>1
    <3>3. SubSeq(d, 1, Len(p)) \in dirs
      BY <3>2 DEF TreeOK, Closed
    <3>. QED BY <2>2, <2>5, <3>3
  <2>6. \A q \in Present' : Under(Canon(p), Canon(q)) => Canon(q) \in touched'
    <3>. SUFFICES ASSUME NEW q \in Present', Under(Canon(p), Canon(q))
                  PROVE  Canon(q) \in touched'
      OBVIOUS
    <3>1. \/ q \in dirs' /\ Under(p, q) /\ SubSeq(q, 1, Len(p)) = p
          \/ \E x \in files : /\ q = FilePath(x) /\ Under(p, x[1])
                              /\ SubSeq(x[1], 1, Len(p)) = p
      BY <1>0, <2>2, <2>4 DEF DirsAlone
    <3>2. \A x \in files : x[1] \in dirs
      BY <1>0, PathsAreSeqs
    <3>3. q = p
      BY <2>2, <2>5, <3>1, <3>2
    <3>. QED BY <2>2, <3>3
  <2>. QED BY <1>0, <2>2, <2>3, <2>6, ActKeepsWalk
<1>4. CASE \E p \in dirs : RemoveDir(p)
  <2>1. PICK p \in dirs : RemoveDir(p)
    BY <1>4
  <2>2. /\ touched' = touched \cup {Canon(p)} /\ UNCHANGED <<todo, seen, found, faults>>
        /\ dirs' = dirs \ {p} /\ UNCHANGED files
        /\ \A r \in dirs : Under(p, r) => r = p
        /\ \A x \in files : x[1] # p
    BY <2>1 DEF RemoveDir, Act, index
  <2>3. p \in Seq(Segs)
    BY <1>0, PathsAreSeqs
  <2>4. \A q \in Present' : Under(Canon(p), Canon(q)) => Canon(q) \in touched'
    <3>. SUFFICES ASSUME NEW q \in Present', Under(Canon(p), Canon(q))
                  PROVE  Canon(q) \in touched'
      OBVIOUS
    <3>1. q \in Present
      BY <2>2 DEF Present
    <3>2. \/ q \in dirs /\ Under(p, q)
          \/ \E x \in files : q = FilePath(x) /\ Under(p, x[1])
      BY <1>0, <3>1, DirAlone DEF DirsAlone
    <3>3. \A x \in files : x[1] \in dirs
      BY <1>0, PathsAreSeqs
    <3>4. q = p
      BY <2>2, <3>2, <3>3
    <3>. QED BY <2>2, <3>4
  <2>. QED BY <1>0, <2>2, <2>3, <2>4, ActKeepsWalk
<1>5. ASSUME NEW n \in DirNames, Act(<<n>>), UNCHANGED <<dirs, files>>,
             \A d \in dirs : ~Under(Canon(<<n>>), Canon(d))
      PROVE  Walking'
  <2>. DEFINE r == <<n>>
  <2>1. r \in FsPaths
    BY RootIsPath
  <2>2. touched' = touched \cup {Canon(r)} /\ UNCHANGED <<todo, seen, found, faults>>
    BY <1>5 DEF Act, index
  <2>3. \A d \in dirs : ~Under(Canon(r), Canon(d))
    BY <1>5
  <2>. HIDE DEF r
  <2>4. r \in Seq(Segs)
    BY <2>1, FsPathIsSeq
  <2>5. ASSUME NEW x \in files PROVE ~Under(Canon(r), Canon(FilePath(x)))
    <3>1. x \in FsPaths \X AllFiles /\ x[1] \in dirs
      BY <1>0, PathsAreSeqs
    <3>. QED BY <2>1, <2>3, <3>1, FileBelowDir
  <2>6. \A q \in Present' : ~Under(Canon(r), Canon(q))
    BY <1>5, <2>3, <2>5 DEF Present
  <2>. QED BY <1>0, <1>5, <2>2, <2>4, <2>6, ActKeepsWalk
<1>6. CASE \E n \in DirNames : AddRootFile(n)
  <2>1. PICK n \in DirNames : AddRootFile(n)
    BY <1>6
  <2>2. Act(<<n>>) /\ UNCHANGED <<dirs, files>> /\ n \in rootFiles'
    BY <2>1 DEF AddRootFile
  <2>3. (FsOK /\ TreeOK => RootFilesAlone)'
    BY RootFileAlone, PTL
  <2>4. \A d \in dirs : ~Under(Canon(<<n>>), Canon(d))
    BY <1>0, <2>2, <2>3 DEF RootFilesAlone
  <2>. QED BY <1>5, <2>2, <2>4
<1>7. CASE \E n \in rootFiles : RemoveRootFile(n)
  <2>1. PICK n \in rootFiles : RemoveRootFile(n)
    BY <1>7
  <2>2. Act(<<n>>) /\ UNCHANGED <<dirs, files>> /\ n \in DirNames
    BY <1>0, <2>1 DEF RemoveRootFile, FsOK
  <2>3. \A d \in dirs : ~Under(Canon(<<n>>), Canon(d))
    BY <1>0, RootFileAlone DEF RootFilesAlone
  <2>. QED BY <1>5, <2>2, <2>3
<1>. QED BY <1>1, <1>2, <1>3, <1>4, <1>6, <1>7 DEF User

\* A start looks at every name in the root.
LEMMA StartKeepsWalk ==
    ASSUME StartInv, TreeOK, Start
    PROVE  TreeOK' /\ Walking'
<1>. DEFINE R == {p[1] : p \in dirs} \cup rootFiles
            D == dirs \cup RootPaths
<1>1. /\ todo' = {Task("name", <<n>>) : n \in R}
      /\ seen' = {} /\ found' = {} /\ touched' = {}
      /\ UNCHANGED <<dirs, files, rootFiles>>
  BY DEF Start, fs
<1>2. FsOK
  BY DEF StartInv
<1>3. \A d \in dirs : /\ d \in Seq(Segs) /\ 1 \in 1 .. Len(d) /\ d[1] \in DirNames
                      /\ <<d[1]>> = SubSeq(d, 1, 1)
  <2>. SUFFICES ASSUME NEW d \in dirs
                PROVE  /\ d \in Seq(Segs) /\ 1 \in 1 .. Len(d) /\ d[1] \in DirNames
                       /\ <<d[1]>> = SubSeq(d, 1, 1)
    OBVIOUS
  <2>1. /\ d \in Seq(Segs) /\ Len(d) \in Nat \ {0}
        /\ \A i \in 1 .. Len(d) : d[i] \in DirNames
    BY <1>2, PathsAreSeqs, FsPathIsSeq
  <2>2. 1 \in 1 .. Len(d) /\ 1 \in 0 .. Len(d)
    BY <2>1
  <2>3. /\ SubSeq(d, 1, 1) \in Seq(Segs) /\ Len(SubSeq(d, 1, 1)) = 1
        /\ \A i \in 1 .. 1 : SubSeq(d, 1, 1)[i] = d[i]
    BY <2>1, <2>2, PrefixFacts
  <2>. DEFINE x == SubSeq(d, 1, 1)
  <2>. HIDE DEF x
  <2>4. x \in Seq(Segs) /\ Len(x) = 1 /\ x[1] = d[1]
    BY <2>3 DEF x
  <2>5. x = <<x[1]>>
    BY <2>4
  <2>. QED BY <2>1, <2>2, <2>4, <2>5 DEF x
<1>4. \A n \in R : n \in DirNames /\ <<n>> \in D
  <2>1. \A d \in dirs : <<d[1]>> \in dirs
    BY <1>3 DEF TreeOK, Closed
  <2>2. \A n \in rootFiles : n \in DirNames /\ <<n>> \in RootPaths
    BY <1>2 DEF FsOK, RootPaths
  <2>. QED BY <1>3, <2>1, <2>2
<1>5. \A n \in R : <<n>> \in FsPaths /\ <<n>> \in Seq(Segs) /\ Len(<<n>>) = 1
  BY <1>4, RootIsPath, FsPathIsSeq
<1>6. \A t \in todo' : \E n \in R : t = Task("name", <<n>>) /\ t.kind = "name" /\ t.path = <<n>>
  BY <1>1 DEF Task
<1>. HIDE DEF R, D
<1>7. TreeOK'
  BY <1>1 DEF TreeOK, Closed, Apart, RootPaths
<1>8. TasksOK'
  <2>. SUFFICES ASSUME NEW t \in todo'
                PROVE  /\ t.kind = "name" /\ t.path \in FsPaths
                       /\ t.path \in Seq(Segs) /\ Len(t.path) = 1
    BY DEF TasksOK
  <2>1. PICK n \in R : t.kind = "name" /\ t.path = <<n>>
    BY <1>6
  <2>. QED BY <1>5, <2>1
<1>9. IndexOK' /\ Whole' /\ Done' = {}
  BY <1>1 DEF IndexOK, Whole, Touched, Done
<1>10. There'
  BY <1>1, <1>6 DEF There
<1>11. Ahead'
  <2>1. ASSUME NEW t \in todo', NEW s \in todo', Under(Canon(t.path), Canon(s.path))
        PROVE  s = t
    <3>1. PICK m \in R : t = Task("name", <<m>>) /\ t.path = <<m>>
      BY <1>6
    <3>2. PICK n \in R : s = Task("name", <<n>>) /\ s.path = <<n>>
      BY <1>6
    <3>. DEFINE v == <<m>>
                w == <<n>>
    <3>3. /\ v \in D /\ v \in Seq(Segs) /\ Len(v) = 1 /\ t = Task("name", v) /\ t.path = v
          /\ w \in D /\ w \in Seq(Segs) /\ Len(w) = 1 /\ s = Task("name", w) /\ s.path = w
      BY <1>4, <1>5, <3>1, <3>2
    <3>. HIDE DEF v, w
    <3>4. /\ Canon(v) \in Seq(Ends) /\ Len(Canon(v)) = 1
          /\ Canon(w) \in Seq(Ends) /\ Len(Canon(w)) = 1
      BY <3>3, CanonFacts
    <3>5. Canon(v) = Canon(w)
      BY <2>1, <3>3, <3>4, UnderOrder
    <3>6. v = w
      BY <3>3, <3>5 DEF TreeOK, Apart, D
    <3>. QED BY <3>3, <3>6
  <2>. QED BY <1>9, <2>1 DEF Ahead
<1>12. ASSUME NEW d \in dirs
       PROVE  \E t \in todo' : t.path \in Seq(Segs) /\ Under(t.path, d)
  <2>1. d[1] \in R
    BY DEF R
  <2>. DEFINE t == Task("name", <<d[1]>>)
  <2>2. t \in todo' /\ t.path = <<d[1]>>
    BY <1>1, <2>1 DEF Task
  <2>3. t.path \in Seq(Segs) /\ t.path = SubSeq(d, 1, 1) /\ Len(t.path) = 1
    BY <1>3, <1>5, <2>1, <2>2
  <2>4. 1 <= Len(d)
    BY <1>3
  <2>5. Under(t.path, d)
    BY <2>3, <2>4 DEF Under
  <2>. QED BY <2>2, <2>3, <2>5
<1>13. Covered'
  <2>1. ASSUME NEW d \in dirs PROVE Due(d)'
    <3>1. PICK t \in todo' : t.path \in Seq(Segs) /\ Under(t.path, d)
      BY <1>12
    <3>2. Under(Canon(t.path), Canon(d))
      BY <1>3, <3>1, CanonUnder
    <3>. QED BY <3>2 DEF Due
  <2>2. ASSUME NEW x \in files PROVE Due(FilePath(x))'
    <3>1. /\ x \in FsPaths \X Segs /\ x[1] \in dirs /\ x[1] \in Seq(Segs)
          /\ FilePath(x) \in Seq(Segs)
      BY <1>2, PathsAreSeqs
    <3>2. PICK t \in todo' : t.path \in Seq(Segs) /\ Under(t.path, x[1])
      BY <1>12, <3>1
    <3>3. Under(x[1], FilePath(x))
      BY <3>1, FilePathFacts
    <3>4. Under(t.path, FilePath(x))
      BY <3>1, <3>2, <3>3, UnderOrder
    <3>5. Under(Canon(t.path), Canon(FilePath(x)))
      BY <3>1, <3>2, <3>4, CanonUnder
    <3>. QED BY <3>5 DEF Due
  <2>. QED BY <1>1, <2>1, <2>2 DEF Covered, Coming
<1>. QED BY <1>7, <1>8, <1>9, <1>10, <1>11, <1>13 DEF Walking

\* The names of the layouts there may be at first stay apart.
LEMMA TreeAtFirst == Init => TreeOK
<1>. SUFFICES ASSUME Init PROVE TreeOK
  OBVIOUS
<1>1. PICK l \in Layouts : dirs = l.dirs /\ files = l.files
  BY DEF Init
<1>2. Distinct(dirs, files) /\ Closed(dirs) /\ rootFiles = {}
  BY <1>1, StartupAssumption DEF Init, Closed
<1>3. FsOK
  BY Begins DEF StartInv
<1>4. Free(dirs, files, rootFiles)
  <2>1. dirs \cup {<<n>> : n \in rootFiles} = dirs
    BY <1>2
  <2>. QED BY <1>2, <2>1 DEF Free
<1>. QED BY <1>2, <1>3, <1>4, FreeKeepsApart DEF TreeOK, RootPaths

\* The invariant of the walk holds in every state.
LEMMA WalkInvariant == Spec => []WalkInv
<1>1. Init => WalkInv
  BY TreeAtFirst DEF Init, WalkInv
<1>2. StartInv /\ StartInv' /\ WalkInv /\ [Next]_vars => WalkInv'
  <2>. SUFFICES ASSUME StartInv, StartInv', WalkInv, [Next]_vars PROVE WalkInv'
    OBVIOUS
  <2>1. CASE Start
    BY <2>1, StartKeepsWalk DEF WalkInv
  <2>2. CASE List
    <3>1. pc # "down"
      BY <2>2 DEF List
    <3>. QED BY <2>2, <3>1, ListKeepsWalk DEF WalkInv
  <2>3. CASE Walk
    <3>1. PICK t \in todo :
             \/ OpenDir(t)
             \/ NormaliseDir(t) \/ NormaliseFile(t) \/ NormaliseGone(t) \/ NormaliseFails(t)
             \/ SyncObject(t) \/ SyncObjectFails(t)
      BY <2>3 DEF Walk
    <3>2. TreeOK /\ Walking /\ UNCHANGED touched
      BY <2>3 DEF Walk, WalkInv, history
    <3>3. CASE OpenDir(t)
      BY <3>2, <3>3, OpenDirKeepsWalk DEF WalkInv
    <3>4. CASE NormaliseDir(t)
      BY <3>2, <3>4, NormaliseDirKeepsWalk DEF WalkInv
    <3>5. CASE NormaliseFile(t)
      BY <3>2, <3>5, NormaliseFileKeepsWalk DEF WalkInv
    <3>6. CASE NormaliseGone(t)
      BY <3>2, <3>6, NormaliseGoneKeepsWalk DEF WalkInv
    <3>7. CASE NormaliseFails(t)
      BY <3>2, <3>7, NormaliseFailsKeepsWalk DEF WalkInv
    <3>8. CASE SyncObject(t) \/ SyncObjectFails(t)
      BY <3>2, <3>8, SyncKeepsWalk DEF WalkInv
    <3>. QED BY <3>1, <3>3, <3>4, <3>5, <3>6, <3>7, <3>8
  <2>4. CASE Listed \/ Walked \/ Purge \/ UNCHANGED vars
    <3>1. /\ UNCHANGED <<dirs, files, rootFiles, todo, seen, found, touched, faults>>
          /\ pc' # "down" => pc # "down"
      BY <2>4 DEF Listed, Walked, Purge, vars, fs, index, history, bounds
    <3>2. WalkInv => WalkInv'
      BY <3>1 DEF WalkInv, TreeOK, Closed, Apart, RootPaths, Walking, TasksOK, IndexOK,
                  Whole, Present, Touched, There, IsFile, Ahead, Done, Covered, Coming,
                  Held, Due
    <3>. QED BY <3>2
  <2>5. CASE Panic \/ PurgeFails \/ Crash
    <3>1. UNCHANGED <<dirs, files, rootFiles>> /\ pc' = "down"
      BY <2>5 DEF Panic, Stop, PurgeFails, Crash, fs
    <3>. QED BY <3>1 DEF WalkInv, TreeOK, Closed, Apart, RootPaths
  <2>6. CASE User
    <3>1. TreeOK'
      BY <2>6, UserKeepsTree DEF WalkInv
    <3>2. UNCHANGED pc
      BY <2>6 DEF User, AddFile, RemoveFile, AddDir, RemoveDir, AddRootFile,
                  RemoveRootFile, Act
    <3>. QED BY <2>6, <3>1, <3>2, UserKeepsWalk DEF WalkInv
  <2>. QED BY <2>1, <2>2, <2>3, <2>4, <2>5, <2>6 DEF Next, Service
<1>. QED BY <1>1, <1>2, StartInvariant, PTL DEF Spec

\* A name that could not be changed, in a path of the file system.
LEMMA HeldIsStuck ==
    ASSUME NEW p \in Seq(Segs), Held(p)
    PROVE  Stuck(p)
<1>1. CASE ~Allowed(p) /\ faults > 0
  BY <1>1 DEF Stuck
<1>2. CASE \E i \in 2 .. Len(p) : p[i] \in Lossy
  <2>1. PICK i \in 2 .. Len(p) : p[i] \in Lossy
    BY <1>2
  <2>2. i \in DOMAIN p
    OBVIOUS
  <2>3. p[i] \notin Names \cup FileNames
    BY <2>1, StartupAssumption, NormAssumption
  <2>. QED BY <2>1, <2>2, <2>3 DEF Stuck, Allowed
<1>. QED BY <1>1, <1>2 DEF Held

\* A start that comes to its end has the directories and files on disk in its index,
\* and no others, up to what users did meanwhile and names that could not be changed:
\* for every file system, whatever fails and wherever it crashed before.
THEOREM IndexIsTheDirectory == Spec => []IndexIsDirectory
<1>1. StartInv /\ WalkInv => IndexIsDirectory
  <2>. SUFFICES ASSUME StartInv, WalkInv, pc = "built"
                PROVE  /\ \A p \in seen \ dirs : Touched(p)
                       /\ \A x \in found \ files : Touched(FilePath(x))
                       /\ \A p \in dirs \ seen : Touched(p) \/ Stuck(p)
                       /\ \A x \in files \ found : Touched(FilePath(x)) \/ Stuck(FilePath(x))
    BY DEF IndexIsDirectory, FilePath
  <2>1. FsOK /\ todo = {} /\ Walking
    BY DEF StartInv, StartOK, WalkInv
  <2>2. \A p : ~Due(p)
    BY <2>1 DEF Due
  <2>3. \A p \in dirs \ seen : Touched(p) \/ Held(p)
    BY <2>1, <2>2 DEF Walking, Covered, Coming
  <2>4. \A x \in files \ found : Touched(FilePath(x)) \/ Held(FilePath(x))
    BY <2>1, <2>2 DEF Walking, Covered, Coming
  <2>5. \A p \in dirs \ seen : Touched(p) \/ Stuck(p)
    BY <2>1, <2>3, PathsAreSeqs, HeldIsStuck
  <2>6. \A x \in files \ found : Touched(FilePath(x)) \/ Stuck(FilePath(x))
    BY <2>1, <2>4, PathsAreSeqs, HeldIsStuck
  <2>7. /\ \A p \in seen \ dirs : Touched(p)
        /\ \A x \in found \ files : Touched(FilePath(x))
    BY <2>1 DEF Walking, There
  <2>. QED BY <2>5, <2>6, <2>7
<1>. QED BY <1>1, StartInvariant, WalkInvariant, PTL

-----------------------------------------------------------------------------
(***************************************************************************)
(* The records that were there when the service started.                   *)
(***************************************************************************)

\* Below its bucket, no name in the path is one that cannot be changed.
Clear(p) == \A i \in 2 .. Len(p) : p[i] \notin Lossy

\* What is looked up lies below directories that could be renamed.
ClearOK ==
    /\ \A x \in db : Clear(FilePath(x))
    /\ \A t \in todo :
          /\ t.kind \in {"bucket", "key", "sync"} => Clear(t.path)
          /\ t.kind \in {"entry", "file"} => Clear(Parent(t.path))

\* While the service starts no record goes, and a lookup that succeeds keeps one.
KnownOK ==
    pc \in {"list", "walk", "purge"} =>
        known \subseteq db /\ (faults = 0 => known \cap found \subseteq ids)

LEMMA ClearAppend ==
    ASSUME NEW u \in Seq(Segs), NEW n \in Segs, Clear(u), n \notin Lossy
    PROVE  Clear(Append(u, n))
<1>. DEFINE y == Append(u, n)
            k == Len(u)
<1>1. k \in Nat /\ Len(y) = k + 1 /\ y[k + 1] = n /\ \A i \in 1 .. k : y[i] = u[i]
  BY AppendProperties
<1>2. \A i \in 2 .. k : u[i] \notin Lossy
  BY DEF Clear
<1>. HIDE DEF y, k
<1>3. \A i \in 2 .. k + 1 : i = k + 1 \/ (i \in 2 .. k /\ i \in 1 .. k)
  BY <1>1
<1>4. \A i \in 2 .. k + 1 : y[i] \notin Lossy
  BY <1>1, <1>2, <1>3
<1>5. Clear(y)
  BY <1>1, <1>4 DEF Clear
<1>. QED BY <1>5 DEF y

\* The records of an earlier run.
LEMMA ClearAtFirst == Init => ClearOK
<1>. SUFFICES ASSUME Init PROVE ClearOK
  OBVIOUS
<1>1. FsOK
  BY Begins DEF StartInv
<1>2. ASSUME NEW x \in db PROVE Clear(FilePath(x))
  <2>1. PICK p \in dirs, f \in FileNames : x = <<p, f>> /\ Allowed(p)
    BY <1>2 DEF Init
  <2>2. p \in Seq(Segs) /\ Len(p) \in Nat /\ f \in Segs /\ DOMAIN p = 1 .. Len(p)
    BY <1>1, PathsAreSeqs DEF Segs, AllFiles
  <2>3. \A n \in Names \cup FileNames : n \notin Lossy
    BY StartupAssumption, NormAssumption
  <2>4. \A i \in 2 .. Len(p) : i \in DOMAIN p
    BY <2>2
  <2>5. Clear(p)
    BY <2>1, <2>3, <2>4 DEF Allowed, Clear
  <2>6. Clear(Append(p, f))
    BY <2>2, <2>3, <2>5, ClearAppend
  <2>. QED BY <2>1, <2>6 DEF FilePath
<1>. QED BY <1>2 DEF Init, ClearOK

\* A step of the walk.
LEMMA WalkKeepsClear ==
    ASSUME StartInv, Walking, ClearOK, Walk
    PROVE  ClearOK'
<1>1. PICK t \in todo :
         \/ OpenDir(t)
         \/ NormaliseDir(t) \/ NormaliseFile(t) \/ NormaliseGone(t) \/ NormaliseFails(t)
         \/ SyncObject(t) \/ SyncObjectFails(t)
  BY DEF Walk
<1>. DEFINE p == t.path
<1>2. FsOK
  BY DEF StartInv
<1>3. p \in Seq(Segs) /\ Len(p) # 0
  BY DEF Walking, TasksOK
<1>4. /\ Parent(p) \in Seq(Segs) /\ Name(p) \in Segs /\ p = Append(Parent(p), Name(p))
  BY <1>3, SplitPath
<1>5. \A n \in Names \cup FileNames : n \notin Lossy
  BY StartupAssumption, NormAssumption
<1>6. CASE OpenDir(t)
  <2>1. /\ p \in dirs /\ todo' = (todo \ {t}) \cup Entries(p) /\ UNCHANGED db
        /\ t.kind \in {"bucket", "key"}
    BY <1>6 DEF OpenDir
  <2>2. \A e \in Entries(p) : e.kind \in {"entry", "file"} /\ Parent(e.path) = p
    BY <1>2, <2>1, EntriesFacts
  <2>3. Clear(p)
    BY <2>1 DEF ClearOK
  <2>. QED BY <2>1, <2>2, <2>3 DEF ClearOK
<1>7. CASE NormaliseDir(t)
  <2>1. /\ p \in FsPaths /\ t.kind = "entry" /\ UNCHANGED db
        /\ todo' = (todo \ {t}) \cup {Task("key", NormalNew(p))}
    BY <1>2, <1>7, PathsAreSeqs DEF NormaliseDir
  <2>. DEFINE q == NormalNew(p)
              k == Len(p)
  <2>2. /\ Len(q) = k /\ q[k] \notin Lossy /\ \A i \in 1 .. k : i # k => q[i] = p[i]
    BY <2>1, NormalNewFacts, NormalIsPath
  <2>3. Len(Parent(p)) = k - 1 /\ Under(Parent(p), p) /\ k \in Nat
    BY <1>3, SplitPath
  <2>4. \A i \in 1 .. k - 1 : Parent(p)[i] = p[i]
    BY <1>3, <1>4, <2>3, UnderIs
  <2>5. \A i \in 2 .. k - 1 : Parent(p)[i] \notin Lossy
    BY <2>1, <2>3 DEF ClearOK, Clear
  <2>. HIDE DEF q, k, p
  <2>6. \A i \in 2 .. k : i \in 1 .. k /\ (i = k \/ (i \in 2 .. k - 1 /\ i \in 1 .. k - 1))
    BY <2>3
  <2>7. \A i \in 2 .. k : q[i] \notin Lossy
    <3>. TAKE i \in 2 .. k
    <3>1. CASE i = k
      BY <2>2, <3>1
    <3>2. CASE i # k
      <4>1. i \in 1 .. k /\ i \in 2 .. k - 1 /\ i \in 1 .. k - 1
        BY <2>6, <3>2
      <4>2. q[i] = p[i] /\ Parent(p)[i] = p[i]
        BY <2>2, <2>4, <3>2, <4>1
      <4>. QED BY <2>5, <4>1, <4>2
    <3>. QED BY <3>1, <3>2
  <2>8. Clear(q)
    BY <2>2, <2>7 DEF Clear
  <2>. QED BY <2>1, <2>8 DEF ClearOK, Task, q
<1>8. CASE NormaliseFile(t)
  <2>1. /\ t.kind = "file" /\ UNCHANGED db /\ Name(p) \in AllFiles
        /\ todo' = (todo \ {t}) \cup {Task("sync", Normal(p))}
    BY <1>8 DEF NormaliseFile, Walking, TasksOK
  <2>2. Norm[Name(p)] \in FileNames /\ Norm[Name(p)] \in Segs
    BY <2>1, FinalFacts DEF Segs
  <2>3. Clear(Parent(p))
    BY <2>1 DEF ClearOK
  <2>4. Clear(Normal(p))
    BY <1>4, <1>5, <2>2, <2>3, ClearAppend DEF Normal
  <2>. HIDE DEF p
  <2>. QED BY <2>1, <2>4 DEF ClearOK, Task
<1>9. CASE NormaliseGone(t)
  <2>1. /\ t.kind \in {"entry", "file"} /\ UNCHANGED db
        /\ \A s \in todo' : s \in todo \/
              (s.kind = "sync" /\ s.path = p /\ Norm[Name(p)] = Name(p))
    BY <1>9 DEF NormaliseGone, Task
  <2>2. Clear(Parent(p))
    BY <2>1 DEF ClearOK
  <2>3. Norm[Name(p)] = Name(p) => Name(p) \notin Lossy
    BY StartupAssumption, NormAssumption
  <2>4. Norm[Name(p)] = Name(p) => Clear(p)
    BY <1>4, <2>2, <2>3, ClearAppend
  <2>. HIDE DEF p
  <2>. QED BY <2>1, <2>4 DEF ClearOK
<1>10. CASE NormaliseFails(t)
  BY <1>10 DEF NormaliseFails, ClearOK
<1>11. CASE SyncObject(t) \/ SyncObjectFails(t)
  <2>. DEFINE x == <<Parent(p), Name(p)>>
  <2>1. t.kind = "sync" /\ todo' \subseteq todo /\ db' \subseteq db \cup {x}
    BY <1>11 DEF SyncObject, SyncObjectFails, ReadyToSync
  <2>2. FilePath(x) = p
    BY <1>4 DEF FilePath
  <2>3. Clear(FilePath(x))
    BY <2>1, <2>2 DEF ClearOK
  <2>. HIDE DEF x, p
  <2>. QED BY <2>1, <2>3 DEF ClearOK
<1>. QED BY <1>1, <1>6, <1>7, <1>8, <1>9, <1>10, <1>11

KnownInv == ClearOK /\ KnownOK

\* The invariant of the records holds in every state.
LEMMA KnownInvariant == Spec => []KnownInv
<1>1. Init => KnownInv
  BY ClearAtFirst DEF Init, KnownInv, KnownOK
<1>2. StartInv /\ WalkInv /\ KnownInv /\ [Next]_vars => KnownInv'
  <2>. SUFFICES ASSUME StartInv, WalkInv, KnownInv, [Next]_vars PROVE KnownInv'
    OBVIOUS
  <2>. USE DEF KnownInv
  <2>1. CASE Start
    BY <2>1 DEF Start, ClearOK, KnownOK, Task
  <2>2. CASE List
    <3>1. PICK t \in todo : ListBucket(t)
      BY <2>2 DEF List
    <3>2. /\ t.kind = "name" /\ todo' = (todo \ {t}) \cup {Task("bucket", t.path)}
          /\ UNCHANGED <<pc, db, known, ids, found, faults>>
      BY <2>2, <3>1 DEF List, ListBucket, index, history, bounds
    <3>3. Len(t.path) = 1
      BY <2>2, <3>2 DEF List, WalkInv, Walking, TasksOK
    <3>4. Clear(t.path)
      BY <3>3 DEF Clear
    <3>. QED BY <3>2, <3>4 DEF ClearOK, KnownOK, Task
  <2>3. CASE Walk
    <3>1. ClearOK'
      BY <2>3, WalkKeepsClear DEF WalkInv, Walk
    <3>2. KnownOK'
      <4>1. PICK t \in todo :
               \/ OpenDir(t)
               \/ NormaliseDir(t) \/ NormaliseFile(t) \/ NormaliseGone(t) \/ NormaliseFails(t)
               \/ SyncObject(t) \/ SyncObjectFails(t)
        BY <2>3 DEF Walk
      <4>2. pc = "walk" /\ UNCHANGED <<pc, known>> /\ faults \in Nat
        BY <2>3, FaultsAreNat DEF Walk, history
      <4>3. CASE SyncObject(t)
        BY <4>2, <4>3 DEF SyncObject, Recorded, KnownOK
      <4>4. CASE SyncObjectFails(t)
        <5>1. faults' # 0
          BY <4>2, <4>4 DEF SyncObjectFails
        <5>. QED BY <4>2, <4>4, <5>1 DEF SyncObjectFails, KnownOK
      <4>5. CASE OpenDir(t) \/ NormaliseDir(t) \/ NormaliseFile(t)
                 \/ NormaliseGone(t) \/ NormaliseFails(t)
        <5>1. UNCHANGED <<db, ids, found>>
          BY <4>5 DEF OpenDir, NormaliseDir, NormaliseFile, NormaliseGone, NormaliseFails,
                      index
        <5>2. faults' = 0 => faults = 0
          BY <4>2, <4>5 DEF OpenDir, NormaliseDir, NormaliseFile, NormaliseGone,
                            NormaliseFails
        <5>. QED BY <4>2, <5>1, <5>2 DEF KnownOK
      <4>. QED BY <4>1, <4>3, <4>4, <4>5
    <3>. QED BY <3>1, <3>2
  <2>4. CASE Listed \/ Walked
    BY <2>4 DEF Listed, Walked, ClearOK, KnownOK, index, history, bounds
  <2>5. CASE Purge
    BY <2>5 DEF Purge, ClearOK, KnownOK
  <2>6. CASE Panic \/ PurgeFails \/ Crash
    BY <2>6 DEF Panic, Stop, PurgeFails, Crash, ClearOK, KnownOK
  <2>7. CASE User
    <3>1. UNCHANGED <<db, pc, todo, ids, found, known, faults>>
      BY <2>7 DEF User, AddFile, RemoveFile, AddDir, RemoveDir, AddRootFile,
                  RemoveRootFile, Act, index
    <3>. QED BY <3>1 DEF ClearOK, KnownOK
  <2>8. CASE UNCHANGED vars
    BY <2>8 DEF vars, index, history, bounds, ClearOK, KnownOK
  <2>. QED BY <2>1, <2>2, <2>3, <2>4, <2>5, <2>6, <2>7, <2>8 DEF Next, Service
<1>. QED BY <1>1, <1>2, StartInvariant, WalkInvariant, PTL DEF Spec

\* A record there was when the service started, of a file that has been there all the
\* time, is not deleted, as long as no lookup has failed: for every file system and
\* every number of crashes, and whatever users do to other files.
THEOREM RecordsStay == Spec => KnownRecordsStay
<1>1. StartInv /\ WalkInv /\ KnownInv /\ [Next]_vars =>
        [faults = 0 =>
            \A x \in known \cap db :
                x \in files /\ ~Touched(Append(x[1], x[2])) => x \in db']_db
  <2>. SUFFICES ASSUME StartInv, WalkInv, KnownInv, [Next]_vars, db' # db, faults = 0,
                       NEW x \in known \cap db, x \in files, ~Touched(FilePath(x))
                PROVE  x \in db'
    BY DEF FilePath
  <2>1. CASE Walk
    BY <2>1 DEF Walk, OpenDir, NormaliseDir, NormaliseFile, NormaliseGone, NormaliseFails,
                SyncObject, SyncObjectFails
  <2>2. CASE Purge
    <3>1. pc = "purge" /\ db' = db \cap ids
      BY <2>2 DEF Purge
    <3>2. todo = {} /\ Walking
      BY <3>1 DEF StartInv, StartOK, WalkInv
    <3>3. ~Due(FilePath(x))
      BY <3>2 DEF Due
    <3>4. Clear(FilePath(x))
      BY DEF KnownInv, ClearOK
    <3>5. ~Held(FilePath(x))
      BY <3>4 DEF Held, Clear
    <3>6. x \in found
      BY <3>2, <3>3, <3>5 DEF Walking, Covered, Coming
    <3>7. x \in ids
      BY <3>1, <3>6 DEF KnownInv, KnownOK
    <3>. QED BY <3>1, <3>7
  <2>3. CASE Start \/ List \/ Listed \/ Panic \/ Walked \/ PurgeFails \/ Crash
             \/ User \/ UNCHANGED vars
    <3>1. UNCHANGED db
      BY <2>3 DEF Start, List, Listed, Panic, Stop, Walked, PurgeFails, Crash, User,
                  AddFile, RemoveFile, AddDir, RemoveDir, AddRootFile, RemoveRootFile,
                  Act, vars
    <3>. QED BY <3>1
  <2>. QED BY <2>1, <2>2, <2>3 DEF Next, Service
<1>. QED BY <1>1, StartInvariant, WalkInvariant, KnownInvariant, PTL DEF Spec, KnownRecordsStay
=============================================================================
