------------------------- MODULE IndexMirrorsProofs -------------------------
(***************************************************************************)
(* What the proof that the index follows the directory stands on: what     *)
(* changes and events make of a tree, the prediction invariant FollowInv,  *)
(* that a tree goes on mirroring the directory when both are changed, and  *)
(* that the prediction grows with new events and shrinks with handled ones.*)
(***************************************************************************)
EXTENDS DirectoryIndexProofs

-----------------------------------------------------------------------------
(***************************************************************************)
(* What changes make of a tree.                                            *)
(***************************************************************************)
\* An event nothing is told of.
Nop == [type |-> "none"]

\* The manager's handle, for a change and for a question.
Do(t, c) == IF c.type \in {"none", "what_is"} THEN t ELSE Apply(t, c)

\* The changes s take the tree t to u, and none of them panics.
Ends(t, s, u) ==
    \E h : /\ h[0] = t /\ h[Len(s)] = u
           /\ \A i \in 1 .. Len(s) : h[i] = Do(h[i - 1], s[i]) /\ ~Panics(h[i - 1], s[i])

\* No change, one more, the first of them, one run of changes after another.
LEMMA EndsNone ==
    ASSUME NEW t
    PROVE  /\ Ends(t, <<>>, t)
           /\ \A u : Ends(t, <<>>, u) => u = t
<1>1. Ends(t, <<>>, t)
  <2>. DEFINE h == [i \in {0} |-> t]
  <2>1. /\ h[0] = t /\ h[Len(<<>>)] = t
        /\ \A i \in 1 .. Len(<<>>) :
              h[i] = Do(h[i - 1], <<>>[i]) /\ ~Panics(h[i - 1], <<>>[i])
    OBVIOUS
  <2>. QED BY <2>1 DEF Ends
<1>2. ASSUME NEW u, Ends(t, <<>>, u) PROVE u = t
  BY <1>2 DEF Ends
<1>. QED BY <1>1, <1>2

LEMMA EndsBoth ==
    ASSUME NEW S, NEW s \in Seq(S), NEW r \in Seq(S), NEW t, NEW v, NEW u,
           Ends(t, s, v), Ends(v, r, u)
    PROVE  Ends(t, s \o r, u)
<1>1. PICK h : /\ h[0] = t /\ h[Len(s)] = v
               /\ \A i \in 1 .. Len(s) :
                     h[i] = Do(h[i - 1], s[i]) /\ ~Panics(h[i - 1], s[i])
  BY DEF Ends
<1>2. PICK k : /\ k[0] = v /\ k[Len(r)] = u
               /\ \A i \in 1 .. Len(r) :
                     k[i] = Do(k[i - 1], r[i]) /\ ~Panics(k[i - 1], r[i])
  BY DEF Ends
<1>. DEFINE n == Len(s)
            m == Len(r)
            q == s \o r
            g == [i \in 0 .. n + m |-> IF i <= n THEN h[i] ELSE k[i - n]]
<1>3. /\ n \in Nat /\ m \in Nat /\ Len(q) = n + m
      /\ \A i \in 1 .. n + m : q[i] = IF i <= n THEN s[i] ELSE r[i - n]
  BY ConcatProperties
<1>. HIDE DEF n, m, q
<1>4. \A i \in 0 .. n + m : g[i] = IF i <= n THEN h[i] ELSE k[i - n]
  OBVIOUS
<1>. HIDE DEF g
<1>5. g[0] = t
  BY <1>1, <1>3, <1>4
<1>6. g[n + m] = u
  <2>1. CASE m = 0
    BY <1>1, <1>2, <1>3, <1>4, <2>1 DEF n, m
  <2>2. CASE m # 0
    <3>1. n + m \in 0 .. n + m /\ ~(n + m <= n) /\ (n + m) - n = m
      BY <1>3, <2>2
    <3>. QED BY <1>2, <1>4, <3>1 DEF m
  <2>. QED BY <2>1, <2>2
<1>7. ASSUME NEW i \in 1 .. n + m
      PROVE  g[i] = Do(g[i - 1], q[i]) /\ ~Panics(g[i - 1], q[i])
  <2>0. i - 1 \in 0 .. n + m /\ i \in 0 .. n + m
    BY <1>3
  <2>1. CASE i <= n
    <3>1. i \in 1 .. n /\ i - 1 <= n
      BY <1>3, <2>1
    <3>2. g[i] = h[i] /\ g[i - 1] = h[i - 1] /\ q[i] = s[i]
      BY <1>3, <1>4, <2>0, <2>1, <3>1
    <3>. QED BY <1>1, <3>1, <3>2 DEF n
  <2>2. CASE ~(i <= n)
    <3>. DEFINE j == i - n
    <3>1. j \in 1 .. m /\ (i - 1) - n = j - 1
      BY <1>3, <2>2
    <3>2. g[i] = k[j] /\ q[i] = r[j]
      BY <1>3, <1>4, <2>0, <2>2
    <3>3. g[i - 1] = k[j - 1]
      <4>1. CASE i - 1 <= n
        <5>1. i - 1 = n /\ j - 1 = 0
          BY <1>3, <2>2, <4>1
        <5>2. g[i - 1] = h[n]
          BY <1>4, <2>0, <5>1, <4>1
        <5>. QED BY <1>1, <1>2, <5>1, <5>2 DEF n
      <4>2. CASE ~(i - 1 <= n)
        BY <1>4, <2>0, <3>1, <4>2
      <4>. QED BY <4>1, <4>2
    <3>. HIDE DEF j
    <3>. QED BY <1>2, <3>1, <3>2, <3>3 DEF m
  <2>. QED BY <2>1, <2>2
<1>. QED BY <1>3, <1>5, <1>6, <1>7 DEF Ends, q

LEMMA EndsOne ==
    ASSUME NEW t, NEW c, ~Panics(t, c)
    PROVE  Ends(t, <<c>>, Do(t, c))
<1>. DEFINE s == <<c>>
            h == [i \in {0, 1} |-> IF i = 0 THEN t ELSE Do(t, c)]
<1>1. Len(s) = 1 /\ s[1] = c /\ h[0] = t /\ h[1] = Do(t, c)
  OBVIOUS
<1>. HIDE DEF s, h
<1>2. /\ h[0] = t /\ h[Len(s)] = Do(t, c)
      /\ \A i \in 1 .. Len(s) : h[i] = Do(h[i - 1], s[i]) /\ ~Panics(h[i - 1], s[i])
  BY <1>1
<1>3. Ends(t, s, Do(t, c))
  BY <1>2 DEF Ends
<1>. QED BY <1>3 DEF s

LEMMA EndsMore ==
    ASSUME NEW S, NEW s \in Seq(S), NEW c \in S, NEW t, NEW u,
           Ends(t, s, u), ~Panics(u, c)
    PROVE  Ends(t, Append(s, c), Do(u, c))
<1>1. <<c>> \in Seq(S) /\ Append(s, c) = s \o <<c>>
  OBVIOUS
<1>2. Ends(u, <<c>>, Do(u, c))
  BY EndsOne
<1>. QED BY <1>1, <1>2, EndsBoth

LEMMA EndsFirst ==
    ASSUME NEW S, NEW s \in Seq(S), s # <<>>, NEW t, NEW u, Ends(t, s, u)
    PROVE  ~Panics(t, Head(s)) /\ Ends(Do(t, Head(s)), Tail(s), u)
<1>1. PICK h : /\ h[0] = t /\ h[Len(s)] = u
               /\ \A i \in 1 .. Len(s) :
                     h[i] = Do(h[i - 1], s[i]) /\ ~Panics(h[i - 1], s[i])
  BY DEF Ends
<1>. DEFINE n == Len(s)
            r == Tail(s)
            g == [i \in 0 .. n - 1 |-> h[i + 1]]
<1>2. /\ n \in Nat /\ n # 0 /\ Len(r) = n - 1 /\ Head(s) = s[1]
      /\ \A i \in 1 .. n - 1 : r[i] = s[i + 1]
  OBVIOUS
<1>. HIDE DEF n, r
<1>3. \A i \in 0 .. n - 1 : g[i] = h[i + 1]
  OBVIOUS
<1>. HIDE DEF g
<1>4. 1 \in 1 .. n
  BY <1>2
<1>5. h[1] = Do(t, Head(s)) /\ ~Panics(t, Head(s))
  BY <1>1, <1>2, <1>4 DEF n
<1>6. g[0] = Do(t, Head(s)) /\ g[Len(r)] = u
  <2>1. 0 \in 0 .. n - 1 /\ n - 1 \in 0 .. n - 1 /\ 0 + 1 = 1 /\ (n - 1) + 1 = n
    BY <1>2
  <2>. QED BY <1>1, <1>2, <1>3, <1>5, <2>1 DEF n
<1>7. ASSUME NEW i \in 1 .. Len(r)
      PROVE  g[i] = Do(g[i - 1], r[i]) /\ ~Panics(g[i - 1], r[i])
  <2>1. /\ i \in 0 .. n - 1 /\ i - 1 \in 0 .. n - 1 /\ i \in 1 .. n - 1
        /\ (i - 1) + 1 = i /\ i + 1 \in 1 .. n /\ (i + 1) - 1 = i
    BY <1>2
  <2>2. g[i] = h[i + 1] /\ g[i - 1] = h[i] /\ r[i] = s[i + 1]
    BY <1>2, <1>3, <2>1
  <2>. QED BY <1>1, <2>1, <2>2 DEF n
<1>8. Ends(Do(t, Head(s)), r, u)
  BY <1>6, <1>7 DEF Ends
<1>. QED BY <1>5, <1>8 DEF r

\* Changes that change nothing.
LEMMA EndsIdle ==
    ASSUME NEW s, Len(s) \in Nat, NEW u,
           \A i \in 1 .. Len(s) : Do(u, s[i]) = u /\ ~Panics(u, s[i])
    PROVE  Ends(u, s, u)
<1>. DEFINE h == [i \in 0 .. Len(s) |-> u]
<1>1. \A i \in 0 .. Len(s) : h[i] = u
  OBVIOUS
<1>. HIDE DEF h
<1>2. /\ h[0] = u /\ h[Len(s)] = u
      /\ \A i \in 1 .. Len(s) : h[i] = Do(h[i - 1], s[i]) /\ ~Panics(h[i - 1], s[i])
  <2>1. \A i \in 1 .. Len(s) : i \in 0 .. Len(s) /\ i - 1 \in 0 .. Len(s)
    OBVIOUS
  <2>. QED BY <1>1, <2>1
<1>. QED BY <1>2 DEF Ends

-----------------------------------------------------------------------------
(***************************************************************************)
(* What an event the watcher has not handled will tell the manager, when   *)
(* the files U, whose names are not allowed, are gone by then.             *)
(***************************************************************************)
EOp(x, U) ==
    IF x.kind = "create_folder" THEN NewFolder(x.path)
    ELSE IF x.kind = "remove_folder"
         THEN IF Len(x.path) = 1 THEN [type |-> "delete_bucket", bucket |-> x.path[1]]
              ELSE [type |-> "delete_key", at |-> x.path]
    ELSE IF x.kind = "remove_file"
         THEN [type |-> "delete_object", at |-> x.path, name |-> Name(x.path)]
    ELSE IF x.kind = "create_file" /\ Len(x.path) > 1 /\ x.path \notin U
         THEN [type |-> "new_object", at |-> Parent(x.path), name |-> Norm[Name(x.path)]]
    ELSE IF x.kind = "both" /\ Name(x.from) \in FileNames
         THEN [type |-> "name_object", at |-> Parent(x.to),
               from |-> Name(x.from), to |-> Name(x.to)]
    ELSE Nop

Ops(s, U) == [i \in DOMAIN s |-> EOp(s[i], U)]

OpSet(U) == {EOp(x, U) : x \in Events}

LEMMA OpsParts ==
    ASSUME NEW s \in Seq(Events), NEW U
    PROVE  /\ Ops(s, U) \in Seq(OpSet(U)) /\ Len(Ops(s, U)) = Len(s)
           /\ \A i \in 1 .. Len(s) : Ops(s, U)[i] = EOp(s[i], U)
           /\ s # <<>> =>
                 /\ Ops(s, U) # <<>> /\ Head(Ops(s, U)) = EOp(Head(s), U)
                 /\ Tail(Ops(s, U)) = Ops(Tail(s), U)
<1>1. DOMAIN s = 1 .. Len(s) /\ Len(s) \in Nat /\ \A i \in DOMAIN s : s[i] \in Events
  OBVIOUS
<1>2. /\ Ops(s, U) \in Seq(OpSet(U)) /\ Len(Ops(s, U)) = Len(s)
      /\ \A i \in 1 .. Len(s) : Ops(s, U)[i] = EOp(s[i], U)
  <2>1. \A i \in 1 .. Len(s) : EOp(s[i], U) \in OpSet(U)
    BY <1>1 DEF OpSet
  <2>. DEFINE f == [i \in 1 .. Len(s) |-> EOp(s[i], U)]
  <2>2. f \in Seq(OpSet(U)) /\ Len(f) = Len(s) /\ \A i \in 1 .. Len(s) : f[i] = EOp(s[i], U)
    BY <1>1, <2>1
  <2>3. f = Ops(s, U)
    BY <1>1 DEF Ops
  <2>. QED BY <2>2, <2>3
<1>3. ASSUME s # <<>>
      PROVE  /\ Ops(s, U) # <<>> /\ Head(Ops(s, U)) = EOp(Head(s), U)
             /\ Tail(Ops(s, U)) = Ops(Tail(s), U)
  <2>1. /\ Len(s) # 0 /\ Tail(s) \in Seq(Events) /\ Len(Tail(s)) = Len(s) - 1
        /\ \A i \in 1 .. Len(s) - 1 : Tail(s)[i] = s[i + 1] /\ i + 1 \in 1 .. Len(s)
        /\ Head(s) = s[1] /\ DOMAIN Tail(s) = 1 .. Len(s) - 1
    BY <1>1, <1>3
  <2>. DEFINE o == Ops(s, U)
  <2>2. o \in Seq(OpSet(U)) /\ Len(o) = Len(s) /\ \A i \in 1 .. Len(s) : o[i] = EOp(s[i], U)
    BY <1>2
  <2>3. Ops(Tail(s), U) = [i \in 1 .. Len(s) - 1 |-> EOp(Tail(s)[i], U)]
    BY <2>1 DEF Ops
  <2>. HIDE DEF o
  <2>4. o # <<>> /\ Head(o) = o[1] /\ 1 \in 1 .. Len(s)
    BY <1>1, <2>1, <2>2
  <2>. DEFINE a == Tail(o)
              b == Ops(Tail(s), U)
  <2>5. /\ a \in Seq(OpSet(U)) /\ Len(a) = Len(s) - 1
        /\ \A i \in 1 .. Len(s) - 1 : a[i] = o[i + 1]
    BY <1>1, <2>2, <2>4
  <2>50. /\ b \in Seq(OpSet(U)) /\ Len(b) = Len(s) - 1
         /\ \A i \in 1 .. Len(s) - 1 : b[i] = EOp(Tail(s)[i], U)
    <3>1. \A i \in 1 .. Len(s) - 1 : EOp(Tail(s)[i], U) \in OpSet(U)
      BY <1>1, <2>1 DEF OpSet
    <3>2. Len(s) - 1 \in Nat
      BY <1>1, <2>1
    <3>. QED BY <2>3, <3>1, <3>2
  <2>. HIDE DEF a, b
  <2>51. \A i \in 1 .. Len(a) : a[i] = b[i]
    BY <2>1, <2>2, <2>5, <2>50
  <2>52. a = b
    BY <2>5, <2>50, <2>51, SeqEqual
  <2>6. Tail(o) = Ops(Tail(s), U)
    BY <2>52 DEF a, b
  <2>. QED BY <2>1, <2>2, <2>4, <2>6 DEF o
<1>. QED BY <1>2, <1>3

LEMMA OpsJoined ==
    ASSUME NEW s \in Seq(Events), NEW r \in Seq(Events), NEW U
    PROVE  Ops(s \o r, U) = Ops(s, U) \o Ops(r, U)
<1>. DEFINE q == s \o r
            a == Ops(s, U)
            b == Ops(r, U)
            c == Ops(q, U)
<1>1. /\ q \in Seq(Events) /\ Len(q) = Len(s) + Len(r) /\ Len(s) \in Nat /\ Len(r) \in Nat
      /\ \A i \in 1 .. Len(s) + Len(r) : q[i] = IF i <= Len(s) THEN s[i] ELSE r[i - Len(s)]
  BY ConcatProperties
<1>. HIDE DEF q
<1>2. /\ a \in Seq(OpSet(U)) /\ Len(a) = Len(s) /\ \A i \in 1 .. Len(s) : a[i] = EOp(s[i], U)
      /\ b \in Seq(OpSet(U)) /\ Len(b) = Len(r) /\ \A i \in 1 .. Len(r) : b[i] = EOp(r[i], U)
      /\ c \in Seq(OpSet(U)) /\ Len(c) = Len(q) /\ \A i \in 1 .. Len(q) : c[i] = EOp(q[i], U)
  BY <1>1, OpsParts
<1>. HIDE DEF a, b, c
<1>3. /\ a \o b \in Seq(OpSet(U)) /\ Len(a \o b) = Len(s) + Len(r)
      /\ \A i \in 1 .. Len(s) + Len(r) : (a \o b)[i] = IF i <= Len(s) THEN a[i] ELSE b[i - Len(s)]
  <2>1. a \in Seq(OpSet(U)) /\ b \in Seq(OpSet(U)) /\ Len(a) = Len(s) /\ Len(b) = Len(r)
    BY <1>2
  <2>2. /\ a \o b \in Seq(OpSet(U)) /\ Len(a \o b) = Len(a) + Len(b)
        /\ \A i \in 1 .. Len(a) + Len(b) : (a \o b)[i] = IF i <= Len(a) THEN a[i] ELSE b[i - Len(a)]
    BY <2>1, ConcatProperties
  <2>. QED BY <2>1, <2>2
<1>4. ASSUME NEW i \in 1 .. Len(s) + Len(r) PROVE (a \o b)[i] = c[i]
  <2>1. CASE i <= Len(s)
    BY <1>1, <1>2, <1>3, <2>1
  <2>2. CASE ~(i <= Len(s))
    <3>1. i - Len(s) \in 1 .. Len(r)
      BY <1>1, <2>2
    <3>. QED BY <1>1, <1>2, <1>3, <2>2, <3>1
  <2>. QED BY <2>1, <2>2
<1>. DEFINE d == a \o b
<1>5. /\ d \in Seq(OpSet(U)) /\ c \in Seq(OpSet(U)) /\ Len(d) = Len(c)
      /\ \A i \in 1 .. Len(d) : d[i] = c[i]
  BY <1>1, <1>2, <1>3, <1>4
<1>. HIDE DEF d
<1>6. d = c
  BY <1>5, SeqEqual
<1>. QED BY <1>6 DEF a, b, c, d, q

-----------------------------------------------------------------------------
(***************************************************************************)
(* Trees with allowed file names only, which changes keep.                 *)
(***************************************************************************)
Good(t) == TreeOK(t) /\ \A d \in DOMAIN t : t[d].objects \in Seq(FileNames)

\* What MoveEntry makes of a tree: every path below the first one is moved.
LEMMA MoveFacts ==
    ASSUME NEW t, TreeOK(t), NEW from \in DOMAIN t, NEW to \in PathLike,
           Parent(to) = Parent(from), to \notin DOMAIN t \/ to = from
    PROVE  /\ DOMAIN MoveEntry(t, from, to) = {Moved(x, from, to) : x \in DOMAIN t}
           /\ \A x \in DOMAIN t : MoveEntry(t, from, to)[Moved(x, from, to)] = t[x]
<1>. DEFINE kept == {q \in DOMAIN t : ~Under(from, q) /\ ~Under(to, q)}
            below == {r \in DOMAIN t : Under(from, r)}
            moved == {Rebase(q, from, to) : q \in below}
            u == MoveEntry(t, from, to)
<1>1. /\ DOMAIN u = kept \cup moved
      /\ \A q \in DOMAIN u : u[q] = IF q \in moved THEN t[Rebase(q, to, from)] ELSE t[q]
  BY DEF MoveEntry
<1>2. /\ \A q \in DOMAIN t : q \in PathLike /\ q \in Seq(Segs)
      /\ from \in Seq(Segs) /\ to \in Seq(Segs)
  BY PathParts DEF TreeOK, Hung
<1>3. ASSUME NEW x \in DOMAIN t, Under(to, x), ~Under(from, x) PROVE FALSE
  <2>1. Nested(t)
    BY HungIsNested DEF TreeOK
  <2>2. to # from
    BY <1>3
  <2>3. to \notin DOMAIN t
    BY <2>2
  <2>4. Len(to) \in 1 .. Len(x) /\ Len(x) \in Nat /\ SubSeq(x, 1, Len(to)) = to
    BY <1>2, <1>3, PathParts DEF Under
  <2>5. CASE Len(to) = Len(x)
    <3>1. x = to
      BY <1>2, <1>3, <2>5, UnderOrder
    <3>. QED BY <2>3, <3>1
  <2>6. CASE Len(to) # Len(x)
    <3>1. Len(to) \in 1 .. Len(x) - 1
      BY <2>4, <2>6
    <3>2. SubSeq(x, 1, Len(to)) \in DOMAIN t
      BY <2>1, <3>1 DEF Nested
    <3>. QED BY <2>3, <2>4, <3>2
  <2>. QED BY <2>5, <2>6
<1>4. \A x \in below : /\ Rebase(x, from, to) = Moved(x, from, to) /\ Rebase(x, from, to) \in moved
                       /\ Rebase(Rebase(x, from, to), to, from) = x
                       /\ Under(to, Rebase(x, from, to))
  BY <1>2, RebaseBack, RebaseFacts DEF Moved
<1>5. \A q \in moved : \E x \in below : q = Rebase(x, from, to)
  OBVIOUS
<1>6. \A x \in DOMAIN t : x \in below \/ (x \in kept /\ Moved(x, from, to) = x)
  BY <1>3 DEF Moved
<1>7. \A x \in kept : x \in DOMAIN t /\ ~Under(to, x) /\ ~Under(from, x) /\ Moved(x, from, to) = x
  BY DEF Moved
<1>8. below \subseteq DOMAIN t
  OBVIOUS
<1>. HIDE DEF kept, below, moved, u
<1>9. \A x \in kept : x \notin moved
  BY <1>4, <1>5, <1>7
<1>10. \A x \in DOMAIN t : Moved(x, from, to) \in DOMAIN u /\ u[Moved(x, from, to)] = t[x]
  <2>. SUFFICES ASSUME NEW x \in DOMAIN t
                PROVE  Moved(x, from, to) \in DOMAIN u /\ u[Moved(x, from, to)] = t[x]
    OBVIOUS
  <2>1. CASE x \in below
    BY <1>1, <1>4, <2>1
  <2>2. CASE x \in kept /\ Moved(x, from, to) = x
    BY <1>1, <1>9, <2>2
  <2>. QED BY <1>6, <2>1, <2>2
<1>11. \A q \in DOMAIN u : \E x \in DOMAIN t : q = Moved(x, from, to)
  BY <1>1, <1>4, <1>5, <1>7, <1>8
<1>12. DOMAIN u = {Moved(x, from, to) : x \in DOMAIN t}
  BY <1>10, <1>11
<1>. QED BY <1>10, <1>12 DEF u

\* Of any move the entries are those there were.
LEMMA MoveEntries ==
    ASSUME NEW t, TreeOK(t), NEW from \in DOMAIN t, NEW to \in PathLike,
           NEW q \in DOMAIN MoveEntry(t, from, to)
    PROVE  \E x \in DOMAIN t : MoveEntry(t, from, to)[q] = t[x]
<1>. DEFINE kept == {r \in DOMAIN t : ~Under(from, r) /\ ~Under(to, r)}
            below == {r \in DOMAIN t : Under(from, r)}
            moved == {Rebase(r, from, to) : r \in below}
            u == MoveEntry(t, from, to)
<1>1. /\ q \in kept \cup moved
      /\ u[q] = IF q \in moved THEN t[Rebase(q, to, from)] ELSE t[q]
  BY DEF MoveEntry
<1>2. /\ \A r \in DOMAIN t : r \in Seq(Segs)
      /\ from \in Seq(Segs) /\ to \in Seq(Segs)
  BY PathParts DEF TreeOK, Hung
<1>3. CASE q \in moved
  <2>1. PICK x \in below : q = Rebase(x, from, to)
    BY <1>3
  <2>2. Rebase(q, to, from) = x /\ x \in DOMAIN t
    BY <1>2, <2>1, RebaseBack
  <2>. HIDE DEF u, moved
  <2>3. u[q] = t[x]
    BY <1>1, <1>3, <2>2
  <2>. QED BY <2>2, <2>3 DEF u
<1>4. CASE q \notin moved
  <2>1. q \in DOMAIN t
    BY <1>1, <1>4
  <2>. HIDE DEF u, moved
  <2>2. u[q] = t[q]
    BY <1>1, <1>4
  <2>. QED BY <2>1, <2>2 DEF u
<1>. QED BY <1>3, <1>4

LEMMA WithObjectsFacts ==
    ASSUME NEW t, TreeOK(t), NEW p \in DOMAIN t, NEW v
    PROVE  /\ DOMAIN WithObjects(t, p, v) = DOMAIN t
           /\ WithObjects(t, p, v)[p].objects = v
           /\ \A q \in DOMAIN t : q # p => WithObjects(t, p, v)[q] = t[q]
<1>. DEFINE u == WithObjects(t, p, v)
<1>1. t[p] = [objects |-> t[p].objects, keys |-> t[p].keys]
  BY DEF TreeOK, Entries
<1>2. [t[p] EXCEPT !.objects = v] = [objects |-> v, keys |-> t[p].keys]
  BY <1>1
<1>3. /\ DOMAIN u = DOMAIN t
      /\ \A q \in DOMAIN t : u[q] = IF q = p THEN [t[p] EXCEPT !.objects = v] ELSE t[q]
  BY DEF WithObjects
<1>. HIDE DEF u
<1>4. u[p] = [objects |-> v, keys |-> t[p].keys]
  BY <1>2, <1>3
<1>. QED BY <1>3, <1>4 DEF u

LEMMA GoodWith ==
    ASSUME NEW t, Good(t), NEW p \in DOMAIN t, NEW v \in Seq(FileNames)
    PROVE  Good(WithObjects(t, p, v))
BY WithObjectsFacts, WithObjectsKeeps DEF Good

LEMMA GoodOrDefault ==
    ASSUME NEW t, Good(t), NEW p \in PathLike,
           Len(p) > 1 => Parent(p) \in DOMAIN t /\ t[Parent(p)].keys
    PROVE  Good(OrDefault(t, p))
<1>. DEFINE u == OrDefault(t, p)
<1>1. /\ DOMAIN u = DOMAIN t \cup {p}
      /\ \A q \in DOMAIN t : u[q] = t[q]
      /\ p \notin DOMAIN t => u[p].objects = <<>>
  BY DEF OrDefault, EmptyEntry
<1>2. TreeOK(u)
  BY OrDefaultKeeps DEF Good
<1>. HIDE DEF u
<1>3. <<>> \in Seq(FileNames)
  OBVIOUS
<1>4. Good(u)
  BY <1>1, <1>2, <1>3 DEF Good
<1>. QED BY <1>4 DEF u

LEMMA GoodRemove ==
    ASSUME NEW t, Good(t), NEW p \in PathLike
    PROVE  Good(RemoveEntry(t, p))
<1>1. /\ DOMAIN RemoveEntry(t, p) = {q \in DOMAIN t : ~Under(p, q)}
      /\ \A q \in DOMAIN RemoveEntry(t, p) : RemoveEntry(t, p)[q] = t[q]
  BY DEF RemoveEntry
<1>. QED BY <1>1, RemoveKeeps DEF Good

LEMMA GoodMove ==
    ASSUME NEW t, Good(t), NEW from \in DOMAIN t, NEW to \in PathLike,
           Parent(to) = Parent(from)
    PROVE  Good(MoveEntry(t, from, to))
BY MoveKeeps, MoveEntries DEF Good

\* Where IndexOf finds a name, and what the list is with another one there.
LEMMA RenamedObjects ==
    ASSUME NEW s \in Seq(FileNames), NEW f, Holds(s, f), NEW g \in FileNames
    PROVE  /\ IndexOf(s, f) \in 1 .. Len(s) /\ s[IndexOf(s, f)] = f
           /\ [s EXCEPT ![IndexOf(s, f)] = g] \in Seq(FileNames)
<1>. DEFINE T == {i \in DOMAIN s : s[i] = f}
<1>1. T \in SUBSET Nat /\ T # {} /\ DOMAIN s = 1 .. Len(s)
  BY DEF Holds
<1>2. PICK m \in T : \A k \in T : m <= k
  BY <1>1, LeastNumber
<1>3. /\ m \in DOMAIN s /\ s[m] = f
      /\ \A j \in 1 .. m - 1 : s[j] # f
  BY <1>1, <1>2
<1>4. /\ IndexOf(s, f) \in DOMAIN s /\ s[IndexOf(s, f)] = f
  BY <1>3 DEF IndexOf
<1>. DEFINE i == IndexOf(s, f)
<1>. HIDE DEF i
<1>5. i \in 1 .. Len(s)
  BY <1>1, <1>4 DEF i
<1>6. [s EXCEPT ![i] = g] \in Seq(FileNames)
  BY <1>5
<1>. QED BY <1>4, <1>5, <1>6 DEF i

LEMMA RemovedObject ==
    ASSUME NEW s \in Seq(FileNames), NEW f, Holds(s, f)
    PROVE  SwapRemove(s, IndexOf(s, f)) \in Seq(FileNames)
<1>1. Len(s) \in Nat \ {0} /\ \A j \in 1 .. Len(s) : s[j] \in FileNames
  BY DEF Holds
<1>. DEFINE i == IndexOf(s, f)
            r == [j \in 1 .. Len(s) - 1 |-> IF j = i THEN s[Len(s)] ELSE s[j]]
<1>2. \A j \in 1 .. Len(s) - 1 : (IF j = i THEN s[Len(s)] ELSE s[j]) \in FileNames
  BY <1>1
<1>. HIDE DEF i
<1>3. r \in Seq(FileNames)
  BY <1>1, <1>2
<1>. QED BY <1>3 DEF SwapRemove, i

\* A change with allowed file names leaves these.
LEMMA ApplyIsGood ==
    ASSUME NEW t, Good(t), NEW c \in Messages, c.type # "what_is", ~Panics(t, c),
           c.type = "new_object" => c.name \in FileNames,
           c.type = "name_object" => c.to \in FileNames
    PROVE  Good(Apply(t, c))
<1>0. TreeOK(t) /\ \A p \in DOMAIN t : p \in PathLike /\ t[p].objects \in Seq(FileNames)
  BY DEF Good, TreeOK, Hung
<1>1. CASE c.type = "new_object"
  <2>1. Apply(t, c) = TreeNewObject(t, c.at, c.name)
    BY <1>1 DEF Apply
  <2>. DEFINE v == Append(t[c.at].objects, c.name)
  <2>2. Apply(t, c) = IF c.at \in DOMAIN t THEN WithObjects(t, c.at, v) ELSE t
    BY <2>1 DEF TreeNewObject, WithObjects
  <2>3. c.at \in DOMAIN t => v \in Seq(FileNames)
    BY <1>0, <1>1
  <2>. HIDE DEF v
  <2>. QED BY <2>2, <2>3, GoodWith
<1>2. CASE c.type = "name_object"
  <2>1. Apply(t, c) = TreeNameObject(t, c.at, c.from, c.to)
    BY <1>2 DEF Apply
  <2>2. CASE c.at \in DOMAIN t /\ Holds(t[c.at].objects, c.from)
    <3>. DEFINE v == [t[c.at].objects EXCEPT ![IndexOf(t[c.at].objects, c.from)] = c.to]
    <3>1. Apply(t, c) = WithObjects(t, c.at, v)
      BY <2>1, <2>2 DEF TreeNameObject, WithObjects
    <3>2. v \in Seq(FileNames)
      BY <1>0, <1>2, <2>2, RenamedObjects
    <3>. HIDE DEF v
    <3>. QED BY <2>2, <3>1, <3>2, GoodWith
  <2>. QED BY <2>1, <2>2 DEF TreeNameObject
<1>3. CASE c.type = "delete_object"
  <2>1. Apply(t, c) = TreeDeleteObject(t, c.at, c.name)
    BY <1>3 DEF Apply
  <2>2. CASE c.at \in DOMAIN t /\ Holds(t[c.at].objects, c.name)
    <3>. DEFINE v == SwapRemove(t[c.at].objects, IndexOf(t[c.at].objects, c.name))
    <3>1. Apply(t, c) = WithObjects(t, c.at, v)
      BY <2>1, <2>2 DEF TreeDeleteObject, WithObjects
    <3>2. v \in Seq(FileNames)
      BY <1>0, <2>2, RemovedObject
    <3>. HIDE DEF v
    <3>. QED BY <2>2, <3>1, <3>2, GoodWith
  <2>. QED BY <2>1, <2>2 DEF TreeDeleteObject
<1>4. CASE c.type = "new_bucket"
  <2>1. Apply(t, c) = OrDefault(t, <<c.bucket>>)
    BY <1>4 DEF Apply, TreeNewBucket
  <2>2. <<c.bucket>> \in PathLike /\ ~(Len(<<c.bucket>>) > 1)
    BY <1>4, MessageFacts, BucketIsPath
  <2>. QED BY <2>1, <2>2, GoodOrDefault
<1>5. CASE c.type = "delete_bucket"
  <2>1. Apply(t, c) = RemoveEntry(t, <<c.bucket>>)
    BY <1>5 DEF Apply, TreeDeleteBucket
  <2>2. <<c.bucket>> \in PathLike
    BY <1>5, MessageFacts, BucketIsPath
  <2>. QED BY <2>1, <2>2, GoodRemove
<1>6. CASE c.type = "name_bucket"
  <2>1. Apply(t, c) = IF <<c.from>> \in DOMAIN t THEN MoveEntry(t, <<c.from>>, <<c.to>>) ELSE t
    BY <1>6 DEF Apply, TreeNameBucket
  <2>2. <<c.to>> \in PathLike /\ Parent(<<c.to>>) = Parent(<<c.from>>)
    BY <1>6, MessageFacts, BucketIsPath
  <2>. QED BY <2>1, <2>2, GoodMove
<1>7. CASE c.type = "new_key"
  <2>1. Apply(t, c) = IF Parent(c.at) \in DOMAIN t THEN OrDefault(t, c.at) ELSE t
    BY <1>7 DEF Apply, TreeNewKey
  <2>2. c.at \in PathLike /\ (Parent(c.at) \in DOMAIN t => t[Parent(c.at)].keys)
    BY <1>7, MessageFacts DEF Panics
  <2>. QED BY <2>1, <2>2, GoodOrDefault
<1>8. CASE c.type = "delete_key"
  <2>1. Apply(t, c) = IF Parent(c.at) \in DOMAIN t THEN RemoveEntry(t, c.at) ELSE t
    BY <1>8 DEF Apply, TreeDeleteKey
  <2>2. c.at \in PathLike
    BY <1>8, MessageFacts
  <2>. QED BY <2>1, <2>2, GoodRemove
<1>9. CASE c.type = "name_key"
  <2>. DEFINE new == Append(Parent(c.at), c.to)
  <2>1. Apply(t, c) = IF Parent(c.at) \notin DOMAIN t \/ new \in DOMAIN t
                      THEN t
                      ELSE IF c.at \in DOMAIN t THEN MoveEntry(t, c.at, new) ELSE OrDefault(t, new)
    BY <1>9 DEF Apply, TreeNameKey
  <2>2. /\ c.at \in PathLike /\ c.to \in Segs
        /\ Parent(c.at) \in DOMAIN t => t[Parent(c.at)].keys
    BY <1>9, MessageFacts DEF Panics
  <2>3. new \in PathLike /\ Parent(new) = Parent(c.at)
    BY <2>2, RenamedParts
  <2>. HIDE DEF new
  <2>. QED BY <2>1, <2>2, <2>3, GoodMove, GoodOrDefault
<1>. QED BY <1>1, <1>2, <1>3, <1>4, <1>5, <1>6, <1>7, <1>8, <1>9, MessageFacts

-----------------------------------------------------------------------------
(***************************************************************************)
(* A list that holds each name of a set once.                              *)
(***************************************************************************)
Lists(s, S) == NoDuplicates(s) /\ {s[i] : i \in DOMAIN s} = S

LEMMA ListsMore ==
    ASSUME NEW s \in Seq(FileNames), NEW S, Lists(s, S), NEW n \in FileNames, n \notin S
    PROVE  Lists(Append(s, n), S \cup {n})
<1>. DEFINE r == Append(s, n)
<1>1. /\ DOMAIN s = 1 .. Len(s) /\ Len(s) \in Nat
      /\ DOMAIN r = 1 .. Len(s) + 1 /\ r[Len(s) + 1] = n
      /\ \A i \in 1 .. Len(s) : r[i] = s[i] /\ s[i] \in S
  BY DEF Lists
<1>. HIDE DEF r
<1>2. NoDuplicates(r)
  BY <1>1 DEF NoDuplicates, Lists
<1>3. \A x \in S : \E i \in DOMAIN s : x = s[i]
  BY DEF Lists
<1>4. \A x \in S \cup {n} : \E i \in DOMAIN r : x = r[i]
  BY <1>1, <1>3
<1>5. \A i \in DOMAIN r : r[i] \in S \cup {n}
  BY <1>1
<1>6. {r[i] : i \in DOMAIN r} = S \cup {n}
  BY <1>4, <1>5
<1>. QED BY <1>2, <1>6 DEF Lists, r

LEMMA ListsRenamed ==
    ASSUME NEW s \in Seq(FileNames), NEW S, Lists(s, S), NEW f \in S,
           NEW g \in FileNames, g \notin S \ {f}
    PROVE  /\ Holds(s, f)
           /\ Lists([s EXCEPT ![IndexOf(s, f)] = g], (S \ {f}) \cup {g})
<1>. DEFINE k == IndexOf(s, f)
            r == [s EXCEPT ![k] = g]
<1>1. Holds(s, f)
  BY DEF Holds, Lists
<1>2. k \in 1 .. Len(s) /\ s[k] = f
  BY <1>1, RenamedObjects
<1>. HIDE DEF k
<1>3. /\ DOMAIN s = 1 .. Len(s) /\ DOMAIN r = DOMAIN s
      /\ \A i \in DOMAIN s : r[i] = IF i = k THEN g ELSE s[i]
  OBVIOUS
<1>. HIDE DEF r
<1>4. \A i, j \in DOMAIN s : s[i] = s[j] => i = j
  BY DEF Lists, NoDuplicates
<1>5. /\ \A i \in DOMAIN s : s[i] \in S
      /\ \A x \in S : \E i \in DOMAIN s : x = s[i]
  BY DEF Lists
<1>6. \A i \in DOMAIN s : i # k => s[i] # f /\ s[i] \in S \ {f}
  BY <1>2, <1>3, <1>4, <1>5
<1>7. NoDuplicates(r)
  BY <1>3, <1>4, <1>6 DEF NoDuplicates
<1>8. \A i \in DOMAIN r : r[i] \in (S \ {f}) \cup {g}
  BY <1>3, <1>6
<1>9. \A x \in (S \ {f}) \cup {g} : \E i \in DOMAIN r : x = r[i]
  BY <1>2, <1>3, <1>5
<1>10. {r[i] : i \in DOMAIN r} = (S \ {f}) \cup {g}
  BY <1>8, <1>9
<1>. QED BY <1>1, <1>7, <1>10 DEF Lists, r, k

LEMMA ListsLacks ==
    ASSUME NEW s, NEW S, Lists(s, S), NEW f, f \notin S
    PROVE  ~Holds(s, f)
BY DEF Lists, Holds

-----------------------------------------------------------------------------
(***************************************************************************)
(* The invariant.                                                          *)
(***************************************************************************)
\* The file paths normalisation changes.
RawPaths == {p \in PathLike : Name(p) \in RawFiles}

\* The directories the index is to have, and the files of one of them, without U.
Seen == {p \in dirs : ~Unseen(p)}

Shown(d, U) ==
    {Norm[x[2]] : x \in {y \in files : /\ y[1] = d /\ ~Unseen(Append(d, y[2]))
                                       /\ Append(d, y[2]) \notin U}}

Mirrors(t, U) ==
    /\ Good(t)
    /\ DOMAIN t = Seen
    /\ \A d \in Seen : Lists(t[d].objects, Shown(d, U))

\* What was moved in is there.
UnseenOK == \A u \in unseen : u \in PathLike /\ (u \in dirs \/ IsFile(u))

\* Whichever of the files that are not allowed are gone when their event is handled.
Predicted(v) ==
    \A U \in SUBSET RawPaths : \E u : Ends(v, Ops(events, U), u) /\ Mirrors(u, U)

\* Of the files that are not allowed each is waited for once, nothing else is called
\* what one will be called, and each is waited for that is still there.
RawMade(x) == x.kind = "create_file" /\ Name(x.path) \in RawFiles

OnceMade ==
    \A i, j \in DOMAIN events :
        RawMade(events[i]) /\ RawMade(events[j]) /\ events[i].path = events[j].path => i = j

NameKept ==
    \A i, j \in DOMAIN events :
        RawMade(events[i]) /\ IsFile(events[i].path) /\ j > i /\ events[j].kind = "both"
            => events[j].to # Normal(events[i].path)

RawReported ==
    \A x \in files :
        x[2] \in RawFiles /\ x[1] # <<>> /\ ~Unseen(Append(x[1], x[2]))
            => \E i \in DOMAIN events :
                  RawMade(events[i]) /\ events[i].path = Append(x[1], x[2])

BothTo(x, q) == x.kind = "both" /\ x.to = q

\* The first of the events that call a file q is that of a rename of the service's own.
Due(s, q) ==
    /\ \E i \in DOMAIN s : BothTo(s[i], q)
    /\ \A i \in DOMAIN s : BothTo(s[i], q) /\ Name(s[i].from) \in FileNames =>
          \E j \in DOMAIN s : j < i /\ BothTo(s[j], q) /\ Name(s[j].from) \notin FileNames

SkipsDue ==
    \A s \in skips :
        /\ s[1] = "object" => Due(events, s[2])
        /\ s[1] # "object" => Name(s[2]) \notin Names

EvenNamed(x) ==
    /\ x.kind = "create_folder" => Name(x.path) \in Names
    /\ x.kind = "create_file" => Name(x.path) \in AllFiles
    /\ x.kind = "both" => /\ Len(x.to) > 1 /\ Name(x.to) \in FileNames
                          /\ Parent(x.to) = Parent(x.from)

\* What the tree v is to become, in an even course, ...
EvenFrom(v) ==
    /\ Predicted(v)
    /\ OnceMade /\ NameKept /\ RawReported /\ SkipsDue
    /\ \A i \in DOMAIN events : EvenNamed(events[i])

\* Nothing that was made with a name that is not allowed waits to be renamed, and no
\* rename is to be skipped.
RawUnseen ==
    \A x \in files : x[2] \in RawFiles /\ x[1] # <<>> => Unseen(Append(x[1], x[2]))

NoSkips == \A s \in skips : s[1] # "object" /\ Name(s[2]) \notin Names

Rest(v) == Mirrors(v, {}) /\ RawUnseen /\ NoSkips

\* A rename of a directory the tree knows nothing of, or has been told of.
Harmless(x) ==
    /\ x.from \notin Seen /\ x.to \in dirs
    /\ IF x.to \in Seen THEN Name(x.to) \in Names ELSE Len(x.to) = 1

KindOf(q) == IF Len(q) = 1 THEN "bucket" ELSE "key"

Settled(v) ==
    /\ Mirrors(v, {})
    /\ \A i \in DOMAIN events :
          /\ events[i].kind = "both" => Harmless(events[i])
          /\ events[i].kind # "create_folder"
    /\ \A s \in skips : Name(s[2]) \in Names =>
          \E i \in DOMAIN events : BothTo(events[i], s[2]) /\ s[1] = KindOf(s[2])

\* A rename, a new directory, the tree is still to be told of.
Effective(v, x) ==
    /\ x.kind = "both"
    /\ x.from \in DOMAIN v /\ x.to \notin DOMAIN v /\ x.to \in dirs
    /\ Parent(x.from) = Parent(x.to)
    /\ Norm[Name(x.to)] = Empty => Name(x.from) \in Names
    /\ Mirrors(MoveEntry(v, x.from, x.to), {})
    /\ NoSkips

Creation(v, x) ==
    /\ x.kind = "create_folder"
    /\ Len(x.path) = 1 /\ x.path \in dirs /\ x.path \notin DOMAIN v
    /\ Name(x.path) \in RawNames /\ Norm[Name(x.path)] # Empty
    /\ Mirrors(OrDefault(v, x.path), {})
    /\ NoSkips

RenamingKinds == {"from", "both", "create_folder", "remove_any", "pathless"}

\* ... and while a directory is being renamed: it is told of one rename at most.
RenamingFrom(v) ==
    /\ Settled(v) \/ \E i \in DOMAIN events : Effective(v, events[i]) \/ Creation(v, events[i])
    /\ RawUnseen
    /\ \A s \in skips : s[1] # "object"
    /\ \A i \in DOMAIN events : events[i].kind \in RenamingKinds

\* v is what the mailbox of the manager makes of the tree.
From(v) ==
    /\ Good(v) /\ Ends(tree, mailbox, v)
    /\ course = "even" => EvenFrom(v)
    /\ course = "renaming" => RenamingFrom(v)

\* Pairs.
SkipsOK == \A s \in skips : s = <<s[1], s[2]>>

FollowInv == course # "lost" => watching /\ alive /\ UnseenOK /\ SkipsOK /\ \E v : From(v)

\* What a step starts from.
Predicts(v) ==
    /\ IndInv /\ CourseInv
    /\ course # "lost" /\ watching /\ alive /\ UnseenOK /\ SkipsOK /\ From(v)

-----------------------------------------------------------------------------
(***************************************************************************)
(* Paths of files and of what was moved in.                                *)
(***************************************************************************)
LEMMA UnderAppend ==
    ASSUME NEW p \in Seq(Segs), NEW d \in Seq(Segs), NEW n \in Segs
    PROVE  /\ Under(p, Append(d, n)) <=> Under(p, d) \/ p = Append(d, n)
           /\ Under(d, Append(d, n))
<1>. DEFINE x == Append(d, n)
<1>1. /\ x \in Seq(Segs) /\ Len(x) = Len(d) + 1 /\ Len(d) \in Nat /\ Len(p) \in Nat
      /\ \A i \in 1 .. Len(d) : x[i] = d[i]
  BY AppendParts
<1>. HIDE DEF x
<1>2. /\ Under(p, x) <=> Len(p) <= Len(x) /\ \A i \in 1 .. Len(p) : p[i] = x[i]
      /\ Under(p, d) <=> Len(p) <= Len(d) /\ \A i \in 1 .. Len(p) : p[i] = d[i]
      /\ Under(d, x) <=> Len(d) <= Len(x) /\ \A i \in 1 .. Len(d) : d[i] = x[i]
      /\ Under(x, x)
      /\ Under(p, x) /\ Len(p) = Len(x) => p = x
  BY <1>1, UnderIs, UnderOrder
<1>3. ASSUME Under(p, x), Len(p) # Len(x) PROVE Under(p, d)
  <2>1. Len(p) <= Len(d)
    BY <1>1, <1>2, <1>3
  <2>2. \A i \in 1 .. Len(p) : i \in 1 .. Len(d)
    BY <1>1, <2>1
  <2>. QED BY <1>1, <1>2, <1>3, <2>1, <2>2
<1>4. ASSUME Under(p, d) PROVE Under(p, x)
  <2>1. Len(p) <= Len(d) /\ \A i \in 1 .. Len(p) : p[i] = d[i]
    BY <1>2, <1>4
  <2>2. \A i \in 1 .. Len(p) : i \in 1 .. Len(d)
    BY <1>1, <2>1
  <2>. QED BY <1>1, <1>2, <2>1, <2>2
<1>5. Under(d, x)
  BY <1>1, <1>2
<1>. QED BY <1>2, <1>3, <1>4, <1>5 DEF x

\* A file and its path.
LEMMA FileFacts ==
    ASSUME FsOK, NEW y \in files
    PROVE  /\ y = <<y[1], y[2]>> /\ y[1] \in dirs \cup {<<>>} /\ y[2] \in AllFiles
           /\ y[1] \in Seq(Segs) /\ y[2] \in Segs
           /\ Append(y[1], y[2]) \in PathLike /\ Append(y[1], y[2]) \in Seq(Segs)
           /\ Parent(Append(y[1], y[2])) = y[1] /\ Name(Append(y[1], y[2])) = y[2]
           /\ Append(y[1], y[2]) \notin dirs /\ IsFile(Append(y[1], y[2]))
<1>1. y = <<y[1], y[2]>> /\ y[1] \in dirs \cup {<<>>} /\ y[2] \in AllFiles
  BY DEF FsOK
<1>2. <<>> \in Seq(Segs)
  OBVIOUS
<1>3. y[1] \in Seq(Segs)
  BY <1>1, <1>2, DirIsPath, PathParts
<1>. DEFINE p == Append(y[1], y[2])
<1>4. p \in PathLike /\ Parent(p) = y[1] /\ Name(p) = y[2] /\ p \in Seq(Segs)
  BY <1>1, FilePathIsPath, PathParts
<1>. HIDE DEF p
<1>5. p \notin dirs
  BY <1>1, <1>4, NamesApart DEF FsOK
<1>6. IsFile(p)
  BY <1>1, <1>4 DEF IsFile
<1>7. y[2] \in Segs
  BY <1>1, NamesApart
<1>. QED BY <1>1, <1>3, <1>4, <1>5, <1>6, <1>7 DEF p

LEMMA IsFileFacts ==
    ASSUME FsOK, NEW p \in PathLike, IsFile(p)
    PROVE  /\ <<Parent(p), Name(p)>> \in files /\ p = Append(Parent(p), Name(p))
           /\ Parent(p) \in dirs \cup {<<>>} /\ Name(p) \in AllFiles /\ p \notin dirs
<1>1. <<Parent(p), Name(p)>> \in files
  BY DEF IsFile
<1>2. p = Append(Parent(p), Name(p))
  BY PathParts
<1>3. Parent(p) \in dirs \cup {<<>>} /\ Name(p) \in AllFiles
  BY <1>1 DEF FsOK
<1>4. p \notin dirs
  BY <1>3, NamesApart DEF FsOK
<1>. QED BY <1>1, <1>2, <1>3, <1>4

\* Nothing lies below a path that is no directory.
LEMMA NothingUnder ==
    ASSUME FsOK, UnseenOK, NEW q \in PathLike, q \notin dirs
    PROVE  /\ \A x \in dirs \cup {<<>>} : ~Under(q, x)
           /\ \A y \in files : Under(q, Append(y[1], y[2])) => q = Append(y[1], y[2])
           /\ \A u \in unseen : Under(q, u) => q = u
<1>1. \A x \in dirs \cup {<<>>} : ~Under(q, x)
  BY NoneBelow
<1>2. q \in Seq(Segs)
  BY PathParts
<1>3. ASSUME NEW y \in files, Under(q, Append(y[1], y[2]))
      PROVE  q = Append(y[1], y[2])
  BY <1>1, <1>2, <1>3, FileFacts, UnderAppend
<1>4. ASSUME NEW u \in unseen, Under(q, u)
      PROVE  q = u
  <2>1. u \notin dirs /\ u \in PathLike /\ IsFile(u)
    BY <1>1, <1>4 DEF UnseenOK
  <2>2. <<Parent(u), Name(u)>> \in files /\ u = Append(Parent(u), Name(u))
    BY <2>1, IsFileFacts
  <2>. DEFINE y == <<Parent(u), Name(u)>>
  <2>3. y \in files /\ u = Append(y[1], y[2])
    BY <2>2
  <2>. HIDE DEF y
  <2>. QED BY <1>3, <1>4, <2>3
<1>. QED BY <1>1, <1>3, <1>4

\* What Shown says.
LEMMA ShownIs ==
    ASSUME NEW d, NEW U, NEW n
    PROVE  n \in Shown(d, U) <=>
              \E y \in files : /\ y[1] = d /\ ~Unseen(Append(d, y[2]))
                               /\ Append(d, y[2]) \notin U /\ n = Norm[y[2]]
BY DEF Shown

LEMMA ShownIsNext ==
    ASSUME NEW d, NEW U, NEW n
    PROVE  n \in Shown(d, U)' <=>
              \E y \in files' : /\ y[1] = d /\ ~Unseen(Append(d, y[2]))'
                                /\ Append(d, y[2]) \notin U /\ n = Norm[y[2]]
BY DEF Shown

\* What lies in a directory that was moved in was.
LEMMA UnseenBelow ==
    ASSUME FsOK, UnseenOK, NEW d \in dirs, Unseen(d), NEW n \in Segs
    PROVE  Unseen(Append(d, n))
<1>1. PICK u \in unseen : Under(u, d)
  BY DEF Unseen
<1>2. u \in Seq(Segs) /\ d \in Seq(Segs)
  BY DirIsPath, PathParts DEF UnseenOK
<1>. QED BY <1>1, <1>2, UnderAppend DEF Unseen

-----------------------------------------------------------------------------
(***************************************************************************)
(* How the tree mirrors the directory after a step of a user or of the     *)
(* service.                                                                *)
(***************************************************************************)
LEMMA FsSame ==
    ASSUME UNCHANGED fs
    PROVE  /\ \A t, U : Mirrors(t, U)' <=> Mirrors(t, U)
           /\ Seen' = Seen /\ dirs' = dirs /\ files' = files /\ unseen' = unseen
           /\ \A p : (IsFile(p)' <=> IsFile(p)) /\ (Unseen(p)' <=> Unseen(p))
           /\ UnseenOK' <=> UnseenOK
<1>1. dirs' = dirs /\ files' = files /\ unseen' = unseen
  BY DEF fs
<1>2. \A p : (IsFile(p)' <=> IsFile(p)) /\ (Unseen(p)' <=> Unseen(p))
  BY <1>1 DEF IsFile, Unseen
<1>3. Seen' = Seen
  BY <1>1, <1>2 DEF Seen
<1>4. \A d, U : Shown(d, U)' = Shown(d, U)
  BY <1>1 DEF Shown, Unseen
<1>5. \A t, U : Mirrors(t, U)' <=> Mirrors(t, U)
  BY <1>3, <1>4 DEF Mirrors
<1>6. UnseenOK' <=> UnseenOK
  BY <1>1 DEF UnseenOK, IsFile
<1>. QED BY <1>1, <1>2, <1>3, <1>5, <1>6

\* A new directory.
LEMMA MirrorsNewDir ==
    ASSUME FsOK, UnseenOK, NEW t, NEW U, Mirrors(t, U), NEW p \in PathLike, p \notin dirs,
           ~Unseen(p), Len(p) > 1 => Parent(p) \in DOMAIN t /\ t[Parent(p)].keys,
           dirs' = dirs \cup {p}, UNCHANGED <<files, unseen>>
    PROVE  Mirrors(OrDefault(t, p), U)' /\ UnseenOK'
<1>. DEFINE u == OrDefault(t, p)
<1>1. Good(u)
  BY GoodOrDefault DEF Mirrors
<1>2. /\ DOMAIN u = DOMAIN t \cup {p}
      /\ \A q \in DOMAIN t : u[q] = t[q]
      /\ p \notin DOMAIN t => u[p].objects = <<>>
  BY DEF OrDefault, EmptyEntry
<1>. HIDE DEF u
<1>3. files' = files /\ unseen' = unseen
  OBVIOUS
<1>4. \A q : Unseen(q)' <=> Unseen(q)
  BY <1>3 DEF Unseen
<1>5. Seen' = Seen \cup {p} /\ p \notin Seen
  BY <1>4 DEF Seen
<1>6. \A d : Shown(d, U)' = Shown(d, U)
  BY <1>3 DEF Shown, Unseen
<1>7. Shown(p, U)' = {}
  <2>1. \A y \in files : y[1] # p
    BY FileFacts DEF PathLike
  <2>. QED BY <1>6, <2>1 DEF Shown
<1>8. Lists(<<>>, {})
  BY DEF Lists, NoDuplicates
<1>9. \A d \in Seen' : Lists(u[d].objects, Shown(d, U)')
  BY <1>2, <1>5, <1>6, <1>7, <1>8 DEF Mirrors
<1>10. DOMAIN u = Seen'
  BY <1>2, <1>5 DEF Mirrors
<1>11. Mirrors(u, U)'
  BY <1>1, <1>9, <1>10 DEF Mirrors
<1>12. UnseenOK'
  BY <1>3 DEF UnseenOK, IsFile
<1>. QED BY <1>11, <1>12 DEF u

\* A new file, in a directory of the index and elsewhere.
LEMMA NewFileFacts ==
    ASSUME FsOK, UnseenOK, NEW d \in dirs \cup {<<>>}, NEW f \in AllFiles, <<d, f>> \notin files,
           files' = files \cup {<<d, f>>}, UNCHANGED <<dirs, unseen>>
    PROVE  /\ UnseenOK' /\ Seen' = Seen
           /\ \A q : Unseen(q)' <=> Unseen(q)
           /\ d \in Seen => ~Unseen(Append(d, f))
           /\ d \in dirs \ Seen => Unseen(Append(d, f))
           /\ \A c, U : c # d => Shown(c, U)' = Shown(c, U)
           /\ \A U : Append(d, f) \in U \/ Unseen(Append(d, f)) => Shown(d, U)' = Shown(d, U)
           /\ \A U : ~(Append(d, f) \in U \/ Unseen(Append(d, f)))
                        => Shown(d, U)' = Shown(d, U) \cup {Norm[f]}
<1>1. dirs' = dirs /\ unseen' = unseen
  OBVIOUS
<1>2. \A q : Unseen(q)' <=> Unseen(q)
  BY <1>1 DEF Unseen
<1>3. Seen' = Seen
  BY <1>1, <1>2 DEF Seen
<1>4. UnseenOK'
  BY <1>1 DEF UnseenOK, IsFile
<1>5. Append(d, f) \in PathLike /\ Parent(Append(d, f)) = d /\ Name(Append(d, f)) = f
  BY FilePathIsPath
<1>6. Append(d, f) \notin dirs
  BY <1>5, NamesApart DEF FsOK
<1>7. Append(d, f) \notin unseen
  BY <1>5, <1>6 DEF UnseenOK, IsFile
<1>8. d \in Seq(Segs) /\ f \in Segs
  <2>1. <<>> \in Seq(Segs)
    OBVIOUS
  <2>. QED BY <2>1, DirIsPath, PathParts, NamesApart
<1>9. ASSUME d \in Seen PROVE ~Unseen(Append(d, f))
  <2>1. \A u \in unseen : u \in Seq(Segs)
    BY PathParts DEF UnseenOK
  <2>2. \A u \in unseen : Under(u, Append(d, f)) => Under(u, d)
    <3>. SUFFICES ASSUME NEW u \in unseen PROVE Under(u, Append(d, f)) => Under(u, d)
      OBVIOUS
    <3>1. Under(u, Append(d, f)) <=> Under(u, d) \/ u = Append(d, f)
      BY <1>8, <2>1, UnderAppend
    <3>. QED BY <1>7, <3>1
  <2>. QED BY <1>9, <2>2 DEF Unseen, Seen
<1>10. ASSUME d \in dirs \ Seen PROVE Unseen(Append(d, f))
  BY <1>8, <1>10, UnseenBelow DEF Seen
<1>. DEFINE z == <<d, f>>
<1>11. z[1] = d /\ z[2] = f /\ files' = files \cup {z}
  OBVIOUS
<1>. HIDE DEF z
<1>12. ASSUME NEW c, NEW U, NEW n
       PROVE  n \in Shown(c, U)' <=>
                 \/ n \in Shown(c, U)
                 \/ c = d /\ ~(Append(d, f) \in U \/ Unseen(Append(d, f))) /\ n = Norm[f]
  BY <1>2, <1>11, ShownIs, ShownIsNext
<1>13. ASSUME NEW c, NEW U, c # d PROVE Shown(c, U)' = Shown(c, U)
  <2>1. \A n : n \in Shown(c, U)' <=> n \in Shown(c, U)
    BY <1>12, <1>13
  <2>. QED BY <2>1, SetExtensionality
<1>14. ASSUME NEW U, Append(d, f) \in U \/ Unseen(Append(d, f)) PROVE Shown(d, U)' = Shown(d, U)
  <2>1. \A n : n \in Shown(d, U)' <=> n \in Shown(d, U)
    BY <1>12, <1>14
  <2>. QED BY <2>1, SetExtensionality
<1>15. ASSUME NEW U, ~(Append(d, f) \in U \/ Unseen(Append(d, f)))
       PROVE Shown(d, U)' = Shown(d, U) \cup {Norm[f]}
  <2>1. \A n : n \in Shown(d, U)' <=> n \in Shown(d, U) \cup {Norm[f]}
    BY <1>12, <1>15
  <2>. QED BY <2>1, SetExtensionality
<1>. QED BY <1>2, <1>3, <1>4, <1>9, <1>10, <1>13, <1>14, <1>15

LEMMA MirrorsNewFile ==
    ASSUME FsOK, UnseenOK, NEW t, NEW U, Mirrors(t, U),
           NEW d \in dirs \cup {<<>>}, NEW f \in AllFiles, <<d, f>> \notin files,
           Norm[f] \notin Shown(d, U),
           files' = files \cup {<<d, f>>}, UNCHANGED <<dirs, unseen>>
    PROVE  IF d \in Seen /\ Append(d, f) \notin U
           THEN Mirrors(WithObjects(t, d, Append(t[d].objects, Norm[f])), U)'
           ELSE Mirrors(t, U)'
<1>0. Norm[f] \in FileNames
  BY NormAssumption DEF AllFiles
<1>1. /\ Seen' = Seen
      /\ \A c : c # d => Shown(c, U)' = Shown(c, U)
  BY NewFileFacts
<1>2. CASE d \in Seen /\ Append(d, f) \notin U
  <2>. DEFINE s == t[d].objects
              u == WithObjects(t, d, Append(s, Norm[f]))
  <2>1. /\ d \in DOMAIN t /\ s \in Seq(FileNames) /\ Lists(s, Shown(d, U))
        /\ TreeOK(t) /\ Good(t)
    BY <1>2 DEF Mirrors, Good
  <2>2. Append(s, Norm[f]) \in Seq(FileNames) /\ Lists(Append(s, Norm[f]), Shown(d, U) \cup {Norm[f]})
    BY <1>0, <2>1, ListsMore
  <2>3. Shown(d, U)' = Shown(d, U) \cup {Norm[f]}
    BY <1>2, NewFileFacts
  <2>. DEFINE r == Append(s, Norm[f])
  <2>. HIDE DEF s, r
  <2>4. /\ Good(WithObjects(t, d, r)) /\ DOMAIN WithObjects(t, d, r) = DOMAIN t
        /\ WithObjects(t, d, r)[d].objects = r
        /\ \A q \in DOMAIN t : q # d => WithObjects(t, d, r)[q] = t[q]
    <3>1. r \in Seq(FileNames)
      BY <2>2 DEF r
    <3>2. Good(WithObjects(t, d, r))
      BY <2>1, <3>1, GoodWith
    <3>. QED BY <2>1, <3>2, WithObjectsFacts
  <2>40. /\ Good(u) /\ DOMAIN u = DOMAIN t /\ u[d].objects = r
         /\ \A q \in DOMAIN t : q # d => u[q] = t[q]
    BY <2>4 DEF r
  <2>41. Lists(r, Shown(d, U)')
    BY <2>2, <2>3 DEF r
  <2>. HIDE DEF u
  <2>5. \A q \in Seen' : Lists(u[q].objects, Shown(q, U)')
    BY <1>1, <2>40, <2>41 DEF Mirrors
  <2>6. Mirrors(u, U)'
    BY <1>1, <2>40, <2>5 DEF Mirrors
  <2>. QED BY <1>2, <2>6 DEF u, s
<1>3. CASE ~(d \in Seen /\ Append(d, f) \notin U)
  <2>1. d \in Seen => Shown(d, U)' = Shown(d, U)
    BY <1>3, NewFileFacts
  <2>2. \A q \in Seen' : Lists(t[q].objects, Shown(q, U)')
    BY <1>1, <2>1 DEF Mirrors
  <2>3. Mirrors(t, U)'
    BY <1>1, <2>2 DEF Mirrors
  <2>. QED BY <1>3, <2>3
<1>. QED BY <1>2, <1>3

\* A file with another name in its directory, which no file has.
LEMMA RenamedFileFacts ==
    ASSUME FsOK, UnseenOK, NEW p \in PathLike, IsFile(p), NEW q \in PathLike, ~IsFile(q),
           Parent(q) = Parent(p), Name(q) \in AllFiles, MoveFile(p, q)
    PROVE  /\ UnseenOK' /\ Seen' = Seen
           /\ \A x \in dirs : Unseen(x)' <=> Unseen(x)
           /\ \A y : y \in files' <=> (y \in files /\ y # <<Parent(p), Name(p)>>)
                                         \/ y = <<Parent(q), Name(q)>>
           /\ \A y \in files : y # <<Parent(p), Name(p)>> =>
                 (Unseen(Append(y[1], y[2]))' <=> Unseen(Append(y[1], y[2])))
           /\ Unseen(q)' <=> Unseen(p)
<1>1. /\ files' = (files \ {<<Parent(p), Name(p)>>}) \cup {<<Parent(q), Name(q)>>}
      /\ unseen' = {Moved(x, p, q) : x \in unseen}
      /\ dirs' = dirs
  BY DEF MoveFile
<1>2. /\ <<Parent(p), Name(p)>> \in files /\ p = Append(Parent(p), Name(p))
      /\ Parent(p) \in dirs \cup {<<>>} /\ p \notin dirs
  BY IsFileFacts
<1>3. q \notin dirs /\ q = Append(Parent(q), Name(q)) /\ p # q
  BY NamesApart, PathParts DEF FsOK
<1>4. /\ p \in Seq(Segs) /\ q \in Seq(Segs) /\ Parent(p) \in Seq(Segs)
      /\ Name(p) \in Segs /\ Name(q) \in Segs
      /\ \A u \in unseen : u \in Seq(Segs)
  BY PathParts DEF UnseenOK
<1>5. \A u \in unseen : Under(p, u) <=> u = p
  BY <1>2, <1>4, NothingUnder, UnderOrder
<1>6. Rebase(p, p, q) = q
  BY <1>4, RebaseSelf
<1>7. \A u \in unseen : Moved(u, p, q) = IF u = p THEN q ELSE u
  BY <1>5, <1>6 DEF Moved
<1>8. \A w : w \in unseen' <=> (w \in unseen /\ w # p) \/ (w = q /\ p \in unseen)
  BY <1>1, <1>7
<1>9. q \notin unseen
  BY <1>3 DEF UnseenOK
<1>10. \A x \in dirs : ~Under(p, x) /\ ~Under(q, x)
  BY <1>2, <1>3, NothingUnder
<1>11. \A x \in dirs : Unseen(x)' <=> Unseen(x)
  BY <1>8, <1>10 DEF Unseen
<1>12. Seen' = Seen
  BY <1>1, <1>11 DEF Seen
<1>13. \A y : y \in files' <=> (y \in files /\ y # <<Parent(p), Name(p)>>) \/ y = <<Parent(q), Name(q)>>
  BY <1>1
<1>14. ASSUME NEW y \in files, y # <<Parent(p), Name(p)>>
       PROVE  Unseen(Append(y[1], y[2]))' <=> Unseen(Append(y[1], y[2]))
  <2>. DEFINE x == Append(y[1], y[2])
  <2>0. y = <<y[1], y[2]>> /\ Parent(x) = y[1] /\ Name(x) = y[2] /\ IsFile(x)
    BY FileFacts
  <2>1. x # p /\ x # q
    BY <1>14, <2>0
  <2>2. ~Under(p, x) /\ ~Under(q, x)
    BY <1>2, <1>3, <2>1, NothingUnder
  <2>. HIDE DEF x
  <2>3. Unseen(x)' <=> Unseen(x)
    BY <1>8, <2>2 DEF Unseen
  <2>. QED BY <2>3 DEF x
<1>15. Unseen(q)' <=> Unseen(p)
  <2>1. \A u \in unseen : /\ Under(u, p) <=> Under(u, Parent(p)) \/ u = p
                          /\ Under(u, q) <=> Under(u, Parent(p)) \/ u = q
    <3>. SUFFICES ASSUME NEW u \in unseen
                  PROVE  /\ Under(u, p) <=> Under(u, Parent(p)) \/ u = p
                         /\ Under(u, q) <=> Under(u, Parent(p)) \/ u = q
      OBVIOUS
    <3>. DEFINE d == Parent(p)
    <3>1. /\ u \in Seq(Segs) /\ d \in Seq(Segs) /\ Name(p) \in Segs /\ Name(q) \in Segs
          /\ p = Append(d, Name(p)) /\ q = Append(d, Name(q))
      BY <1>2, <1>3, <1>4
    <3>. HIDE DEF d
    <3>2. /\ Under(u, Append(d, Name(p))) <=> Under(u, d) \/ u = Append(d, Name(p))
          /\ Under(u, Append(d, Name(q))) <=> Under(u, d) \/ u = Append(d, Name(q))
      BY <3>1, UnderAppend
    <3>3. /\ Under(u, p) <=> Under(u, d) \/ u = p
          /\ Under(u, q) <=> Under(u, d) \/ u = q
      BY <3>1, <3>2
    <3>. QED BY <3>3 DEF d
  <2>2. ~Under(p, q)
    <3>1. Under(p, q) => Under(p, Parent(p)) \/ p = q
      BY <1>2, <1>3, <1>4, UnderAppend
    <3>2. ~Under(p, Parent(p))
      BY <1>2, NothingUnder
    <3>. QED BY <1>3, <3>1, <3>2
  <2>3. Under(p, p) /\ Under(q, q)
    BY <1>4, UnderOrder
  <2>4. (\E w \in unseen' : Under(w, q)) <=> (\E u \in unseen : Under(u, p))
    <3>1. ASSUME NEW w \in unseen', Under(w, q) PROVE \E u \in unseen : Under(u, p)
      <4>1. CASE w \in unseen /\ w # p
        BY <1>9, <2>1, <3>1, <4>1
      <4>2. CASE w = q /\ p \in unseen
        BY <2>3, <4>2
      <4>. QED BY <1>8, <4>1, <4>2
    <3>2. ASSUME NEW u \in unseen, Under(u, p) PROVE \E w \in unseen' : Under(w, q)
      <4>1. CASE u = p
        BY <1>8, <2>3, <4>1
      <4>2. CASE u # p
        BY <1>8, <2>1, <3>2, <4>2
      <4>. QED BY <4>1, <4>2
    <3>. QED BY <3>1, <3>2
  <2>. QED BY <2>4 DEF Unseen
<1>16. UnseenOK'
  <2>1. IsFile(q)'
    BY <1>13 DEF IsFile
  <2>2. \A u \in unseen : u # p => u \in dirs' \/ IsFile(u)'
    <3>. SUFFICES ASSUME NEW u \in unseen, u # p PROVE u \in dirs' \/ IsFile(u)'
      OBVIOUS
    <3>1. u \in dirs \/ (IsFile(u) /\ u = Append(Parent(u), Name(u)))
      BY IsFileFacts DEF UnseenOK
    <3>2. <<Parent(u), Name(u)>> = <<Parent(p), Name(p)>> => Append(Parent(u), Name(u)) = p
      BY <1>2
    <3>. QED BY <1>1, <1>13, <3>1, <3>2 DEF IsFile
  <2>. QED BY <1>8, <2>1, <2>2 DEF UnseenOK
<1>. QED BY <1>11, <1>12, <1>13, <1>14, <1>15, <1>16

LEMMA RenamedShown ==
    ASSUME FsOK, UnseenOK, NEW p \in PathLike, IsFile(p), NEW q \in PathLike, ~IsFile(q),
           Parent(q) = Parent(p), Name(q) \in AllFiles, MoveFile(p, q), NEW c, NEW U, NEW n
    PROVE  /\ n \in Shown(c, U) <=>
                 \/ \E y \in files : /\ y # <<Parent(p), Name(p)>> /\ y[1] = c
                                     /\ ~Unseen(Append(c, y[2])) /\ Append(c, y[2]) \notin U
                                     /\ n = Norm[y[2]]
                 \/ c = Parent(p) /\ ~Unseen(p) /\ p \notin U /\ n = Norm[Name(p)]
           /\ n \in Shown(c, U)' <=>
                 \/ \E y \in files : /\ y # <<Parent(p), Name(p)>> /\ y[1] = c
                                     /\ ~Unseen(Append(c, y[2])) /\ Append(c, y[2]) \notin U
                                     /\ n = Norm[y[2]]
                 \/ c = Parent(p) /\ ~Unseen(p) /\ q \notin U /\ n = Norm[Name(q)]
<1>. DEFINE z == <<Parent(p), Name(p)>>
            w == <<Parent(q), Name(q)>>
<1>1. /\ z \in files /\ z[1] = Parent(p) /\ z[2] = Name(p) /\ Append(z[1], z[2]) = p
      /\ w[1] = Parent(p) /\ w[2] = Name(q) /\ Append(w[1], w[2]) = q
  BY IsFileFacts, PathParts
<1>2. /\ \A y : y \in files' <=> (y \in files /\ y # z) \/ y = w
      /\ \A y \in files : y # z => (Unseen(Append(y[1], y[2]))' <=> Unseen(Append(y[1], y[2])))
      /\ Unseen(q)' <=> Unseen(p)
  BY RenamedFileFacts
<1>. HIDE DEF z, w
<1>3. n \in Shown(c, U) <=>
         \/ \E y \in files : /\ y # z /\ y[1] = c
                             /\ ~Unseen(Append(c, y[2])) /\ Append(c, y[2]) \notin U
                             /\ n = Norm[y[2]]
         \/ c = Parent(p) /\ ~Unseen(p) /\ p \notin U /\ n = Norm[Name(p)]
  <2>1. n \in Shown(c, U) <=>
           \E y \in files : /\ y[1] = c /\ ~Unseen(Append(c, y[2]))
                            /\ Append(c, y[2]) \notin U /\ n = Norm[y[2]]
    BY ShownIs
  <2>. QED BY <1>1, <2>1
<1>4. n \in Shown(c, U)' <=>
         \/ \E y \in files : /\ y # z /\ y[1] = c
                             /\ ~Unseen(Append(c, y[2])) /\ Append(c, y[2]) \notin U
                             /\ n = Norm[y[2]]
         \/ c = Parent(p) /\ ~Unseen(p) /\ q \notin U /\ n = Norm[Name(q)]
  <2>1. n \in Shown(c, U)' <=>
           \E y \in files' : /\ y[1] = c /\ ~Unseen(Append(c, y[2]))'
                             /\ Append(c, y[2]) \notin U /\ n = Norm[y[2]]
    BY ShownIsNext
  <2>2. \A y \in files : y # z /\ y[1] = c =>
           (Unseen(Append(c, y[2]))' <=> Unseen(Append(c, y[2])))
    BY <1>2
  <2>3. w[1] = c => (Unseen(Append(c, w[2]))' <=> Unseen(p))
    BY <1>1, <1>2
  <2>. QED BY <1>1, <1>2, <2>1, <2>2, <2>3
<1>. QED BY <1>3, <1>4 DEF z

\* A user gives a file another allowed name.
LEMMA MirrorsRenamedFile ==
    ASSUME FsOK, UnseenOK, Distinct(dirs, files), NEW t, NEW U \in SUBSET RawPaths, Mirrors(t, U),
           NEW p \in PathLike, IsFile(p), NEW q \in PathLike, Parent(q) = Parent(p), q # p,
           Parent(p) # <<>>, Name(p) \in FileNames, Name(q) \in FileNames,
           ~Taken(p, Parent(q), Name(q)), MoveFile(p, q)
    PROVE  Mirrors(TreeNameObject(t, Parent(p), Name(p), Name(q)), U)'
<1>. DEFINE d == Parent(p)
            f == Name(p)
            g == Name(q)
<1>1. Norm[f] = f /\ Norm[g] = g /\ f \in AllFiles /\ g \in AllFiles
  BY NormAssumption DEF AllFiles
<1>2. p \notin U /\ q \notin U
  BY NormAssumption DEF RawPaths
<1>3. /\ <<d, f>> \in files /\ p = Append(d, f) /\ d \in dirs
      /\ q = Append(d, g)
  BY IsFileFacts, PathParts
<1>. HIDE DEF d, f, g
<1>4. \A y \in files : y[1] = d /\ y # <<d, f>> => Norm[y[2]] # f /\ Norm[y[2]] # g
  <2>. SUFFICES ASSUME NEW y \in files, y[1] = d, y # <<d, f>>
                PROVE  Norm[y[2]] # f /\ Norm[y[2]] # g
    OBVIOUS
  <2>1. y = <<d, y[2]>> /\ Name(Append(d, y[2])) = y[2] /\ Append(d, y[2]) # p
    BY FileFacts DEF f
  <2>2. Norm[y[2]] # Norm[g]
    BY <2>1 DEF Taken, d, g
  <2>3. Norm[y[2]] # Norm[f]
    <3>. DEFINE z == <<d, f>>
    <3>1. z \in files /\ z[1] = d /\ z[2] = f
      BY <1>3
    <3>. HIDE DEF z
    <3>. QED BY <2>1, <3>1 DEF Distinct, z
  <2>. QED BY <1>1, <2>2, <2>3
<1>5. ~IsFile(q)
  <2>2. Parent(q) = d /\ Name(q) = g /\ f # g
    BY <1>3 DEF d, f, g
  <2>3. <<d, g>> \notin files
    <3>. DEFINE z == <<d, g>>
    <3>1. z[1] = d /\ z[2] = g /\ z # <<d, f>>
      BY <2>2
    <3>. HIDE DEF z
    <3>2. z \notin files
      BY <1>1, <1>4, <3>1
    <3>. QED BY <3>2 DEF z
  <2>. QED BY <2>2, <2>3 DEF IsFile
<1>6. Seen' = Seen
  BY <1>1, <1>5, RenamedFileFacts DEF g
<1>7. ASSUME NEW c, NEW n
      PROVE  /\ n \in Shown(c, U) <=>
                   \/ \E y \in files : /\ y # <<d, f>> /\ y[1] = c
                                       /\ ~Unseen(Append(c, y[2])) /\ Append(c, y[2]) \notin U
                                       /\ n = Norm[y[2]]
                   \/ c = d /\ ~Unseen(p) /\ n = f
             /\ n \in Shown(c, U)' <=>
                   \/ \E y \in files : /\ y # <<d, f>> /\ y[1] = c
                                       /\ ~Unseen(Append(c, y[2])) /\ Append(c, y[2]) \notin U
                                       /\ n = Norm[y[2]]
                   \/ c = d /\ ~Unseen(p) /\ n = g
  <2>1. Name(q) \in AllFiles
    BY <1>1 DEF g
  <2>. QED BY <1>1, <1>2, <1>5, <2>1, RenamedShown DEF d, f, g
<1>8. ASSUME NEW c, c # d PROVE Shown(c, U)' = Shown(c, U)
  <2>1. \A n : n \in Shown(c, U)' <=> n \in Shown(c, U)
    BY <1>7, <1>8
  <2>. QED BY <2>1, SetExtensionality
<1>9. CASE Unseen(p)
  <2>1. \A n : n \in Shown(d, U)' <=> n \in Shown(d, U)
    BY <1>7, <1>9
  <2>2. Shown(d, U)' = Shown(d, U)
    BY <2>1, SetExtensionality
  <2>3. f \notin Shown(d, U)
    BY <1>4, <1>7, <1>9
  <2>4. d \in DOMAIN t => ~Holds(t[d].objects, f)
    BY <2>3, ListsLacks DEF Mirrors
  <2>5. TreeNameObject(t, d, f, g) = t
    BY <2>4 DEF TreeNameObject
  <2>6. \A c \in Seen' : Lists(t[c].objects, Shown(c, U)')
    BY <1>6, <1>8, <2>2 DEF Mirrors
  <2>7. Mirrors(t, U)'
    BY <1>6, <2>6 DEF Mirrors
  <2>. QED BY <2>5, <2>7 DEF d, f, g
<1>10. CASE ~Unseen(p)
  <2>1. d \in Seen
    <3>1. f \in Segs
      BY PathParts DEF f
    <3>. QED BY <1>3, <1>10, <3>1, UnseenBelow DEF Seen
  <2>. DEFINE s == t[d].objects
              r == [s EXCEPT ![IndexOf(s, f)] = g]
  <2>2. d \in DOMAIN t /\ s \in Seq(FileNames) /\ Lists(s, Shown(d, U)) /\ TreeOK(t) /\ Good(t)
    BY <2>1 DEF Mirrors, Good
  <2>3. f \in Shown(d, U) /\ g \notin Shown(d, U) \ {f}
    BY <1>4, <1>7, <1>10
  <2>4. g \in FileNames
    BY DEF g
  <2>. HIDE DEF s
  <2>5. Holds(s, f) /\ Lists(r, (Shown(d, U) \ {f}) \cup {g}) /\ r \in Seq(FileNames)
    BY <2>2, <2>3, <2>4, ListsRenamed, RenamedObjects
  <2>6. Shown(d, U)' = (Shown(d, U) \ {f}) \cup {g}
    <3>1. \A n : n \in Shown(d, U)' <=> n \in (Shown(d, U) \ {f}) \cup {g}
      BY <1>4, <1>7, <1>10
    <3>. QED BY <3>1, SetExtensionality
  <2>. DEFINE u == WithObjects(t, d, r)
  <2>7. TreeNameObject(t, d, f, g) = u
    BY <2>2, <2>5 DEF TreeNameObject, WithObjects, s
  <2>. HIDE DEF r
  <2>8. Good(u)
    BY <2>2, <2>5, GoodWith
  <2>9. /\ DOMAIN u = DOMAIN t /\ u[d].objects = r
        /\ \A c \in DOMAIN t : c # d => u[c] = t[c]
    BY <2>2, <2>5, WithObjectsFacts
  <2>. HIDE DEF u
  <2>10. \A c \in Seen' : Lists(u[c].objects, Shown(c, U)')
    BY <1>6, <1>8, <2>5, <2>6, <2>9 DEF Mirrors
  <2>11. Mirrors(u, U)'
    BY <1>6, <2>8, <2>9, <2>10 DEF Mirrors
  <2>. QED BY <2>7, <2>11 DEF d, f, g
<1>. QED BY <1>9, <1>10

\* The service gives a file the name normalisation makes of its own.
LEMMA MirrorsNormalised ==
    ASSUME FsOK, UnseenOK, NEW t, NEW U \in SUBSET RawPaths, NEW p \in PathLike, IsFile(p),
           NEW q \in PathLike, ~IsFile(q), Parent(q) = Parent(p), Name(q) \in FileNames,
           Norm[Name(q)] = Norm[Name(p)], MoveFile(p, q), Mirrors(t, U \ {p})
    PROVE  Mirrors(t, U)'
<1>1. Name(q) \in AllFiles /\ q \notin U
  BY NormAssumption DEF AllFiles, RawPaths
<1>2. Seen' = Seen
  BY <1>1, RenamedFileFacts
<1>3. ASSUME NEW c PROVE Shown(c, U)' = Shown(c, U \ {p})
  <2>1. \A y \in files : y # <<Parent(p), Name(p)>> => Append(y[1], y[2]) # p
    <3>1. p = Append(Parent(p), Name(p))
      BY PathParts
    <3>2. \A y \in files : /\ y = <<y[1], y[2]>>
                           /\ Parent(Append(y[1], y[2])) = y[1] /\ Name(Append(y[1], y[2])) = y[2]
      BY FileFacts
    <3>. QED BY <3>1, <3>2
  <2>. DEFINE V == U \ {p}
  <2>2. \A x : x # p => (x \in V <=> x \in U)
    OBVIOUS
  <2>3. p \notin V
    OBVIOUS
  <2>. HIDE DEF V
  <2>4. ASSUME NEW n PROVE n \in Shown(c, U)' <=> n \in Shown(c, V)
    <3>1. n \in Shown(c, V) <=>
             \/ \E y \in files : /\ y # <<Parent(p), Name(p)>> /\ y[1] = c
                                 /\ ~Unseen(Append(c, y[2])) /\ Append(c, y[2]) \notin V
                                 /\ n = Norm[y[2]]
             \/ c = Parent(p) /\ ~Unseen(p) /\ p \notin V /\ n = Norm[Name(p)]
      BY <1>1, RenamedShown
    <3>2. n \in Shown(c, U)' <=>
             \/ \E y \in files : /\ y # <<Parent(p), Name(p)>> /\ y[1] = c
                                 /\ ~Unseen(Append(c, y[2])) /\ Append(c, y[2]) \notin U
                                 /\ n = Norm[y[2]]
             \/ c = Parent(p) /\ ~Unseen(p) /\ q \notin U /\ n = Norm[Name(q)]
      BY <1>1, RenamedShown
    <3>. QED BY <1>1, <2>1, <2>2, <2>3, <3>1, <3>2
  <2>5. \A n : n \in Shown(c, U)' <=> n \in Shown(c, V)
    BY <2>4
  <2>6. Shown(c, U)' = Shown(c, V)
    BY <2>5, SetExtensionality
  <2>. QED BY <2>6 DEF V
<1>4. \A c \in Seen' : Lists(t[c].objects, Shown(c, U)')
  BY <1>2, <1>3 DEF Mirrors
<1>. QED BY <1>2, <1>4 DEF Mirrors

\* It does not matter whether a file that is not there is left out.
LEMMA MirrorsMissing ==
    ASSUME FsOK, NEW t, NEW U, NEW p \in PathLike, ~IsFile(p), Mirrors(t, U \cup {p})
    PROVE  Mirrors(t, U)
<1>1. ASSUME NEW c PROVE Shown(c, U) = Shown(c, U \cup {p})
  <2>1. \A y \in files : Append(y[1], y[2]) # p
    BY FileFacts
  <2>. DEFINE V == U \cup {p}
  <2>2. \A x : x # p => (x \in V <=> x \in U)
    OBVIOUS
  <2>. HIDE DEF V
  <2>3. ASSUME NEW n PROVE n \in Shown(c, U) <=> n \in Shown(c, V)
    <3>1. n \in Shown(c, U) <=>
              \E y \in files : /\ y[1] = c /\ ~Unseen(Append(c, y[2]))
                               /\ Append(c, y[2]) \notin U /\ n = Norm[y[2]]
      BY ShownIs
    <3>2. n \in Shown(c, V) <=>
              \E y \in files : /\ y[1] = c /\ ~Unseen(Append(c, y[2]))
                               /\ Append(c, y[2]) \notin V /\ n = Norm[y[2]]
      BY ShownIs
    <3>. QED BY <2>1, <2>2, <3>1, <3>2
  <2>4. Shown(c, U) = Shown(c, V)
    BY <2>3, SetExtensionality
  <2>. QED BY <2>4 DEF V
<1>. QED BY <1>1 DEF Mirrors

\* A directory goes with its files, and nothing lies below it.
LEMMA MirrorsGoneDir ==
    ASSUME FsOK, UnseenOK, NEW t, NEW U, Mirrors(t, U), NEW p \in dirs,
           ~\E r \in dirs : Len(r) > 1 /\ Parent(r) = p,
           dirs' = dirs \ {p}, files' = files \ {x \in files : x[1] = p},
           unseen' = {x \in unseen : ~Under(p, x)}
    PROVE  /\ Mirrors(RemoveEntry(t, p), U)' /\ UnseenOK'
           /\ \A y \in files' : Unseen(Append(y[1], y[2]))' <=> Unseen(Append(y[1], y[2]))
<1>1. p \in PathLike /\ p \in Seq(Segs) /\ Name(p) \in DirNames /\ p # <<>>
  BY DirIsPath, PathParts DEF PathLike
<1>2. ASSUME NEW x \in dirs, Under(p, x), x # p PROVE FALSE
  <2>. DEFINE D == dirs \ {p}
  <2>1. \A r \in D : Len(r) > 1 => Parent(r) \in D
    BY DEF FsOK
  <2>. DEFINE T == {n \in Nat : \E r \in dirs : Under(p, r) /\ r # p /\ Len(r) = n}
  <2>2. x \in Seq(Segs) /\ Len(x) \in Nat
    BY DirIsPath, PathParts
  <2>3. Len(x) \in T /\ T \in SUBSET Nat
    BY <1>2, <2>2
  <2>4. PICK m \in T : \A k \in T : m <= k
    BY <2>3, LeastNumber
  <2>5. PICK r \in dirs : Under(p, r) /\ r # p /\ Len(r) = m
    BY <2>4
  <2>6. /\ r \in PathLike /\ r \in Seq(Segs) /\ Parent(r) \in Seq(Segs)
        /\ Len(Parent(r)) = Len(r) - 1 /\ Len(r) \in Nat /\ Len(r) # 0
        /\ r = Append(Parent(r), Name(r)) /\ Name(r) \in Segs
        /\ ~(Len(r) > 1) => Parent(r) = <<>>
    BY DirIsPath, PathParts
  <2>7. Under(p, Parent(r))
    <3>. DEFINE d == Parent(r)
                n == Name(r)
    <3>1. Under(p, Append(d, n)) /\ p # Append(d, n) /\ d \in Seq(Segs) /\ n \in Segs
      BY <2>5, <2>6
    <3>. HIDE DEF d, n
    <3>2. Under(p, d)
      BY <1>1, <3>1, UnderAppend
    <3>. QED BY <3>2 DEF d
  <2>8. Len(p) # 0 /\ Len(p) \in Nat /\ Len(p) <= Len(Parent(r))
    BY <1>1, <2>7, PathParts DEF Under
  <2>9. Len(r) > 1
    BY <2>6, <2>8
  <2>10. Parent(r) \in dirs /\ Parent(r) # p
    BY <2>9 DEF FsOK
  <2>11. Len(Parent(r)) \in T
    BY <2>6, <2>7, <2>10, <2>9
  <2>12. m <= Len(r) - 1
    BY <2>4, <2>6, <2>11
  <2>. QED BY <2>5, <2>6, <2>12
<1>3. dirs' = dirs \ {p} /\ \A y : y \in files' <=> y \in files /\ y[1] # p
  OBVIOUS
<1>4. \A u : u \in unseen' <=> u \in unseen /\ ~Under(p, u)
  OBVIOUS
<1>5. ASSUME NEW x \in Seq(Segs), ~Under(p, x) PROVE Unseen(x)' <=> Unseen(x)
  <2>1. \A u \in unseen : Under(u, x) => ~Under(p, u)
    <3>1. \A u \in unseen : u \in Seq(Segs)
      BY PathParts DEF UnseenOK
    <3>. QED BY <1>1, <1>5, <3>1, UnderOrder
  <2>. QED BY <1>4, <2>1 DEF Unseen
<1>6. \A x \in dirs : x # p => x \in Seq(Segs) /\ ~Under(p, x)
  BY <1>2, DirIsPath, PathParts
<1>7. Seen' = Seen \ {p}
  BY <1>3, <1>5, <1>6 DEF Seen
<1>8. ASSUME NEW y \in files, y[1] # p
      PROVE  Append(y[1], y[2]) \in Seq(Segs) /\ ~Under(p, Append(y[1], y[2]))
  <2>1. /\ y[1] \in dirs \cup {<<>>} /\ y[1] \in Seq(Segs) /\ y[2] \in Segs
        /\ Append(y[1], y[2]) \in Seq(Segs) /\ Append(y[1], y[2]) \notin dirs
    BY FileFacts
  <2>2. ~Under(p, <<>>)
    BY <1>1, PathParts DEF Under
  <2>3. ~Under(p, y[1])
    BY <1>6, <1>8, <2>1, <2>2
  <2>. QED BY <1>1, <2>1, <2>3, UnderAppend
<1>9. \A y \in files' : Unseen(Append(y[1], y[2]))' <=> Unseen(Append(y[1], y[2]))
  BY <1>3, <1>5, <1>8
<1>10. ASSUME NEW c \in Seen' PROVE Shown(c, U)' = Shown(c, U)
  <2>1. c # p
    BY <1>7, <1>10
  <2>2. ASSUME NEW n PROVE n \in Shown(c, U)' <=> n \in Shown(c, U)
    <3>1. n \in Shown(c, U) <=>
              \E y \in files : /\ y[1] = c /\ ~Unseen(Append(c, y[2]))
                               /\ Append(c, y[2]) \notin U /\ n = Norm[y[2]]
      BY ShownIs
    <3>2. n \in Shown(c, U)' <=>
              \E y \in files' : /\ y[1] = c /\ ~Unseen(Append(c, y[2]))'
                                /\ Append(c, y[2]) \notin U /\ n = Norm[y[2]]
      BY ShownIsNext
    <3>. QED BY <1>3, <1>9, <2>1, <3>1, <3>2
  <2>3. \A n : n \in Shown(c, U)' <=> n \in Shown(c, U)
    BY <2>2
  <2>. QED BY <2>3, SetExtensionality
<1>. DEFINE u == RemoveEntry(t, p)
<1>11. /\ DOMAIN u = {q \in DOMAIN t : ~Under(p, q)}
       /\ \A q \in DOMAIN u : u[q] = t[q]
  BY DEF RemoveEntry
<1>12. Good(u)
  BY <1>1, GoodRemove DEF Mirrors
<1>. HIDE DEF u
<1>13. DOMAIN u = Seen'
  <2>1. Under(p, p)
    BY <1>1, UnderOrder
  <2>2. \A q \in Seen : ~Under(p, q) <=> q # p
    BY <1>6, <2>1 DEF Seen
  <2>. QED BY <1>7, <1>11, <2>2 DEF Mirrors
<1>14. \A c \in Seen' : Lists(u[c].objects, Shown(c, U)')
  BY <1>7, <1>10, <1>11, <1>13 DEF Mirrors
<1>15. Mirrors(u, U)'
  BY <1>12, <1>13, <1>14 DEF Mirrors
<1>16. ASSUME NEW u1 \in unseen'
       PROVE  u1 \in PathLike /\ (u1 \in dirs' \/ IsFile(u1)')
  <2>1. u1 \in unseen /\ ~Under(p, u1) /\ u1 \in PathLike /\ (u1 \in dirs \/ IsFile(u1))
    BY <1>4, <1>16 DEF UnseenOK
  <2>2. u1 # p /\ u1 \in Seq(Segs)
    BY <1>1, <2>1, UnderOrder, PathParts
  <2>3. ASSUME IsFile(u1) PROVE IsFile(u1)'
    <3>1. <<Parent(u1), Name(u1)>> \in files /\ u1 = Append(Parent(u1), Name(u1))
      BY <2>1, <2>3, IsFileFacts
    <3>2. Parent(u1) # p
      <4>1. Parent(u1) \in Seq(Segs) /\ Name(u1) \in Segs
        BY <2>1, PathParts
      <4>. QED BY <2>1, <3>1, <4>1, UnderAppend
    <3>. DEFINE z == <<Parent(u1), Name(u1)>>
    <3>3. z \in files /\ z[1] # p
      BY <3>1, <3>2
    <3>. HIDE DEF z
    <3>4. z \in files'
      BY <1>3, <3>3
    <3>. QED BY <3>4 DEF IsFile, z
  <2>. QED BY <1>3, <2>1, <2>2, <2>3
<1>17. UnseenOK'
  BY <1>16 DEF UnseenOK
<1>. QED BY <1>9, <1>15, <1>17 DEF u

\* A directory or a file comes in from outside.
LEMMA MirrorsMovedIn ==
    ASSUME FsOK, UnseenOK, NEW p \in PathLike, p \notin dirs, ~IsFile(p),
           \/ dirs' = dirs \cup {p} /\ files' = files
           \/ dirs' = dirs /\ files' = files \cup {<<Parent(p), Name(p)>>},
           unseen' = unseen \cup {p}
    PROVE  /\ \A t, U : Mirrors(t, U) => Mirrors(t, U)'
           /\ UnseenOK'
           /\ \A y \in files : Unseen(Append(y[1], y[2]))' <=> Unseen(Append(y[1], y[2]))
           /\ Unseen(p)'
<1>1. p \in Seq(Segs) /\ p = Append(Parent(p), Name(p))
  BY PathParts
<1>2. Unseen(p)'
  BY <1>1, UnderOrder DEF Unseen
<1>3. ASSUME NEW x, ~Under(p, x) PROVE Unseen(x)' <=> Unseen(x)
  BY <1>3 DEF Unseen
<1>4. \A x \in dirs : Unseen(x)' <=> Unseen(x)
  BY <1>3, NothingUnder
<1>5. Seen' = Seen
  <2>1. dirs' = dirs \/ dirs' = dirs \cup {p}
    OBVIOUS
  <2>. QED BY <1>2, <1>4, <2>1 DEF Seen
<1>6. \A y \in files : Append(y[1], y[2]) # p /\ y # <<Parent(p), Name(p)>>
  BY FileFacts DEF IsFile
<1>7. \A y \in files : Unseen(Append(y[1], y[2]))' <=> Unseen(Append(y[1], y[2]))
  BY <1>3, <1>6, NothingUnder
<1>. DEFINE z == <<Parent(p), Name(p)>>
<1>8. /\ files' = files \/ files' = files \cup {z}
      /\ Append(z[1], z[2]) = p
  BY <1>1
<1>. HIDE DEF z
<1>9. ASSUME NEW c, NEW U PROVE Shown(c, U)' = Shown(c, U)
  <2>1. ASSUME NEW n PROVE n \in Shown(c, U)' <=> n \in Shown(c, U)
    <3>1. n \in Shown(c, U) <=>
              \E y \in files : /\ y[1] = c /\ ~Unseen(Append(c, y[2]))
                               /\ Append(c, y[2]) \notin U /\ n = Norm[y[2]]
      BY ShownIs
    <3>2. n \in Shown(c, U)' <=>
              \E y \in files' : /\ y[1] = c /\ ~Unseen(Append(c, y[2]))'
                                /\ Append(c, y[2]) \notin U /\ n = Norm[y[2]]
      BY ShownIsNext
    <3>. QED BY <1>2, <1>7, <1>8, <3>1, <3>2
  <2>2. \A n : n \in Shown(c, U)' <=> n \in Shown(c, U)
    BY <2>1
  <2>. QED BY <2>2, SetExtensionality
<1>10. ASSUME NEW t, NEW U, Mirrors(t, U) PROVE Mirrors(t, U)'
  BY <1>5, <1>9, <1>10 DEF Mirrors
<1>11. UnseenOK'
  <2>1. \A u \in unseen : u \in dirs' \/ IsFile(u)'
    BY DEF UnseenOK, IsFile
  <2>2. p \in dirs' \/ IsFile(p)'
    BY DEF IsFile
  <2>. QED BY <2>1, <2>2 DEF UnseenOK
<1>. QED BY <1>2, <1>7, <1>10, <1>11

-----------------------------------------------------------------------------
(***************************************************************************)
(* A directory is renamed in the one it lies in.                           *)
(***************************************************************************)
\* Of two paths above a third one, the shorter is above the longer.
LEMMA UnderChain ==
    ASSUME NEW x \in Seq(Segs), NEW p \in Seq(Segs), NEW y \in Seq(Segs),
           Under(x, y), Under(p, y)
    PROVE  Under(p, x) \/ (Under(x, p) /\ x # p)
<1>1. /\ Len(x) \in Nat /\ Len(p) \in Nat
      /\ Len(x) <= Len(y) /\ \A i \in 1 .. Len(x) : x[i] = y[i]
      /\ Len(p) <= Len(y) /\ \A i \in 1 .. Len(p) : p[i] = y[i]
  BY UnderIs
<1>2. CASE Len(p) <= Len(x)
  <2>1. \A i \in 1 .. Len(p) : i \in 1 .. Len(x) /\ p[i] = x[i]
    BY <1>1, <1>2
  <2>. QED BY <1>2, <2>1, UnderIs
<1>3. CASE ~(Len(p) <= Len(x))
  <2>1. Len(x) <= Len(p) /\ x # p
    BY <1>1, <1>3
  <2>2. \A i \in 1 .. Len(x) : i \in 1 .. Len(p) /\ p[i] = x[i]
    BY <1>1, <1>3
  <2>. QED BY <2>1, <2>2, UnderIs
<1>. QED BY <1>2, <1>3

\* What lies below a path still does after the rename.
\* y is the path x, which is below p, carried to o.
Rebased(y, x, p, o) ==
    /\ y \in Seq(Segs) /\ Len(y) = Len(o) + (Len(x) - Len(p)) /\ Len(x) - Len(p) \in Nat
    /\ \A i \in 1 .. Len(o) : y[i] = o[i]
    /\ \A i \in 1 .. Len(x) - Len(p) : y[Len(o) + i] = x[Len(p) + i]
    /\ Under(o, y)

LEMMA RebaseIs ==
    ASSUME NEW p \in Seq(Segs), NEW o \in Seq(Segs), NEW x \in Seq(Segs), Under(p, x)
    PROVE  Rebased(Rebase(x, p, o), x, p, o)
<1>. DEFINE y == Rebase(x, p, o)
<1>1. /\ y \in Seq(Segs) /\ Len(y) = Len(o) + (Len(x) - Len(p)) /\ Len(x) - Len(p) \in Nat
      /\ Under(o, y)
  BY RebaseFacts
<1>2. \A i \in 1 .. Len(o) : y[i] = o[i]
  BY RebaseFacts
<1>3. \A i \in 1 .. Len(x) - Len(p) : y[Len(o) + i] = x[Len(p) + i]
  BY RebaseFacts
<1>. QED BY <1>1, <1>2, <1>3 DEF Rebased

LEMMA MovedUnder ==
    ASSUME NEW p \in PathLike, NEW q \in PathLike, Parent(q) = Parent(p),
           NEW x \in Seq(Segs), NEW y \in Seq(Segs), Under(x, y)
    PROVE  Under(Moved(x, p, q), Moved(y, p, q))
<1>1. /\ p \in Seq(Segs) /\ q \in Seq(Segs) /\ Parent(p) \in Seq(Segs)
      /\ p = Append(Parent(p), Name(p)) /\ q = Append(Parent(p), Name(q))
      /\ Name(p) \in Segs /\ Name(q) \in Segs
      /\ Len(p) \in Nat /\ Len(q) = Len(p)
  BY PathParts
<1>2. CASE Under(p, x)
  <2>1. Under(p, y)
    BY <1>1, <1>2, UnderOrder
  <2>. DEFINE a == Rebase(x, p, q)
              b == Rebase(y, p, q)
              n == Len(p)
  <2>02. /\ a \in Seq(Segs)
         /\ Len(a) = Len(q) + (Len(x) - Len(p)) /\ Len(x) - Len(p) \in Nat
         /\ \A i \in 1 .. Len(q) : a[i] = q[i]
         /\ \A i \in 1 .. Len(x) - Len(p) : a[Len(q) + i] = x[Len(p) + i]
    <3>1. Rebased(a, x, p, q)
      BY <1>1, <1>2, RebaseIs
    <3>. HIDE DEF a
    <3>. QED BY <3>1 DEF Rebased
  <2>03. /\ b \in Seq(Segs)
         /\ Len(b) = Len(q) + (Len(y) - Len(p)) /\ Len(y) - Len(p) \in Nat
         /\ \A i \in 1 .. Len(q) : b[i] = q[i]
         /\ \A i \in 1 .. Len(y) - Len(p) : b[Len(q) + i] = y[Len(p) + i]
    <3>1. Rebased(b, y, p, q)
      BY <1>1, <2>1, RebaseIs
    <3>. HIDE DEF b
    <3>. QED BY <3>1 DEF Rebased
  <2>. HIDE DEF a, b
  <2>2. /\ a \in Seq(Segs) /\ Len(a) = Len(q) + (Len(x) - n) /\ Len(x) - n \in Nat
        /\ \A i \in 1 .. Len(q) : a[i] = q[i]
        /\ \A i \in 1 .. Len(x) - n : a[Len(q) + i] = x[n + i]
    BY <2>02
  <2>3. /\ b \in Seq(Segs) /\ Len(b) = Len(q) + (Len(y) - n) /\ Len(y) - n \in Nat
        /\ \A i \in 1 .. Len(q) : b[i] = q[i]
        /\ \A i \in 1 .. Len(y) - n : b[Len(q) + i] = y[n + i]
    BY <2>03
  <2>4. /\ Len(x) \in Nat /\ Len(y) \in Nat /\ Len(x) <= Len(y)
        /\ \A i \in 1 .. Len(x) : x[i] = y[i]
    BY UnderIs
  <2>. HIDE DEF n
  <2>5. Len(q) = n /\ n \in Nat
    BY <1>1 DEF n
  <2>6. Len(a) <= Len(b)
    BY <2>2, <2>3, <2>4, <2>5
  <2>7. ASSUME NEW i \in 1 .. Len(a) PROVE a[i] = b[i]
    <3>1. CASE i \in 1 .. n
      BY <2>2, <2>3, <2>5, <3>1
    <3>2. CASE i \notin 1 .. n
      <4>. DEFINE j == i - n
      <4>1. j \in 1 .. Len(x) - n /\ j \in 1 .. Len(y) - n /\ n + j \in 1 .. Len(x) /\ i = n + j
        BY <2>2, <2>3, <2>4, <2>5, <3>2
      <4>. HIDE DEF j
      <4>2. a[i] = x[n + j] /\ b[i] = y[n + j] /\ x[n + j] = y[n + j]
        BY <2>2, <2>3, <2>4, <2>5, <4>1
      <4>. QED BY <4>2
    <3>. QED BY <3>1, <3>2
  <2>8. Under(a, b)
    BY <2>2, <2>3, <2>6, <2>7, UnderIs
  <2>. QED BY <1>2, <2>1, <2>8 DEF Moved, a, b
<1>3. CASE ~Under(p, x) /\ Under(p, y)
  <2>1. Under(x, p) /\ x # p
    BY <1>1, <1>3, UnderChain
  <2>2. Under(x, Parent(p))
    <3>. DEFINE d == Parent(p)
    <3>1. d \in Seq(Segs) /\ Name(p) \in Segs /\ p = Append(d, Name(p))
      BY <1>1
    <3>. HIDE DEF d
    <3>2. Under(x, Append(d, Name(p))) <=> Under(x, d) \/ x = Append(d, Name(p))
      BY <3>1, UnderAppend
    <3>3. Under(x, d)
      BY <2>1, <3>1, <3>2
    <3>. QED BY <3>3 DEF d
  <2>3. Under(x, q)
    <3>. DEFINE d == Parent(p)
    <3>1. d \in Seq(Segs) /\ Name(q) \in Segs /\ q = Append(d, Name(q)) /\ Under(x, d)
      BY <1>1, <2>2
    <3>. HIDE DEF d
    <3>2. Under(x, Append(d, Name(q)))
      BY <3>1, UnderAppend
    <3>. QED BY <3>1, <3>2
  <2>4. Under(q, Rebase(y, p, q)) /\ Rebase(y, p, q) \in Seq(Segs)
    BY <1>1, <1>3, RebaseFacts
  <2>5. Under(x, Rebase(y, p, q))
    BY <1>1, <2>3, <2>4, UnderOrder
  <2>. QED BY <1>3, <2>5 DEF Moved
<1>4. CASE ~Under(p, y)
  <2>1. ~Under(p, x)
    BY <1>1, <1>4, UnderOrder
  <2>. QED BY <1>4, <2>1 DEF Moved
<1>. QED BY <1>2, <1>3, <1>4

\* The rename back.
LEMMA MovedBack ==
    ASSUME NEW p \in PathLike, NEW q \in PathLike, NEW x \in Seq(Segs), ~Under(q, x)
    PROVE  Moved(Moved(x, p, q), q, p) = x /\ Moved(x, p, q) \in Seq(Segs)
<1>1. p \in Seq(Segs) /\ q \in Seq(Segs)
  BY PathParts
<1>2. CASE Under(p, x)
  BY <1>1, <1>2, RebaseBack, RebaseFacts DEF Moved
<1>3. CASE ~Under(p, x)
  BY <1>1, <1>3 DEF Moved
<1>. QED BY <1>2, <1>3

LEMMA MovedOrder ==
    ASSUME NEW p \in PathLike, NEW q \in PathLike, Parent(q) = Parent(p),
           NEW x \in Seq(Segs), NEW y \in Seq(Segs), ~Under(q, x), ~Under(q, y)
    PROVE  Under(Moved(x, p, q), Moved(y, p, q)) <=> Under(x, y)
<1>. DEFINE a == Moved(x, p, q)
            b == Moved(y, p, q)
<1>1. /\ a \in Seq(Segs) /\ b \in Seq(Segs)
      /\ Moved(a, q, p) = x /\ Moved(b, q, p) = y
  BY MovedBack
<1>2. ASSUME Under(x, y) PROVE Under(a, b)
  BY <1>2, MovedUnder
<1>. HIDE DEF a, b
<1>3. ASSUME Under(a, b) PROVE Under(x, y)
  <2>1. Under(Moved(a, q, p), Moved(b, q, p))
    BY <1>1, <1>3, MovedUnder
  <2>. QED BY <1>1, <2>1
<1>4. Under(a, b) <=> Under(x, y)
  BY <1>2, <1>3
<1>. QED BY <1>4 DEF a, b

\* Where the path of a file is.
LEMMA MovedFile ==
    ASSUME NEW p \in PathLike, NEW q \in PathLike,
           NEW d \in Seq(Segs), NEW n \in Segs, Append(d, n) # p
    PROVE  Moved(Append(d, n), p, q) = Append(Moved(d, p, q), n)
<1>. DEFINE x == Append(d, n)
<1>1. /\ x \in Seq(Segs) /\ Parent(x) = d /\ Name(x) = n /\ x # p /\ x \in PathLike
      /\ p \in Seq(Segs) /\ q \in Seq(Segs)
  <2>1. x \in Seq(Segs) /\ Parent(x) = d /\ Name(x) = n /\ x # <<>>
    BY AppendParts
  <2>2. p \in Seq(Segs) /\ q \in Seq(Segs)
    BY PathParts
  <2>3. x # p
    OBVIOUS
  <2>. HIDE DEF x
  <2>. QED BY <2>1, <2>2, <2>3 DEF PathLike
<1>2. Under(p, x) <=> Under(p, d)
  BY <1>1, UnderAppend
<1>. HIDE DEF x
<1>3. CASE Under(p, x)
  <2>. DEFINE y == Rebase(x, p, q)
  <2>1. /\ Parent(y) = Rebase(d, p, q) /\ Name(y) = n /\ y # <<>>
        /\ y \in Seq(Segs)
    BY <1>1, <1>3, RebaseParts, RebaseFacts
  <2>2. y = Append(Parent(y), Name(y))
    <3>1. y \in PathLike
      BY <2>1 DEF PathLike
    <3>. HIDE DEF y
    <3>. QED BY <3>1, PathParts
  <2>. QED BY <1>2, <1>3, <2>1, <2>2 DEF Moved, x
<1>4. CASE ~Under(p, x)
  BY <1>2, <1>4 DEF Moved, x
<1>. QED BY <1>3, <1>4

LEMMA MoveDirFacts ==
    ASSUME FsOK, UnseenOK, NEW o \in dirs, NEW r \in PathLike, r \notin dirs,
           Parent(r) = Parent(o), Name(r) \in DirNames, MoveDir(o, r)
    PROVE  /\ UnseenOK'
           /\ Seen' = {Moved(x, o, r) : x \in Seen}
           /\ \A d \in dirs : Shown(Moved(d, o, r), {})' = Shown(d, {})
           /\ o \notin dirs' /\ r \in dirs' /\ (r \in Seen' <=> o \in Seen)
           /\ RawUnseen => RawUnseen'
<1>1. /\ dirs' = {Moved(x, o, r) : x \in dirs}
      /\ files' = {<<Moved(x[1], o, r), x[2]>> : x \in files}
      /\ unseen' = {Moved(x, o, r) : x \in unseen}
  BY DEF MoveDir
<1>2. o \in PathLike /\ r # o
  BY DirIsPath
<1>3. /\ \A x, y \in dirs \cup {<<>>} : Moved(x, o, r) = Moved(y, o, r) => x = y
      /\ Moved(o, o, r) = r /\ Moved(<<>>, o, r) = <<>>
      /\ \A x \in dirs : Moved(x, o, r) \in PathLike
  BY MovedApart
<1>4. \A y \in files : Append(y[1], y[2]) # r /\ Append(y[1], y[2]) # o
  <2>1. \A y \in files : /\ Name(Append(y[1], y[2])) \in AllFiles
                         /\ Append(y[1], y[2]) \notin dirs
    BY FileFacts
  <2>. QED BY <2>1, NamesApart
<1>5. \A u \in unseen : u \in PathLike /\ u # r
  <2>1. Name(r) \notin AllFiles
    BY NamesApart
  <2>2. ~IsFile(r)
    BY <2>1, IsFileFacts
  <2>. QED BY <2>2 DEF UnseenOK
<1>6. /\ \A x \in dirs \cup {<<>>} : ~Under(r, x)
      /\ \A y \in files : ~Under(r, Append(y[1], y[2]))
      /\ \A u \in unseen : ~Under(r, u)
  BY <1>4, <1>5, NothingUnder
<1>7. ASSUME NEW x \in Seq(Segs), ~Under(r, x)
      PROVE  Unseen(Moved(x, o, r))' <=> Unseen(x)
  <2>1. \A u \in unseen : Under(Moved(u, o, r), Moved(x, o, r)) <=> Under(u, x)
    <3>. SUFFICES ASSUME NEW u \in unseen
                  PROVE  Under(Moved(u, o, r), Moved(x, o, r)) <=> Under(u, x)
      OBVIOUS
    <3>1. u \in Seq(Segs) /\ ~Under(r, u)
      BY <1>5, <1>6, PathParts
    <3>. QED BY <1>2, <1>7, <3>1, MovedOrder
  <2>. QED BY <1>1, <2>1 DEF Unseen
<1>8. \A x \in dirs : Unseen(Moved(x, o, r))' <=> Unseen(x)
  <2>1. \A x \in dirs : x \in Seq(Segs)
    BY DirIsPath, PathParts
  <2>. QED BY <1>6, <1>7, <2>1
<1>9. \A y \in files :
         /\ Moved(Append(y[1], y[2]), o, r) = Append(Moved(y[1], o, r), y[2])
         /\ Unseen(Append(Moved(y[1], o, r), y[2]))' <=> Unseen(Append(y[1], y[2]))
  <2>. SUFFICES ASSUME NEW y \in files
                PROVE  /\ Moved(Append(y[1], y[2]), o, r) = Append(Moved(y[1], o, r), y[2])
                       /\ Unseen(Append(Moved(y[1], o, r), y[2]))' <=> Unseen(Append(y[1], y[2]))
    OBVIOUS
  <2>1. /\ y[1] \in Seq(Segs) /\ y[2] \in Segs /\ Append(y[1], y[2]) \in Seq(Segs)
        /\ Append(y[1], y[2]) # o
    BY <1>4, FileFacts
  <2>2. Moved(Append(y[1], y[2]), o, r) = Append(Moved(y[1], o, r), y[2])
    BY <1>2, <2>1, MovedFile
  <2>3. Unseen(Moved(Append(y[1], y[2]), o, r))' <=> Unseen(Append(y[1], y[2]))
    BY <1>6, <1>7, <2>1
  <2>. QED BY <2>2, <2>3
<1>10. Seen' = {Moved(x, o, r) : x \in Seen}
  <2>1. \A w \in Seen' : \E x \in Seen : w = Moved(x, o, r)
    BY <1>1, <1>8 DEF Seen
  <2>2. \A x \in Seen : Moved(x, o, r) \in Seen'
    BY <1>1, <1>8 DEF Seen
  <2>. QED BY <2>1, <2>2
<1>11. ASSUME NEW d \in dirs PROVE Shown(Moved(d, o, r), {})' = Shown(d, {})
  <2>. DEFINE c == Moved(d, o, r)
  <2>1. ASSUME NEW n PROVE n \in Shown(c, {})' <=> n \in Shown(d, {})
    <3>1. n \in Shown(d, {}) <=>
              \E y \in files : y[1] = d /\ ~Unseen(Append(d, y[2])) /\ n = Norm[y[2]]
      BY ShownIs
    <3>2. n \in Shown(c, {})' <=>
              \E w \in files' : w[1] = c /\ ~Unseen(Append(c, w[2]))' /\ n = Norm[w[2]]
      BY ShownIsNext
    <3>3. \A y \in files : /\ y[1] \in dirs \cup {<<>>}
                           /\ (Moved(y[1], o, r) = c <=> y[1] = d)
      BY <1>3, FileFacts
    <3>. HIDE DEF c
    <3>4. ASSUME NEW y \in files, y[1] = d, ~Unseen(Append(d, y[2])), n = Norm[y[2]]
          PROVE  \E w \in files' : w[1] = c /\ ~Unseen(Append(c, w[2]))' /\ n = Norm[w[2]]
      <4>. DEFINE w == <<Moved(y[1], o, r), y[2]>>
      <4>1. w \in files' /\ w[1] = Moved(y[1], o, r) /\ w[2] = y[2]
        BY <1>1
      <4>. HIDE DEF w
      <4>2. w[1] = c
        BY <3>3, <3>4, <4>1
      <4>3. ~Unseen(Append(c, w[2]))'
        BY <1>9, <3>4, <4>1, <4>2
      <4>. QED BY <3>4, <4>1, <4>2, <4>3
    <3>5. ASSUME NEW w \in files', w[1] = c, ~Unseen(Append(c, w[2]))', n = Norm[w[2]]
          PROVE  \E y \in files : y[1] = d /\ ~Unseen(Append(d, y[2])) /\ n = Norm[y[2]]
      <4>1. PICK y \in files : w = <<Moved(y[1], o, r), y[2]>>
        BY <1>1
      <4>2. w[1] = Moved(y[1], o, r) /\ w[2] = y[2]
        BY <4>1
      <4>3. y[1] = d
        BY <3>3, <3>5, <4>2
      <4>4. ~Unseen(Append(d, y[2]))
        BY <1>9, <3>5, <4>2, <4>3
      <4>. QED BY <3>5, <4>2, <4>3, <4>4
    <3>. QED BY <3>1, <3>2, <3>4, <3>5
  <2>2. \A n : n \in Shown(c, {})' <=> n \in Shown(d, {})
    BY <2>1
  <2>3. Shown(c, {})' = Shown(d, {})
    BY <2>2, SetExtensionality
  <2>. QED BY <2>3
<1>12. r \in dirs' /\ (r \in Seen' <=> o \in Seen)
  <2>1. r \in dirs'
    BY <1>1, <1>3
  <2>2. Unseen(r)' <=> Unseen(o)
    BY <1>3, <1>8
  <2>. QED BY <2>1, <2>2 DEF Seen
<1>13. o \notin dirs'
  <2>. SUFFICES ASSUME NEW x \in dirs, Moved(x, o, r) = o PROVE FALSE
    BY <1>1
  <2>0. x \in Seq(Segs) /\ o \in Seq(Segs) /\ r \in Seq(Segs) /\ Len(o) = Len(r)
    BY <1>2, DirIsPath, PathParts
  <2>1. Under(o, x)
    <3>1. Under(o, o)
      BY <2>0, UnderOrder
    <3>. QED BY <3>1 DEF Moved
  <2>2. Under(r, o)
    BY <2>0, <2>1, RebaseFacts DEF Moved
  <2>. QED BY <1>2, <2>0, <2>2, UnderOrder
<1>14. UnseenOK'
  <2>. SUFFICES ASSUME NEW u \in unseen
                PROVE  LET w == Moved(u, o, r)
                       IN  w \in PathLike /\ (w \in dirs' \/ IsFile(w)')
    BY <1>1 DEF UnseenOK
  <2>. DEFINE w == Moved(u, o, r)
  <2>1. CASE u \in dirs
    BY <1>1, <1>3, <2>1
  <2>2. CASE IsFile(u)
    <3>. DEFINE d == Parent(u)
                n == Name(u)
                z == <<d, n>>
    <3>1. z \in files /\ u = Append(d, n) /\ z[1] = d /\ z[2] = n
      BY <1>5, <2>2, IsFileFacts
    <3>. HIDE DEF d, n, z
    <3>2. w = Append(Moved(d, o, r), n) /\ <<Moved(d, o, r), n>> \in files'
      BY <1>1, <1>9, <3>1
    <3>3. d \in dirs \cup {<<>>} /\ n \in Segs
      BY <3>1, FileFacts
    <3>4. Moved(d, o, r) \in Seq(Segs)
      <4>1. <<>> \in Seq(Segs)
        OBVIOUS
      <4>2. d \in dirs => Moved(d, o, r) \in Seq(Segs)
        BY <1>3, PathParts
      <4>. QED BY <1>3, <3>3, <4>1, <4>2
    <3>5. w \in Seq(Segs) /\ w # <<>> /\ Parent(w) = Moved(d, o, r) /\ Name(w) = n
      BY <3>2, <3>3, <3>4, AppendParts
    <3>6. w \in PathLike /\ IsFile(w)'
      BY <3>2, <3>5 DEF PathLike, IsFile
    <3>. QED BY <3>6
  <2>. QED BY <2>1, <2>2 DEF UnseenOK
<1>15. ASSUME RawUnseen PROVE RawUnseen'
  <2>. SUFFICES ASSUME NEW w \in files', w[2] \in RawFiles, w[1] # <<>>
                PROVE  Unseen(Append(w[1], w[2]))'
    BY DEF RawUnseen
  <2>1. PICK y \in files : w = <<Moved(y[1], o, r), y[2]>>
    BY <1>1
  <2>2. w[1] = Moved(y[1], o, r) /\ w[2] = y[2]
    BY <2>1
  <2>3. y[1] # <<>>
    BY <1>3, <2>2
  <2>. QED BY <1>9, <1>15, <2>2, <2>3 DEF RawUnseen
<1>. QED BY <1>10, <1>11, <1>12, <1>13, <1>14, <1>15

LEMMA MirrorsMove ==
    ASSUME FsOK, UnseenOK, NEW o \in dirs, NEW r \in PathLike, r \notin dirs,
           Parent(r) = Parent(o), Name(r) \in DirNames, MoveDir(o, r), NEW t, Mirrors(t, {})
    PROVE  /\ o \in Seen => Mirrors(MoveEntry(t, o, r), {})'
           /\ o \notin Seen => Mirrors(t, {})'
<1>1. /\ Seen' = {Moved(x, o, r) : x \in Seen}
      /\ \A d \in dirs : Shown(Moved(d, o, r), {})' = Shown(d, {})
  BY MoveDirFacts
<1>2. DOMAIN t = Seen /\ Good(t) /\ Seen \subseteq dirs
  BY DEF Mirrors, Seen
<1>3. ASSUME o \in Seen PROVE Mirrors(MoveEntry(t, o, r), {})'
  <2>. DEFINE u == MoveEntry(t, o, r)
  <2>1. o \in DOMAIN t /\ r \notin DOMAIN t /\ TreeOK(t)
    BY <1>2, <1>3 DEF Good
  <2>2. /\ DOMAIN u = {Moved(x, o, r) : x \in DOMAIN t}
        /\ \A x \in DOMAIN t : u[Moved(x, o, r)] = t[x]
    BY <2>1, MoveFacts
  <2>3. Good(u)
    BY <1>2, <2>1, GoodMove
  <2>. HIDE DEF u
  <2>4. DOMAIN u = Seen'
    BY <1>1, <1>2, <2>2
  <2>5. \A c \in Seen' : Lists(u[c].objects, Shown(c, {})')
    <3>. SUFFICES ASSUME NEW c \in Seen' PROVE Lists(u[c].objects, Shown(c, {})')
      OBVIOUS
    <3>1. PICK x \in Seen : c = Moved(x, o, r)
      BY <1>1
    <3>2. Shown(c, {})' = Shown(x, {}) /\ u[c] = t[x]
      BY <1>1, <1>2, <2>2, <3>1
    <3>. QED BY <3>2 DEF Mirrors
  <2>6. Mirrors(u, {})'
    BY <2>3, <2>4, <2>5 DEF Mirrors
  <2>. QED BY <2>6 DEF u
<1>4. ASSUME o \notin Seen PROVE Mirrors(t, {})'
  <2>1. \A x \in Seen : Moved(x, o, r) = x
    <3>. SUFFICES ASSUME NEW x \in Seen, Under(o, x) PROVE FALSE
      BY DEF Moved
    <3>1. PICK u \in unseen : Under(u, o)
      BY <1>4 DEF Seen, Unseen
    <3>2. u \in Seq(Segs) /\ o \in Seq(Segs) /\ x \in Seq(Segs)
      BY <1>2, DirIsPath, PathParts DEF UnseenOK
    <3>3. Under(u, x)
      BY <3>1, <3>2, UnderOrder
    <3>. QED BY <3>3 DEF Seen, Unseen
  <2>2. Seen' = Seen
    BY <1>1, <2>1
  <2>3. \A c \in Seen' : Lists(t[c].objects, Shown(c, {})')
    BY <1>1, <1>2, <2>1, <2>2 DEF Mirrors
  <2>. QED BY <1>2, <2>2, <2>3 DEF Mirrors
<1>. QED BY <1>3, <1>4

\* Renamed twice, or renamed to what it is called, in the tree.
LEMMA MoveTwice ==
    ASSUME NEW t, TreeOK(t), NEW p \in DOMAIN t, NEW o \in PathLike, o \notin DOMAIN t,
           Parent(o) = Parent(p), NEW r \in PathLike, Parent(r) = Parent(p),
           r \notin DOMAIN t \/ r = p, r # o
    PROVE  MoveEntry(MoveEntry(t, p, o), o, r) = MoveEntry(t, p, r)
<1>. DEFINE u == MoveEntry(t, p, o)
            w == MoveEntry(u, o, r)
            v == MoveEntry(t, p, r)
<1>0. /\ p \in PathLike /\ \A x \in DOMAIN t : x \in Seq(Segs)
      /\ p \in Seq(Segs) /\ o \in Seq(Segs) /\ r \in Seq(Segs)
      /\ Len(p) = Len(o) /\ Len(r) = Len(o)
  BY PathParts DEF TreeOK, Hung
<1>1. /\ DOMAIN u = {Moved(x, p, o) : x \in DOMAIN t}
      /\ \A x \in DOMAIN t : u[Moved(x, p, o)] = t[x]
  BY MoveFacts
<1>2. /\ DOMAIN v = {Moved(x, p, r) : x \in DOMAIN t}
      /\ \A x \in DOMAIN t : v[Moved(x, p, r)] = t[x]
  BY MoveFacts
<1>3. TreeOK(u)
  BY MoveKeeps
<1>4. \A x \in DOMAIN t : ~Under(o, x)
  <2>. SUFFICES ASSUME NEW x \in DOMAIN t, Under(o, x) PROVE FALSE
    OBVIOUS
  <2>1. Nested(t)
    BY HungIsNested DEF TreeOK
  <2>2. Len(o) \in 1 .. Len(x) /\ Len(x) \in Nat /\ SubSeq(x, 1, Len(o)) = o /\ x # o
    BY <1>0, PathParts DEF Under
  <2>3. Len(o) # Len(x)
    BY <1>0, <2>2, UnderOrder
  <2>4. Len(o) \in 1 .. Len(x) - 1
    BY <2>2, <2>3
  <2>. QED BY <2>1, <2>2, <2>4 DEF Nested
<1>5. \A x \in DOMAIN t : Moved(Moved(x, p, o), o, r) = Moved(x, p, r)
  <2>. SUFFICES ASSUME NEW x \in DOMAIN t
                PROVE  Moved(Moved(x, p, o), o, r) = Moved(x, p, r)
    OBVIOUS
  <2>1. CASE ~Under(p, x)
    BY <1>4, <2>1 DEF Moved
  <2>2. CASE Under(p, x)
    <3>. DEFINE y == Rebase(x, p, o)
                a == Rebase(y, o, r)
                b == Rebase(x, p, r)
                n == Len(x) - Len(p)
    <3>01. Rebased(y, x, p, o) /\ Rebased(b, x, p, r)
      BY <1>0, <2>2, RebaseIs
    <3>. HIDE DEF y, b
    <3>1. /\ y \in Seq(Segs) /\ Len(y) = Len(o) + n /\ n \in Nat /\ Under(o, y)
          /\ \A i \in 1 .. n : y[Len(o) + i] = x[Len(p) + i]
      BY <3>01 DEF Rebased
    <3>2. /\ b \in Seq(Segs) /\ Len(b) = Len(r) + n
          /\ \A i \in 1 .. Len(r) : b[i] = r[i]
          /\ \A i \in 1 .. n : b[Len(r) + i] = x[Len(p) + i]
      BY <3>01 DEF Rebased
    <3>. HIDE DEF n
    <3>3. /\ a \in Seq(Segs) /\ Len(a) = Len(r) + n
          /\ \A i \in 1 .. Len(r) : a[i] = r[i]
          /\ \A i \in 1 .. n : a[Len(r) + i] = y[Len(o) + i]
      <4>1. Len(y) - Len(o) = n
        BY <1>0, <3>1
      <4>2. /\ a \in Seq(Segs) /\ Len(a) = Len(r) + (Len(y) - Len(o))
            /\ \A i \in 1 .. Len(r) : a[i] = r[i]
            /\ \A i \in 1 .. Len(y) - Len(o) : a[Len(r) + i] = y[Len(o) + i]
        <5>1. Rebased(a, y, o, r)
          BY <1>0, <3>1, RebaseIs
        <5>. HIDE DEF a
        <5>. QED BY <5>1 DEF Rebased
      <4>. QED BY <4>1, <4>2
    <3>. HIDE DEF a
    <3>4. ASSUME NEW i \in 1 .. Len(a) PROVE a[i] = b[i]
      <4>1. CASE i \in 1 .. Len(r)
        BY <3>2, <3>3, <4>1
      <4>2. CASE i \notin 1 .. Len(r)
        <5>. DEFINE j == i - Len(r)
        <5>1. j \in 1 .. n /\ i = Len(r) + j
          BY <1>0, <3>1, <3>3, <4>2
        <5>. HIDE DEF j
        <5>. QED BY <3>1, <3>2, <3>3, <5>1
      <4>. QED BY <4>1, <4>2
    <3>5. a = b
      BY <3>2, <3>3, <3>4, SeqEqual
    <3>. QED BY <2>2, <3>1, <3>5 DEF Moved, y, a, b
  <2>. QED BY <2>1, <2>2
<1>6. Moved(p, p, o) = o /\ o \in DOMAIN u
  <2>1. Under(p, p)
    BY <1>0, UnderOrder
  <2>2. Moved(p, p, o) = o
    BY <1>0, <2>1, RebaseSelf DEF Moved
  <2>. QED BY <1>1, <2>2
<1>7. r \notin DOMAIN u
  <2>. SUFFICES ASSUME NEW x \in DOMAIN t, Moved(x, p, o) = r PROVE FALSE
    BY <1>1
  <2>1. CASE Under(p, x)
    <3>1. Under(o, r)
      BY <1>0, <2>1, RebaseFacts DEF Moved
    <3>. QED BY <1>0, <3>1, UnderOrder
  <2>2. CASE ~Under(p, x)
    <3>1. x = r
      BY <2>2 DEF Moved
    <3>2. Under(p, p)
      BY <1>0, UnderOrder
    <3>. QED BY <2>2, <3>1, <3>2
  <2>. QED BY <2>1, <2>2
<1>. HIDE DEF u
<1>8. /\ DOMAIN w = {Moved(x, o, r) : x \in DOMAIN u}
      /\ \A x \in DOMAIN u : w[Moved(x, o, r)] = u[x]
  <2>1. o \in DOMAIN u /\ r \in PathLike /\ Parent(r) = Parent(o) /\ r \notin DOMAIN u /\ TreeOK(u)
    BY <1>3, <1>6, <1>7
  <2>. QED BY <2>1, MoveFacts
<1>9. w = [x \in DOMAIN w |-> w[x]] /\ v = [x \in DOMAIN v |-> v[x]]
  BY DEF MoveEntry
<1>. HIDE DEF w, v
<1>10. DOMAIN w = DOMAIN v
  BY <1>1, <1>2, <1>5, <1>8
<1>11. ASSUME NEW z \in DOMAIN v PROVE w[z] = v[z]
  <2>1. PICK x \in DOMAIN t : z = Moved(x, p, r)
    BY <1>2
  <2>. QED BY <1>1, <1>2, <1>5, <1>8, <2>1
<1>12. w = v
  BY <1>9, <1>10, <1>11
<1>. QED BY <1>12 DEF u, w, v

LEMMA MoveNowhere ==
    ASSUME NEW t, TreeOK(t), NEW p \in DOMAIN t
    PROVE  MoveEntry(t, p, p) = t
<1>0. p \in PathLike /\ p \in Seq(Segs) /\ \A x \in DOMAIN t : x \in Seq(Segs)
  BY PathParts DEF TreeOK, Hung
<1>1. \A x \in DOMAIN t : Moved(x, p, p) = x
  <2>. SUFFICES ASSUME NEW x \in DOMAIN t, Under(p, x) PROVE Rebase(x, p, p) = x
    BY DEF Moved
  <2>. DEFINE a == Rebase(x, p, p)
              n == Len(x) - Len(p)
  <2>1. /\ a \in Seq(Segs) /\ Len(a) = Len(p) + n /\ n \in Nat
        /\ \A i \in 1 .. Len(p) : a[i] = p[i]
        /\ \A i \in 1 .. n : a[Len(p) + i] = x[Len(p) + i]
    BY <1>0, RebaseFacts
  <2>2. Len(p) \in Nat /\ Len(x) \in Nat /\ \A i \in 1 .. Len(p) : p[i] = x[i]
    BY <1>0, UnderIs
  <2>3. Len(x) = Len(p) + n
    BY <2>2
  <2>. HIDE DEF a, n
  <2>4. ASSUME NEW i \in 1 .. Len(a) PROVE a[i] = x[i]
    <3>1. CASE i \in 1 .. Len(p)
      BY <2>1, <2>2, <3>1
    <3>2. CASE i \notin 1 .. Len(p)
      <4>. DEFINE j == i - Len(p)
      <4>1. j \in 1 .. n /\ i = Len(p) + j
        BY <2>1, <2>2, <3>2
      <4>. HIDE DEF j
      <4>. QED BY <2>1, <4>1
    <3>. QED BY <3>1, <3>2
  <2>5. x \in Seq(Segs) /\ Len(a) = Len(x)
    BY <1>0, <2>1, <2>3
  <2>6. a = x
    BY <2>1, <2>4, <2>5, SeqEqual
  <2>. QED BY <2>6 DEF a
<1>. DEFINE u == MoveEntry(t, p, p)
<1>2. /\ DOMAIN u = {Moved(x, p, p) : x \in DOMAIN t}
      /\ \A x \in DOMAIN t : u[Moved(x, p, p)] = t[x]
  BY <1>0, MoveFacts
<1>3. u = [x \in DOMAIN u |-> u[x]] /\ t = [x \in DOMAIN t |-> t[x]]
  BY DEF MoveEntry, TreeOK, Entries
<1>. HIDE DEF u
<1>4. DOMAIN u = DOMAIN t /\ \A x \in DOMAIN t : u[x] = t[x]
  BY <1>1, <1>2
<1>5. u = t
  BY <1>3, <1>4
<1>. QED BY <1>5 DEF u

-----------------------------------------------------------------------------
(***************************************************************************)
(* More events, and more changes.                                          *)
(***************************************************************************)
LEMMA JoinedParts ==
    ASSUME NEW s \in Seq(Events), NEW r \in Seq(Events)
    PROVE  /\ s \o r \in Seq(Events)
           /\ DOMAIN (s \o r) = 1 .. Len(s) + Len(r) /\ Len(s) \in Nat /\ Len(r) \in Nat
           /\ DOMAIN s = 1 .. Len(s) /\ DOMAIN r = 1 .. Len(r)
           /\ \A i \in DOMAIN s : i \in DOMAIN (s \o r) /\ (s \o r)[i] = s[i]
           /\ \A i \in DOMAIN r : Len(s) + i \in DOMAIN (s \o r) /\ (s \o r)[Len(s) + i] = r[i]
           /\ \A i \in DOMAIN (s \o r) :
                 \/ i \in DOMAIN s /\ (s \o r)[i] = s[i]
                 \/ \E j \in DOMAIN r : i = Len(s) + j /\ (s \o r)[i] = r[j]
<1>. DEFINE q == s \o r
            n == Len(s)
            m == Len(r)
<1>1. /\ q \in Seq(Events) /\ Len(q) = n + m /\ n \in Nat /\ m \in Nat
      /\ \A i \in 1 .. n + m : q[i] = IF i <= n THEN s[i] ELSE r[i - n]
      /\ DOMAIN s = 1 .. n /\ DOMAIN r = 1 .. m /\ DOMAIN q = 1 .. Len(q)
  BY ConcatProperties
<1>. HIDE DEF q, n, m
<1>2. DOMAIN q = 1 .. n + m
  BY <1>1
<1>3. \A i \in DOMAIN s : i \in DOMAIN q /\ q[i] = s[i]
  BY <1>1, <1>2
<1>4. \A i \in DOMAIN r : n + i \in DOMAIN q /\ q[n + i] = r[i]
  <2>. SUFFICES ASSUME NEW i \in DOMAIN r PROVE n + i \in DOMAIN q /\ q[n + i] = r[i]
    OBVIOUS
  <2>1. n + i \in 1 .. n + m /\ ~(n + i <= n) /\ (n + i) - n = i
    BY <1>1
  <2>. QED BY <1>1, <1>2, <2>1
<1>5. \A i \in DOMAIN q :
         \/ i \in DOMAIN s /\ q[i] = s[i]
         \/ \E j \in DOMAIN r : i = n + j /\ q[i] = r[j]
  <2>. SUFFICES ASSUME NEW i \in DOMAIN q
                PROVE  \/ i \in DOMAIN s /\ q[i] = s[i]
                       \/ \E j \in DOMAIN r : i = n + j /\ q[i] = r[j]
    OBVIOUS
  <2>1. CASE i <= n
    BY <1>1, <1>2, <2>1
  <2>2. CASE ~(i <= n)
    <3>1. i - n \in DOMAIN r /\ i = n + (i - n) /\ q[i] = r[i - n]
      BY <1>1, <1>2, <2>2
    <3>. QED BY <3>1
  <2>. QED BY <2>1, <2>2
<1>. QED BY <1>1, <1>2, <1>3, <1>4, <1>5 DEF q, n, m

\* A step that adds events, and may change the file system, while the course is even.
LEMMA EvenGrows ==
    ASSUME events \in Seq(Events), NEW v, EvenFrom(v), NEW more \in Seq(Events),
           events' = events \o more, skips' = skips,
           \A U \in SUBSET RawPaths : \A u :
              Mirrors(u, U) => \E w : Ends(u, Ops(more, U), w) /\ Mirrors(w, U)',
           \/ \A i \in DOMAIN more : ~RawMade(more[i])
           \/ /\ Len(more) = 1
              /\ \A j \in DOMAIN events : RawMade(events[j]) => events[j].path # more[1].path,
           \A i \in DOMAIN events : \A p :
              RawMade(events[i]) /\ events[i].path = p /\ IsFile(p)' =>
                 /\ IsFile(p)
                 /\ \A j \in DOMAIN more : more[j].kind = "both" => more[j].to # Normal(p),
           \A x \in files' :
              x[2] \in RawFiles /\ x[1] # <<>> /\ ~Unseen(Append(x[1], x[2]))' =>
                 \/ x \in files /\ ~Unseen(Append(x[1], x[2]))
                 \/ \E j \in DOMAIN more : RawMade(more[j]) /\ more[j].path = Append(x[1], x[2]),
           \A i \in DOMAIN more : EvenNamed(more[i])
    PROVE  EvenFrom(v)'
<1>0. PICK q : q = events \o more
  OBVIOUS
<1>. DEFINE n == Len(events)
<1>1. /\ q \in Seq(Events) /\ n \in Nat /\ DOMAIN more = 1 .. Len(more)
      /\ DOMAIN events = 1 .. n
      /\ \A i \in DOMAIN events : i \in DOMAIN q /\ q[i] = events[i]
      /\ \A i \in DOMAIN more : n + i \in DOMAIN q /\ q[n + i] = more[i]
      /\ \A i \in DOMAIN q : \/ i \in DOMAIN events /\ q[i] = events[i]
                             \/ \E j \in DOMAIN more : i = n + j /\ q[i] = more[j]
  BY <1>0, JoinedParts
<1>2. Predicted(v)'
  <2>. SUFFICES ASSUME NEW U \in SUBSET RawPaths
                PROVE  \E w : Ends(v, Ops(q, U), w) /\ Mirrors(w, U)'
    BY <1>0 DEF Predicted
  <2>1. PICK u : Ends(v, Ops(events, U), u) /\ Mirrors(u, U)
    BY DEF EvenFrom, Predicted
  <2>2. PICK w : Ends(u, Ops(more, U), w) /\ Mirrors(w, U)'
    BY <2>1
  <2>3. Ops(events, U) \in Seq(OpSet(U)) /\ Ops(more, U) \in Seq(OpSet(U))
    BY OpsParts
  <2>4. Ends(v, Ops(events, U) \o Ops(more, U), w)
    BY <2>1, <2>2, <2>3, EndsBoth
  <2>5. Ops(q, U) = Ops(events, U) \o Ops(more, U)
    BY <1>0, OpsJoined
  <2>. QED BY <2>2, <2>4, <2>5
<1>. HIDE DEF n
<1>3. events' = q
  BY <1>0
<1>4. OnceMade'
  <2>. SUFFICES ASSUME NEW i \in DOMAIN q, NEW j \in DOMAIN q,
                       RawMade(q[i]), RawMade(q[j]), q[i].path = q[j].path
                PROVE  i = j
    BY <1>3 DEF OnceMade, RawMade
  <2>1. CASE i \in DOMAIN events /\ j \in DOMAIN events
    BY <1>1, <2>1 DEF EvenFrom, OnceMade
  <2>2. CASE i \notin DOMAIN events /\ j \notin DOMAIN events
    BY <1>1, <2>2
  <2>3. CASE i \in DOMAIN events /\ j \notin DOMAIN events
    BY <1>1, <2>3
  <2>4. CASE i \notin DOMAIN events /\ j \in DOMAIN events
    BY <1>1, <2>4
  <2>. QED BY <2>1, <2>2, <2>3, <2>4
<1>5. NameKept'
  <2>. SUFFICES ASSUME NEW i \in DOMAIN q, NEW j \in DOMAIN q, NEW p,
                       RawMade(q[i]), q[i].path = p, IsFile(p)', j > i, q[j].kind = "both"
                PROVE  q[j].to # Normal(p)
    BY <1>3 DEF NameKept, RawMade, IsFile
  <2>1. CASE i \in DOMAIN events /\ j \in DOMAIN events
    <3>1. q[i] = events[i] /\ q[j] = events[j]
      BY <1>1, <2>1
    <3>2. IsFile(p)
      BY <2>1, <3>1
    <3>. QED BY <2>1, <3>1, <3>2 DEF EvenFrom, NameKept
  <2>2. CASE i \in DOMAIN events /\ j \notin DOMAIN events
    <3>1. q[i] = events[i]
      BY <1>1, <2>2
    <3>2. PICK k \in DOMAIN more : q[j] = more[k]
      BY <1>1, <2>2
    <3>. QED BY <2>2, <3>1, <3>2
  <2>3. CASE i \notin DOMAIN events
    <3>1. i = n + 1 /\ Len(more) = 1
      BY <1>1, <2>3
    <3>2. j \notin DOMAIN events
      BY <1>1, <3>1
    <3>. QED BY <1>1, <3>1, <3>2
  <2>. QED BY <2>1, <2>2, <2>3
<1>6. RawReported'
  <2>. SUFFICES ASSUME NEW x \in files', x[2] \in RawFiles, x[1] # <<>>,
                       ~Unseen(Append(x[1], x[2]))'
                PROVE  \E i \in DOMAIN q : RawMade(q[i]) /\ q[i].path = Append(x[1], x[2])
    BY <1>3 DEF RawReported, RawMade
  <2>1. CASE x \in files /\ ~Unseen(Append(x[1], x[2]))
    <3>1. PICK i \in DOMAIN events : RawMade(events[i]) /\ events[i].path = Append(x[1], x[2])
      BY <2>1 DEF EvenFrom, RawReported
    <3>. QED BY <1>1, <3>1
  <2>2. CASE \E j \in DOMAIN more : RawMade(more[j]) /\ more[j].path = Append(x[1], x[2])
    <3>1. PICK j \in DOMAIN more : RawMade(more[j]) /\ more[j].path = Append(x[1], x[2])
      BY <2>2
    <3>2. n + j \in DOMAIN q /\ q[n + j] = more[j]
      BY <1>1
    <3>. QED BY <3>1, <3>2
  <2>. QED BY <2>1, <2>2
<1>7. SkipsDue'
  <2>1. ASSUME NEW r, Due(events, r) PROVE Due(q, r)
    <3>1. PICK k \in DOMAIN events : BothTo(events[k], r) /\ Name(events[k].from) \notin FileNames
      BY <2>1 DEF Due
    <3>2. \A j \in DOMAIN events : j \in DOMAIN q /\ q[j] = events[j]
      BY <1>1
    <3>3. ASSUME NEW i \in DOMAIN q, BothTo(q[i], r), Name(q[i].from) \in FileNames
          PROVE  \E j \in DOMAIN q : j < i /\ BothTo(q[j], r) /\ Name(q[j].from) \notin FileNames
      <4>1. CASE i \in DOMAIN events
        <5>1. PICK j \in DOMAIN events :
                 j < i /\ BothTo(events[j], r) /\ Name(events[j].from) \notin FileNames
          BY <2>1, <3>2, <3>3, <4>1 DEF Due
        <5>. QED BY <3>2, <5>1
      <4>2. CASE i \notin DOMAIN events
        <5>1. k < i
          BY <1>1, <4>2
        <5>. QED BY <3>1, <3>2, <5>1
      <4>. QED BY <4>1, <4>2
    <3>. QED BY <3>1, <3>2, <3>3 DEF Due
  <2>2. \A s \in skips : /\ s[1] = "object" => Due(q, s[2])
                         /\ s[1] # "object" => Name(s[2]) \notin Names
    BY <2>1 DEF EvenFrom, SkipsDue
  <2>. QED BY <1>3, <2>2 DEF SkipsDue
<1>8. \A i \in DOMAIN events' : EvenNamed(events'[i])
  BY <1>1, <1>3 DEF EvenFrom
<1>9. (\A i \in DOMAIN events : EvenNamed(events[i]))'
  BY <1>8 DEF EvenNamed
<1>. QED BY <1>2, <1>4, <1>5, <1>6, <1>7, <1>9 DEF EvenFrom

-----------------------------------------------------------------------------
(***************************************************************************)
(* The watcher handles an event while the course is even.                  *)
(***************************************************************************)
\* The events that are left.
LEMMA TailParts ==
    ASSUME events \in Seq(Events), events # <<>>, NEW t, t = Tail(events)
    PROVE  /\ t \in Seq(Events) /\ DOMAIN t = 1 .. Len(t) /\ Len(t) \in Nat
           /\ DOMAIN events = 1 .. Len(t) + 1
           /\ \A i \in DOMAIN t : i + 1 \in DOMAIN events /\ t[i] = events[i + 1]
           /\ \A i \in DOMAIN events : i # 1 => i - 1 \in DOMAIN t /\ t[i - 1] = events[i]
<1>1. /\ t \in Seq(Events) /\ Len(events) = Len(t) + 1 /\ Len(t) \in Nat
      /\ \A i \in 1 .. Len(t) : t[i] = events[i + 1]
  OBVIOUS
<1>2. \A i \in 1 .. Len(t) + 1 : i # 1 => i - 1 \in 1 .. Len(t) /\ (i - 1) + 1 = i
  BY <1>1
<1>3. DOMAIN t = 1 .. Len(t) /\ DOMAIN events = 1 .. Len(t) + 1
  BY <1>1
<1>4. \A i \in DOMAIN t : i + 1 \in 1 .. Len(t) + 1 /\ t[i] = events[i + 1]
  BY <1>1, <1>3
<1>5. \A i \in DOMAIN events : i # 1 => i - 1 \in DOMAIN t /\ t[i - 1] = events[i]
  BY <1>2, <1>3, <1>4
<1>. QED BY <1>1, <1>3, <1>4, <1>5

\* What is due to a skip when the event at hand is not the rename to be skipped.
LEMMA SkipLeft ==
    ASSUME events \in Seq(Events), events # <<>>, NEW r, Due(events, r), ~BothTo(events[1], r),
           NEW more \in Seq(Events)
    PROVE  Due(Tail(events) \o more, r)
<1>1. PICK t : t = Tail(events)
  OBVIOUS
<1>2. PICK q : q = t \o more
  OBVIOUS
<1>3. /\ t \in Seq(Events) /\ DOMAIN t = 1 .. Len(t) /\ Len(t) \in Nat
      /\ DOMAIN events = 1 .. Len(t) + 1
      /\ \A i \in DOMAIN t : i + 1 \in DOMAIN events /\ t[i] = events[i + 1]
      /\ \A i \in DOMAIN events : i # 1 => i - 1 \in DOMAIN t /\ t[i - 1] = events[i]
  BY <1>1, TailParts
<1>4. /\ \A i \in DOMAIN t : i \in DOMAIN q /\ q[i] = t[i]
      /\ \A i \in DOMAIN q : i \in DOMAIN t \/ i > Len(t)
  <2>1. t \in Seq(Events)
    BY <1>3
  <2>. QED BY <1>2, <2>1, JoinedParts
<1>5. ASSUME NEW i \in DOMAIN t, BothTo(t[i], r), Name(t[i].from) \in FileNames
      PROVE  \E j \in DOMAIN t : j < i /\ BothTo(t[j], r) /\ Name(t[j].from) \notin FileNames
  <2>1. i + 1 \in DOMAIN events /\ events[i + 1] = t[i]
    BY <1>3
  <2>2. PICK j \in DOMAIN events :
           j < i + 1 /\ BothTo(events[j], r) /\ Name(events[j].from) \notin FileNames
    BY <1>5, <2>1 DEF Due
  <2>3. j # 1
    BY <2>2
  <2>4. j - 1 \in DOMAIN t /\ t[j - 1] = events[j] /\ j - 1 < i
    BY <1>3, <2>2, <2>3
  <2>. QED BY <2>2, <2>4
<1>6. PICK k \in DOMAIN t : BothTo(t[k], r) /\ Name(t[k].from) \notin FileNames
  <2>1. PICK i \in DOMAIN events : BothTo(events[i], r)
    BY DEF Due
  <2>2. i # 1
    BY <2>1
  <2>3. i - 1 \in DOMAIN t /\ t[i - 1] = events[i]
    BY <1>3, <2>2
  <2>. QED BY <1>5, <2>1, <2>3
<1>7. ASSUME NEW i \in DOMAIN q, BothTo(q[i], r), Name(q[i].from) \in FileNames
      PROVE  \E j \in DOMAIN q : j < i /\ BothTo(q[j], r) /\ Name(q[j].from) \notin FileNames
  <2>1. CASE i \in DOMAIN t
    <3>1. PICK j \in DOMAIN t : j < i /\ BothTo(t[j], r) /\ Name(t[j].from) \notin FileNames
      BY <1>4, <1>5, <1>7, <2>1
    <3>. QED BY <1>4, <3>1
  <2>2. CASE i \notin DOMAIN t
    <3>1. i > Len(t) /\ i \in Nat
      <4>1. t \in Seq(Events)
        BY <1>3
      <4>2. DOMAIN q = 1 .. Len(t) + Len(more) /\ Len(more) \in Nat /\ Len(t) \in Nat
        BY <1>2, <4>1, JoinedParts
      <4>. QED BY <1>4, <2>2, <4>2
    <3>2. k < i
      BY <1>3, <3>1
    <3>. QED BY <1>4, <1>6, <3>2
  <2>. QED BY <2>1, <2>2
<1>8. Due(q, r)
  BY <1>4, <1>6, <1>7 DEF Due
<1>. QED BY <1>1, <1>2, <1>8

\* The rest of what holds while the course is even, once what is told of the event
\* and the skips are dealt with.
LEMMA EvenDone ==
    ASSUME events \in Seq(Events), events # <<>>, NEW v, EvenFrom(v), NEW w,
           NEW more \in Seq(Events), events' = Tail(events) \o more,
           Predicted(w)', SkipsDue',
           \A i \in DOMAIN more : ~RawMade(more[i]) /\ EvenNamed(more[i]),
           \A i \in DOMAIN Tail(events) : \A p :
              RawMade(Tail(events)[i]) /\ Tail(events)[i].path = p /\ IsFile(p)' =>
                 /\ IsFile(p)
                 /\ \A j \in DOMAIN more : more[j].kind = "both" => more[j].to # Normal(p),
           \A x \in files' :
              x[2] \in RawFiles /\ x[1] # <<>> /\ ~Unseen(Append(x[1], x[2]))' =>
                 /\ x \in files /\ ~Unseen(Append(x[1], x[2]))
                 /\ RawMade(events[1]) => events[1].path # Append(x[1], x[2])
    PROVE  EvenFrom(w)'
<1>1. PICK t : t = Tail(events)
  OBVIOUS
<1>2. /\ t \in Seq(Events) /\ DOMAIN t = 1 .. Len(t) /\ Len(t) \in Nat
      /\ DOMAIN events = 1 .. Len(t) + 1
      /\ \A i \in DOMAIN t : i + 1 \in DOMAIN events /\ t[i] = events[i + 1]
      /\ \A i \in DOMAIN events : i # 1 => i - 1 \in DOMAIN t /\ t[i - 1] = events[i]
  BY <1>1, TailParts
<1>3. PICK q : q = t \o more
  OBVIOUS
<1>30. events' = q
  BY <1>1, <1>3
<1>31. t \in Seq(Events)
  BY <1>2
<1>4. /\ \A i \in DOMAIN t : i \in DOMAIN q /\ q[i] = t[i]
      /\ \A i \in DOMAIN q : \/ i \in DOMAIN t /\ q[i] = t[i]
                             \/ \E j \in DOMAIN more : i = Len(t) + j /\ q[i] = more[j]
  BY <1>31, <1>3, JoinedParts
<1>5. \A i \in DOMAIN q : RawMade(q[i]) => i \in DOMAIN t /\ q[i] = t[i]
  BY <1>4
<1>6. OnceMade'
  <2>. SUFFICES ASSUME NEW i \in DOMAIN q, NEW j \in DOMAIN q,
                       RawMade(q[i]), RawMade(q[j]), q[i].path = q[j].path
                PROVE  i = j
    BY <1>30 DEF OnceMade, RawMade
  <2>1. /\ i \in DOMAIN t /\ j \in DOMAIN t
        /\ i + 1 \in DOMAIN events /\ j + 1 \in DOMAIN events
        /\ q[i] = events[i + 1] /\ q[j] = events[j + 1]
    BY <1>2, <1>5
  <2>2. i + 1 = j + 1
    BY <2>1 DEF EvenFrom, OnceMade
  <2>. QED BY <1>2, <2>1, <2>2
<1>7. NameKept'
  <2>. SUFFICES ASSUME NEW i \in DOMAIN q, NEW j \in DOMAIN q, NEW p,
                       RawMade(q[i]), q[i].path = p, IsFile(p)', j > i, q[j].kind = "both"
                PROVE  q[j].to # Normal(p)
    BY <1>30 DEF NameKept, RawMade, IsFile
  <2>1. /\ i \in DOMAIN t /\ i + 1 \in DOMAIN events
        /\ q[i] = events[i + 1] /\ q[i] = t[i]
    BY <1>2, <1>5
  <2>2. IsFile(p) /\ \A k \in DOMAIN more : more[k].kind = "both" => more[k].to # Normal(p)
    BY <1>1, <2>1
  <2>3. CASE j \in DOMAIN t
    <3>1. j + 1 \in DOMAIN events /\ q[j] = events[j + 1] /\ j + 1 > i + 1
      BY <1>2, <1>4, <2>1, <2>3
    <3>. QED BY <2>1, <2>2, <3>1 DEF EvenFrom, NameKept
  <2>4. CASE j \notin DOMAIN t
    <3>1. PICK k \in DOMAIN more : q[j] = more[k]
      BY <1>4, <2>4
    <3>. QED BY <2>2, <3>1
  <2>. QED BY <2>3, <2>4
<1>8. RawReported'
  <2>. SUFFICES ASSUME NEW x \in files', x[2] \in RawFiles, x[1] # <<>>,
                       ~Unseen(Append(x[1], x[2]))'
                PROVE  \E i \in DOMAIN q : RawMade(q[i]) /\ q[i].path = Append(x[1], x[2])
    BY <1>30 DEF RawReported, RawMade
  <2>1. /\ x \in files /\ ~Unseen(Append(x[1], x[2]))
        /\ RawMade(events[1]) => events[1].path # Append(x[1], x[2])
    OBVIOUS
  <2>2. PICK i \in DOMAIN events : RawMade(events[i]) /\ events[i].path = Append(x[1], x[2])
    BY <2>1 DEF EvenFrom, RawReported
  <2>3. i # 1
    BY <2>1, <2>2
  <2>4. i - 1 \in DOMAIN q /\ q[i - 1] = events[i]
    BY <1>2, <1>4, <2>3
  <2>. QED BY <2>2, <2>4
<1>9. \A i \in DOMAIN events' : EvenNamed(events'[i])
  <2>1. ASSUME NEW i \in DOMAIN q PROVE EvenNamed(q[i])
    <3>1. CASE i \in DOMAIN t /\ q[i] = t[i]
      <4>1. i + 1 \in DOMAIN events /\ q[i] = events[i + 1]
        BY <1>2, <3>1
      <4>. QED BY <4>1 DEF EvenFrom
    <3>2. CASE \E j \in DOMAIN more : i = Len(t) + j /\ q[i] = more[j]
      BY <3>2
    <3>. QED BY <1>4, <3>1, <3>2
  <2>. QED BY <1>30, <2>1
<1>10. (\A i \in DOMAIN events : EvenNamed(events[i]))'
  BY <1>9 DEF EvenNamed
<1>. QED BY <1>6, <1>7, <1>8, <1>10 DEF EvenFrom

LEMMA OpsSame ==
    ASSUME NEW s, NEW U, NEW V,
           \A i \in DOMAIN s : s[i].kind = "create_file" => (s[i].path \in U <=> s[i].path \in V)
    PROVE  Ops(s, U) = Ops(s, V)
<1>1. \A i \in DOMAIN s : EOp(s[i], U) = EOp(s[i], V)
  BY DEF EOp
<1>. QED BY <1>1 DEF Ops

\* Names that normalisation leaves, and those it does not.
LEMMA FileNamesApart ==
    /\ \A n \in RawFiles : n \notin FileNames
    /\ \A n \in AllFiles : Norm[n] \in FileNames
    /\ \A n \in AllFiles : n \in RawFiles <=> n \notin FileNames
    /\ \A n \in AllFiles : n \notin RawFiles <=> Norm[n] = n
BY NormAssumption DEF AllFiles

LEMMA EventOne ==
    ASSUME events \in Seq(Events), events # <<>>
    PROVE  /\ events[1] = Head(events) /\ 1 \in DOMAIN events /\ events[1] \in Events
           /\ Tail(events) \in Seq(Events) /\ Tail(events) \o <<>> = Tail(events)
<1>1. Tail(events) \in Seq(Events)
  OBVIOUS
<1>2. events[1] = Head(events) /\ 1 \in DOMAIN events /\ events[1] \in Events
  OBVIOUS
<1>. QED BY <1>1, <1>2

LEMMA NoSecond ==
    ASSUME events \in Seq(Events), events # <<>>, OnceMade, RawMade(events[1]),
           NEW i \in DOMAIN Tail(events), Tail(events)[i].kind = "create_file"
    PROVE  Tail(events)[i].path # events[1].path
<1>1. /\ i + 1 \in DOMAIN events /\ Tail(events)[i] = events[i + 1] /\ i + 1 # 1
      /\ 1 \in DOMAIN events
  BY EventsLeft
<1>. SUFFICES ASSUME Tail(events)[i].path = events[1].path PROVE FALSE
  OBVIOUS
<1>2. events[i + 1].kind = "create_file" /\ events[i + 1].path = events[1].path
  BY <1>1
<1>3. RawMade(events[i + 1])
  BY <1>2 DEF RawMade
<1>. QED BY <1>1, <1>2, <1>3 DEF OnceMade

\* The prediction goes on from what the event at hand tells.
LEMMA PredictedRest ==
    ASSUME events \in Seq(Events), events # <<>>, NEW v, Predicted(v),
           NEW U, NEW V \in SUBSET RawPaths,
           \A i \in DOMAIN Tail(events) : Tail(events)[i].kind = "create_file" =>
              (Tail(events)[i].path \in U <=> Tail(events)[i].path \in V)
    PROVE  /\ ~Panics(v, EOp(events[1], V))
           /\ \E u : /\ Ends(Do(v, EOp(events[1], V)), Ops(Tail(events), U), u)
                     /\ Mirrors(u, V)
<1>1. PICK u : Ends(v, Ops(events, V), u) /\ Mirrors(u, V)
  BY DEF Predicted
<1>2. /\ Ops(events, V) \in Seq(OpSet(V)) /\ Ops(events, V) # <<>>
      /\ Head(Ops(events, V)) = EOp(events[1], V)
      /\ Tail(Ops(events, V)) = Ops(Tail(events), V)
  BY OpsParts, EventOne
<1>3. /\ ~Panics(v, EOp(events[1], V))
      /\ Ends(Do(v, EOp(events[1], V)), Ops(Tail(events), V), u)
  BY <1>1, <1>2, EndsFirst
<1>4. Ops(Tail(events), U) = Ops(Tail(events), V)
  BY OpsSame
<1>. QED BY <1>1, <1>3, <1>4

\* An event whose file system stays as it is: a file whose name is not allowed is not
\* among them, unless it lies in the root.
LEMMA EvenNext ==
    ASSUME FsOK, events \in Seq(Events), events # <<>>, NEW v, EvenFrom(v),
           NEW c, c = Do(v, EOp(events[1], {})),
           events' = Tail(events), UNCHANGED fs, skips' \subseteq skips,
           events[1].kind = "both" =>
              \A s \in skips' : s[1] = "object" => s[2] # events[1].to,
           RawMade(events[1]) => Len(events[1].path) = 1
    PROVE  ~Panics(v, EOp(events[1], {})) /\ EvenFrom(c)'
<1>0. Predicted(v) /\ SkipsDue
  BY DEF EvenFrom
<1>1. ~Panics(v, EOp(events[1], {}))
  <2>1. {} \in SUBSET RawPaths
    OBVIOUS
  <2>2. /\ ~Panics(v, EOp(events[1], {}))
        /\ \E u : /\ Ends(Do(v, EOp(events[1], {})), Ops(Tail(events), {}), u)
                  /\ Mirrors(u, {})
    BY <1>0, <2>1, PredictedRest
  <2>. QED BY <2>2
<1>2. ASSUME NEW U \in SUBSET RawPaths PROVE EOp(events[1], U) = EOp(events[1], {})
  <2>1. CASE RawMade(events[1])
    <3>0. Len(events[1].path) = 1
      BY <2>1
    <3>1. events[1].kind = "create_file" /\ ~(Len(events[1].path) > 1)
      BY <2>1, <3>0 DEF RawMade
    <3>. QED BY <3>1 DEF EOp
  <2>2. CASE ~RawMade(events[1])
    <3>1. events[1].kind = "create_file" => events[1].path \notin U
      BY <2>2 DEF RawMade, RawPaths
    <3>. QED BY <3>1 DEF EOp
  <2>. QED BY <2>1, <2>2
<1>4. ASSUME NEW U \in SUBSET RawPaths
      PROVE  \E u : Ends(c, Ops(Tail(events), U), u) /\ Mirrors(u, U)
  <2>1. \E u : Ends(Do(v, EOp(events[1], U)), Ops(Tail(events), U), u) /\ Mirrors(u, U)
    BY <1>0, PredictedRest
  <2>. QED BY <1>2, <2>1
<1>5. Predicted(c)'
  BY <1>4, FsSame DEF Predicted
<1>6. SkipsDue'
  <2>1. <<>> \in Seq(Events) /\ events' = Tail(events) \o <<>>
    BY EventOne, NoMore
  <2>2. ASSUME NEW s \in skips', s[1] = "object" PROVE Due(events', s[2])
    <3>1. Due(events, s[2]) /\ ~BothTo(events[1], s[2])
      BY <1>0, <2>2 DEF SkipsDue, BothTo
    <3>. QED BY <2>1, <3>1, SkipLeft
  <2>3. ASSUME NEW s \in skips', s[1] # "object" PROVE Name(s[2]) \notin Names
    BY <1>0, <2>3 DEF SkipsDue
  <2>. QED BY <2>2, <2>3 DEF SkipsDue
<1>7. ASSUME NEW x \in files', x[2] \in RawFiles, x[1] # <<>>, ~Unseen(Append(x[1], x[2]))'
      PROVE  /\ x \in files /\ ~Unseen(Append(x[1], x[2]))
             /\ RawMade(events[1]) => events[1].path # Append(x[1], x[2])
  <2>1. x \in files /\ ~Unseen(Append(x[1], x[2]))
    BY <1>7, FsSame
  <2>2. x[1] \in Seq(Segs) /\ x[2] \in Segs
    BY <2>1, FileFacts
  <2>3. Len(Append(x[1], x[2])) # 1
    BY <1>7, <2>2
  <2>. QED BY <2>1, <2>3
<1>8. \A p : IsFile(p)' => IsFile(p)
  BY FsSame
<1>9. EvenFrom(c)'
  <2>1. <<>> \in Seq(Events) /\ events' = Tail(events) \o <<>>
    BY EventOne, NoMore
  <2>2. \A x \in files' :
           x[2] \in RawFiles /\ x[1] # <<>> /\ ~Unseen(Append(x[1], x[2]))' =>
              /\ x \in files /\ ~Unseen(Append(x[1], x[2]))
              /\ RawMade(events[1]) => events[1].path # Append(x[1], x[2])
    BY <1>7
  <2>. DEFINE more == <<>>
  <2>3. \A i \in DOMAIN more : FALSE
    OBVIOUS
  <2>4. more \in Seq(Events) /\ events' = Tail(events) \o more
    BY <2>1
  <2>. HIDE DEF more
  <2>5. \A i \in DOMAIN more : ~RawMade(more[i]) /\ EvenNamed(more[i])
    BY <2>3
  <2>6. \A i \in DOMAIN Tail(events) : \A p :
           RawMade(Tail(events)[i]) /\ Tail(events)[i].path = p /\ IsFile(p)' =>
              /\ IsFile(p)
              /\ \A j \in DOMAIN more : more[j].kind = "both" => more[j].to # Normal(p)
    BY <1>8, <2>3
  <2>. QED BY <1>5, <1>6, <2>2, <2>4, <2>5, <2>6, EvenDone
<1>. QED BY <1>1, <1>9

\* A file whose name is not allowed and which is gone when its event is handled.
LEMMA EvenGone ==
    ASSUME FsOK, events \in Seq(Events), events # <<>>, NEW v, EvenFrom(v),
           events' = Tail(events), UNCHANGED <<fs, skips>>,
           RawMade(events[1]), NEW p \in PathLike, p = events[1].path, ~IsFile(p)
    PROVE  EvenFrom(v)'
<1>0. Predicted(v) /\ SkipsDue /\ OnceMade
  BY DEF EvenFrom
<1>1. p \in RawPaths
  BY DEF RawMade, RawPaths
<1>2. ASSUME NEW U \in SUBSET RawPaths
      PROVE  \E u : Ends(v, Ops(Tail(events), U), u) /\ Mirrors(u, U)
  <2>1. PICK V : V = U \cup {p}
    OBVIOUS
  <2>2. V \in SUBSET RawPaths
    BY <1>1, <2>1
  <2>3. \A i \in DOMAIN Tail(events) : Tail(events)[i].kind = "create_file" =>
           (Tail(events)[i].path \in U <=> Tail(events)[i].path \in V)
    BY <1>0, <2>1, NoSecond
  <2>4. PICK u : /\ Ends(Do(v, EOp(events[1], V)), Ops(Tail(events), U), u)
                 /\ Mirrors(u, V)
    BY <1>0, <2>2, <2>3, PredictedRest
  <2>5. EOp(events[1], V) = Nop
    <3>1. events[1].kind = "create_file" /\ events[1].path \in V
      BY <2>1 DEF RawMade
    <3>. QED BY <3>1 DEF EOp
  <2>6. Do(v, EOp(events[1], V)) = v
    BY <2>5 DEF Do, Nop
  <2>7. Mirrors(u, U)
    BY <2>1, <2>4, MirrorsMissing
  <2>. QED BY <2>4, <2>6, <2>7
<1>3. Predicted(v)'
  BY <1>2, FsSame DEF Predicted
<1>4. SkipsDue'
  <2>1. <<>> \in Seq(Events) /\ events' = Tail(events) \o <<>>
    BY EventOne, NoMore
  <2>2. \A r : ~BothTo(events[1], r)
    BY DEF BothTo, RawMade
  <2>3. ASSUME NEW s \in skips', s[1] = "object" PROVE Due(events', s[2])
    <3>1. Due(events, s[2])
      BY <1>0, <2>3 DEF SkipsDue
    <3>. QED BY <2>1, <2>2, <3>1, SkipLeft
  <2>4. ASSUME NEW s \in skips', s[1] # "object" PROVE Name(s[2]) \notin Names
    BY <1>0, <2>4 DEF SkipsDue
  <2>. QED BY <2>3, <2>4 DEF SkipsDue
<1>5. ASSUME NEW x \in files', x[2] \in RawFiles, x[1] # <<>>, ~Unseen(Append(x[1], x[2]))'
      PROVE  /\ x \in files /\ ~Unseen(Append(x[1], x[2]))
             /\ events[1].path # Append(x[1], x[2])
  <2>1. x \in files /\ ~Unseen(Append(x[1], x[2]))
    BY <1>5, FsSame
  <2>2. IsFile(Append(x[1], x[2]))
    BY <2>1, FileFacts
  <2>. QED BY <2>1, <2>2
<1>6. \A r : IsFile(r)' => IsFile(r)
  BY FsSame
<1>. DEFINE more == <<>>
<1>7. more \in Seq(Events) /\ events' = Tail(events) \o more /\ \A i \in DOMAIN more : FALSE
  BY EventOne, NoMore
<1>. HIDE DEF more
<1>8. \A i \in DOMAIN more : ~RawMade(more[i]) /\ EvenNamed(more[i])
  BY <1>7
<1>9. \A i \in DOMAIN Tail(events) : \A r :
         RawMade(Tail(events)[i]) /\ Tail(events)[i].path = r /\ IsFile(r)' =>
            /\ IsFile(r)
            /\ \A j \in DOMAIN more : more[j].kind = "both" => more[j].to # Normal(r)
  BY <1>6, <1>7
<1>10. \A x \in files' :
          x[2] \in RawFiles /\ x[1] # <<>> /\ ~Unseen(Append(x[1], x[2]))' =>
             /\ x \in files /\ ~Unseen(Append(x[1], x[2]))
             /\ RawMade(events[1]) => events[1].path # Append(x[1], x[2])
  BY <1>5
<1>. QED BY <1>3, <1>4, <1>7, <1>8, <1>9, <1>10, EvenDone

\* What the two events of a rename tell when the name was not allowed.
LEMMA RenamedIdle ==
    ASSUME NEW p \in PathLike, NEW q \in PathLike, Renamed(p, q) \in Seq(Events),
           Name(p) \notin FileNames, NEW t, NEW U
    PROVE  Ends(t, Ops(Renamed(p, q), U), t)
<1>1. PICK m : m = Renamed(p, q)
  OBVIOUS
<1>2. /\ DOMAIN m = {1, 2} /\ Len(m) = 2 /\ m[1].kind = "from"
      /\ m[2].kind = "both" /\ m[2].from = p /\ m[2].to = q
  BY <1>1 DEF Renamed, Event
<1>3. EOp(m[1], U) = Nop /\ EOp(m[2], U) = Nop
  BY <1>2 DEF EOp
<1>4. PICK o : o = Ops(m, U)
  OBVIOUS
<1>5. Len(o) = 2 /\ o[1] = Nop /\ o[2] = Nop
  BY <1>1, <1>2, <1>3, <1>4, OpsParts
<1>6. Do(t, Nop) = t /\ ~Panics(t, Nop)
  BY DEF Do, Nop, Panics
<1>7. \A i \in 1 .. Len(o) : Do(t, o[i]) = t /\ ~Panics(t, o[i])
  BY <1>5, <1>6
<1>8. Ends(t, o, t)
  BY <1>5, <1>7, EndsIdle
<1>. QED BY <1>1, <1>4, <1>8

\* The path normalisation makes of a file's, and that no file has it.
LEMMA NormalisedFree ==
    ASSUME FsOK, Distinct(dirs, files), NEW p \in PathLike, IsFile(p), Name(p) \in RawFiles,
           NEW q, q = Normal(p)
    PROVE  /\ q \in PathLike /\ Parent(q) = Parent(p) /\ Name(q) = Norm[Name(p)]
           /\ Name(q) \in FileNames /\ Name(p) \notin FileNames /\ Norm[Name(q)] = Norm[Name(p)]
           /\ q # p /\ Len(q) = Len(p) /\ ~IsFile(q) /\ Renamed(p, q) \in Seq(Events)
           /\ \A y \in files : y[1] = Parent(p) /\ Norm[y[2]] = Norm[Name(p)]
                                 => y = <<Parent(p), Name(p)>>
<1>1. <<Parent(p), Name(p)>> \in files /\ Name(p) \in AllFiles
  BY IsFileFacts
<1>2. Norm[Name(p)] \in FileNames /\ Name(p) \notin FileNames
  BY <1>1, FileNamesApart
<1>3. Norm[Name(p)] \in Segs /\ Norm[Norm[Name(p)]] = Norm[Name(p)]
  BY <1>2, NormAssumption, NamesApart DEF AllFiles
<1>4. /\ q \in PathLike /\ Parent(q) = Parent(p) /\ Name(q) = Norm[Name(p)]
      /\ Len(q) = Len(p)
  BY <1>3, RenamedParts DEF Normal
<1>. DEFINE z == <<Parent(p), Name(p)>>
<1>5. z \in files /\ z[1] = Parent(p) /\ z[2] = Name(p)
  BY <1>1
<1>. HIDE DEF z
<1>6. \A y \in files : y[1] = Parent(p) /\ Norm[y[2]] = Norm[Name(p)] => y = z
  BY <1>5 DEF Distinct
<1>7. ASSUME IsFile(q) PROVE FALSE
  <2>. DEFINE y == <<Parent(q), Name(q)>>
  <2>1. y \in files /\ y[1] = Parent(p) /\ y[2] = Name(q)
    BY <1>4, <1>7 DEF IsFile
  <2>. HIDE DEF y
  <2>2. y = z
    BY <1>3, <1>4, <1>6, <2>1
  <2>. QED BY <1>2, <1>4, <1>5, <2>1, <2>2
<1>8. Renamed(p, q) \in Seq(Events)
  BY NormalFile
<1>. QED BY <1>2, <1>3, <1>4, <1>6, <1>7, <1>8 DEF z

\* A file whose name is not allowed gets the one normalisation makes of it.
LEMMA EvenNormalised ==
    ASSUME FsOK, UnseenOK, Distinct(dirs, files),
           events \in Seq(Events), events # <<>>, NEW v, EvenFrom(v),
           RawMade(events[1]), NEW p \in PathLike, p = events[1].path, Len(p) > 1, IsFile(p),
           NEW q, q = Normal(p), MoveFile(p, q),
           events' = Tail(events) \o Renamed(p, q), skips' = skips \cup {<<"object", q>>},
           NEW c, c = [type |-> "new_object", at |-> Parent(p), name |-> Name(q)]
    PROVE  EvenFrom(Do(v, c))' /\ UnseenOK' /\ ~Panics(v, c)
<1>0. /\ Predicted(v) /\ SkipsDue /\ OnceMade /\ NameKept
      /\ events[1].kind = "create_file" /\ Name(p) \in RawFiles
  BY DEF EvenFrom, RawMade
<1>1. /\ q \in PathLike /\ Parent(q) = Parent(p) /\ Name(q) = Norm[Name(p)]
      /\ Name(q) \in FileNames /\ Name(p) \notin FileNames /\ Norm[Name(q)] = Norm[Name(p)]
      /\ q # p /\ Len(q) = Len(p) /\ ~IsFile(q) /\ Renamed(p, q) \in Seq(Events)
      /\ \A y \in files : y[1] = Parent(p) /\ Norm[y[2]] = Norm[Name(p)]
                            => y = <<Parent(p), Name(p)>>
  BY <1>0, NormalisedFree
<1>2. /\ UnseenOK'
      /\ \A y : y \in files' <=> (y \in files /\ y # <<Parent(p), Name(p)>>)
                                    \/ y = <<Parent(q), Name(q)>>
      /\ \A y \in files : y # <<Parent(p), Name(p)>> =>
            (Unseen(Append(y[1], y[2]))' <=> Unseen(Append(y[1], y[2])))
  <2>1. Name(q) \in AllFiles
    BY <1>1 DEF AllFiles
  <2>. QED BY <1>1, <2>1, RenamedFileFacts
<1>3. \A i \in DOMAIN Tail(events) : Tail(events)[i].kind = "create_file"
         => Tail(events)[i].path # p
  BY <1>0, NoSecond
<1>4. PICK more \in Seq(Events) : more = Renamed(p, q)
  BY <1>1
<1>5. /\ DOMAIN more = {1, 2} /\ more[1].kind = "from" /\ more[2].kind = "both"
      /\ more[2].from = p /\ more[2].to = q
  BY <1>4 DEF Renamed, Event
<1>6. ASSUME NEW U \in SUBSET RawPaths
      PROVE  \E u : Ends(Do(v, c), Ops(Tail(events) \o more, U), u) /\ Mirrors(u, U)'
  <2>1. PICK V : V = U \ {p}
    OBVIOUS
  <2>2. V \in SUBSET RawPaths
    BY <2>1
  <2>3. \A i \in DOMAIN Tail(events) : Tail(events)[i].kind = "create_file" =>
           (Tail(events)[i].path \in U <=> Tail(events)[i].path \in V)
    BY <1>3, <2>1
  <2>4. PICK u : /\ Ends(Do(v, EOp(events[1], V)), Ops(Tail(events), U), u)
                 /\ Mirrors(u, V)
    BY <1>0, <2>2, <2>3, PredictedRest
  <2>5. EOp(events[1], V) = c
    <3>1. events[1].path \notin V
      BY <2>1
    <3>. QED BY <1>0, <1>1, <3>1 DEF EOp
  <2>6. Mirrors(u, U)'
    BY <1>1, <2>1, <2>4, MirrorsNormalised
  <2>7. Ends(u, Ops(more, U), u)
    BY <1>1, <1>4, RenamedIdle
  <2>8. Ends(Do(v, c), Ops(Tail(events), U) \o Ops(more, U), u)
    <3>1. Tail(events) \in Seq(Events)
      BY EventOne
    <3>2. Ops(Tail(events), U) \in Seq(OpSet(U)) /\ Ops(more, U) \in Seq(OpSet(U))
      BY <3>1, OpsParts
    <3>3. Ends(Do(v, c), Ops(Tail(events), U), u)
      BY <2>4, <2>5
    <3>. DEFINE a == Ops(Tail(events), U)
                b == Ops(more, U)
                S == OpSet(U)
    <3>4. a \in Seq(S) /\ b \in Seq(S) /\ Ends(Do(v, c), a, u) /\ Ends(u, b, u)
      BY <2>7, <3>2, <3>3
    <3>. HIDE DEF a, b, S
    <3>5. Ends(Do(v, c), a \o b, u)
      BY <3>4, EndsBoth
    <3>. QED BY <3>5 DEF a, b
  <2>9. Ops(Tail(events) \o more, U) = Ops(Tail(events), U) \o Ops(more, U)
    <3>. DEFINE a == Tail(events)
    <3>1. a \in Seq(Events) /\ more \in Seq(Events)
      BY EventOne
    <3>. HIDE DEF a
    <3>2. Ops(a \o more, U) = Ops(a, U) \o Ops(more, U)
      BY <3>1, OpsJoined
    <3>. QED BY <3>2 DEF a
  <2>. QED BY <2>6, <2>8, <2>9
<1>60. PICK w : w = Do(v, c)
  OBVIOUS
<1>7. Predicted(w)'
  BY <1>4, <1>6, <1>60 DEF Predicted
<1>8. SkipsDue'
  <2>1. \A r : ~BothTo(events[1], r)
    BY <1>0 DEF BothTo
  <2>2. ASSUME NEW s \in skips, s[1] = "object" PROVE Due(events', s[2])
    <3>1. Due(events, s[2])
      BY <1>0, <2>2 DEF SkipsDue
    <3>. QED BY <1>4, <2>1, <3>1, SkipLeft
  <2>3. ASSUME NEW s \in skips, s[1] # "object" PROVE Name(s[2]) \notin Names
    BY <1>0, <2>3 DEF SkipsDue
  <2>4. Due(events', q)
    <3>1. PICK t : t = Tail(events)
      OBVIOUS
    <3>2. /\ t \in Seq(Events) /\ DOMAIN t = 1 .. Len(t) /\ Len(t) \in Nat
          /\ \A i \in DOMAIN t : i + 1 \in DOMAIN events /\ t[i] = events[i + 1] /\ i + 1 > 1
      BY <3>1, TailParts
    <3>3. /\ \A i \in DOMAIN more : Len(t) + i \in DOMAIN (t \o more) /\ (t \o more)[Len(t) + i] = more[i]
          /\ \A i \in DOMAIN (t \o more) :
                \/ i \in DOMAIN t /\ (t \o more)[i] = t[i]
                \/ \E j \in DOMAIN more : i = Len(t) + j /\ (t \o more)[i] = more[j]
      <4>1. t \in Seq(Events)
        BY <3>2
      <4>. QED BY <4>1, JoinedParts
    <3>4. \A i \in DOMAIN t : ~BothTo(t[i], q)
      <4>1. 1 \in DOMAIN events
        BY EventOne
      <4>2. \A j \in DOMAIN events : j > 1 /\ events[j].kind = "both" => events[j].to # q
        BY <1>0, <4>1 DEF NameKept
      <4>. QED BY <3>2, <4>2 DEF BothTo
    <3>5. Len(t) + 2 \in DOMAIN (t \o more) /\ (t \o more)[Len(t) + 2] = more[2]
      BY <1>5, <3>3
    <3>6. \E i \in DOMAIN (t \o more) : BothTo((t \o more)[i], q)
      BY <1>5, <3>5 DEF BothTo
    <3>7. \A j \in DOMAIN more : BothTo(more[j], q) => Name(more[j].from) \notin FileNames
      BY <1>1, <1>5 DEF BothTo
    <3>8. \A i \in DOMAIN (t \o more) : BothTo((t \o more)[i], q) =>
             Name((t \o more)[i].from) \notin FileNames
      BY <3>3, <3>4, <3>7
    <3>9. Due(t \o more, q)
      BY <3>6, <3>8 DEF Due
    <3>. QED BY <1>4, <3>1, <3>9
  <2>5. \A s \in skips' : s \in skips \/ (s[1] = "object" /\ s[2] = q)
    OBVIOUS
  <2>. QED BY <2>2, <2>3, <2>4, <2>5 DEF SkipsDue
<1>9. \A i \in DOMAIN more : ~RawMade(more[i]) /\ EvenNamed(more[i])
  BY <1>1, <1>5 DEF RawMade, EvenNamed
<1>10. \A i \in DOMAIN Tail(events) : \A r :
          RawMade(Tail(events)[i]) /\ Tail(events)[i].path = r /\ IsFile(r)' =>
             /\ IsFile(r)
             /\ \A j \in DOMAIN more : more[j].kind = "both" => more[j].to # Normal(r)
  <2>. SUFFICES ASSUME NEW i \in DOMAIN Tail(events), NEW r, RawMade(Tail(events)[i]),
                       Tail(events)[i].path = r, IsFile(r)'
                PROVE  IsFile(r) /\ q # Normal(r)
    BY <1>5
  <2>1. /\ Tail(events)[i] \in Events /\ Tail(events)[i].kind = "create_file"
        /\ Name(r) \in RawFiles
    BY EventOne DEF RawMade
  <2>2. r \in PathLike /\ r # p
    BY <1>3, <2>1, EventFacts DEF PathKinds
  <2>3. <<Parent(r), Name(r)>> \in files'
    BY DEF IsFile
  <2>4. Name(r) # Name(q)
    BY <1>1, <2>1, FileNamesApart
  <2>5. <<Parent(r), Name(r)>> \in files /\ <<Parent(r), Name(r)>> # <<Parent(p), Name(p)>>
    BY <1>2, <2>3, <2>4, <2>2, PathParts
  <2>6. IsFile(r)
    BY <2>5 DEF IsFile
  <2>7. ASSUME q = Normal(r) PROVE FALSE
    <3>1. Norm[Name(r)] \in Segs
      BY <2>1, NamesApart DEF AllFiles
    <3>2. Parent(q) = Parent(r) /\ Name(q) = Norm[Name(r)]
      BY <2>2, <2>7, <3>1, RenamedParts DEF Normal
    <3>. QED BY <1>1, <2>5, <3>2
  <2>. QED BY <2>6, <2>7
<1>11. ASSUME NEW x \in files', x[2] \in RawFiles, x[1] # <<>>, ~Unseen(Append(x[1], x[2]))'
       PROVE  /\ x \in files /\ ~Unseen(Append(x[1], x[2]))
              /\ events[1].path # Append(x[1], x[2])
  <2>1. x # <<Parent(q), Name(q)>>
    BY <1>1, <1>11, FileNamesApart
  <2>2. x \in files /\ x # <<Parent(p), Name(p)>>
    BY <1>2, <2>1
  <2>3. /\ x = <<x[1], x[2]>> /\ Parent(Append(x[1], x[2])) = x[1]
        /\ Name(Append(x[1], x[2])) = x[2]
    BY <2>2, FileFacts
  <2>4. Append(x[1], x[2]) # p
    BY <2>2, <2>3
  <2>. QED BY <1>2, <1>11, <2>2, <2>4
<1>12. \A x \in files' :
          x[2] \in RawFiles /\ x[1] # <<>> /\ ~Unseen(Append(x[1], x[2]))' =>
             /\ x \in files /\ ~Unseen(Append(x[1], x[2]))
             /\ RawMade(events[1]) => events[1].path # Append(x[1], x[2])
  BY <1>11
<1>13. events' = Tail(events) \o more
  BY <1>4
<1>14. EvenFrom(w)'
  BY <1>7, <1>8, <1>9, <1>10, <1>12, <1>13, EvenDone
<1>15. ~Panics(v, c)
  BY DEF Panics
<1>. QED BY <1>2, <1>14, <1>15, <1>60
=============================================================================
