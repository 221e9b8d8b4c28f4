------------------------- MODULE IndexFollowsProofs -------------------------
(***************************************************************************)
(* Proofs about DirectoryIndex: as long as the index may follow, both      *)
(* tasks are there, and when nothing is left to handle the index is the    *)
(* directory.  The argument is a prediction: what is in the mailbox of the *)
(* manager, and then what is in that of the watcher, takes the tree to one *)
(* that mirrors the directory as it is now, without a panic on the way.    *)
(* Here it is carried through every step (FollowInv).                      *)
(***************************************************************************)
EXTENDS IndexMirrorsProofs

-----------------------------------------------------------------------------
(***************************************************************************)
(* The steps of the service while the course is even.                      *)
(***************************************************************************)
LEMMA Followed ==
    ASSUME course' = course, watching', alive', UnseenOK', SkipsOK',
           NEW w, Good(w), Ends(tree, mailbox, w)',
           course = "even" => EvenFrom(w)',
           course = "renaming" => RenamingFrom(w)'
    PROVE  FollowInv'
BY DEF FollowInv, From

\* What the manager is told takes the tree on.
LEMMA TellDoes ==
    ASSUME NEW v, Predicts(v), NEW c \in Messages, ~Panics(v, c), Tell(c)
    PROVE  Ends(tree, mailbox, Do(v, c))' /\ alive' /\ course' = course
<1>1. /\ mailbox' = Append(mailbox, c) /\ tree' = tree /\ alive' = alive /\ course' = course
  BY DEF Tell, users, Predicts
<1>2. mailbox \in Seq(Messages) /\ Ends(tree, mailbox, v)
  BY DEF Predicts, IndInv, From
<1>3. Ends(tree, Append(mailbox, c), Do(v, c))
  BY <1>2, EndsMore
<1>4. PICK w : w = Do(v, c)
  OBVIOUS
<1>5. Ends(tree, mailbox, w)'
  BY <1>1, <1>3, <1>4
<1>. QED BY <1>1, <1>4, <1>5 DEF Predicts

LEMMA TellsNothing ==
    ASSUME NEW v, Predicts(v), TellNothing
    PROVE  Ends(tree, mailbox, v)' /\ alive' /\ course' = course
BY DEF Predicts, From, TellNothing, manager, users, Ends

LEMMA DoIsGood ==
    ASSUME NEW t, Good(t), NEW c \in Messages, ~Panics(t, c),
           c.type = "new_object" => c.name \in FileNames,
           c.type = "name_object" => c.to \in FileNames
    PROVE  Good(Do(t, c))
<1>1. CASE c.type = "what_is"
  BY <1>1 DEF Do
<1>2. CASE c.type # "what_is"
  <2>1. c.type # "none"
    BY MessageFacts
  <2>2. Do(t, c) = Apply(t, c)
    BY <1>2, <2>1 DEF Do
  <2>. QED BY <1>2, <2>2, ApplyIsGood
<1>. QED BY <1>1, <1>2

\* The event at hand is handled, and the manager told of it or of nothing.
LEMMA EvenHandled ==
    ASSUME NEW v, Predicts(v), course = "even", events # <<>>,
           events' = Tail(events), UNCHANGED <<fs, watching>>, skips' \subseteq skips,
           events[1].kind = "both" =>
              \A s \in skips' : s[1] = "object" => s[2] # events[1].to,
           RawMade(events[1]) => Len(events[1].path) = 1,
           \/ TellNothing /\ EOp(events[1], {}) = Nop
           \/ \E c \in Messages :
                 /\ Tell(c)
                 /\ c.type = "new_object" => c.name \in FileNames
                 /\ c.type = "name_object" => c.to \in FileNames
                 /\ \/ c = EOp(events[1], {})
                    \/ Do(v, c) = v /\ ~Panics(v, c) /\ EOp(events[1], {}) = Nop
    PROVE  FollowInv'
<1>1. /\ FsOK /\ events \in Seq(Events) /\ EvenFrom(v) /\ Good(v) /\ UnseenOK /\ SkipsOK
      /\ watching
  BY DEF Predicts, IndInv, EventsOK, From
<1>2. PICK w : w = Do(v, EOp(events[1], {}))
  OBVIOUS
<1>3. ~Panics(v, EOp(events[1], {})) /\ EvenFrom(w)'
  BY <1>1, <1>2, EvenNext
<1>4. EOp(events[1], {}) = Nop => w = v
  BY <1>2 DEF Do, Nop
<1>5. Good(w) /\ Ends(tree, mailbox, w)' /\ alive' /\ course' = course
  <2>1. CASE TellNothing /\ EOp(events[1], {}) = Nop
    BY <1>1, <1>4, <2>1, TellsNothing
  <2>2. ASSUME NEW c \in Messages, Tell(c),
               c.type = "new_object" => c.name \in FileNames,
               c.type = "name_object" => c.to \in FileNames,
               \/ c = EOp(events[1], {})
               \/ Do(v, c) = v /\ ~Panics(v, c) /\ EOp(events[1], {}) = Nop
        PROVE  Good(w) /\ Ends(tree, mailbox, w)' /\ alive' /\ course' = course
    <3>1. w = Do(v, c) /\ ~Panics(v, c)
      BY <1>2, <1>3, <1>4, <2>2
    <3>2. Ends(tree, mailbox, w)' /\ alive' /\ course' = course
      BY <2>2, <3>1, TellDoes
    <3>3. Good(w)
      BY <1>1, <2>2, <3>1, DoIsGood
    <3>. QED BY <3>2, <3>3
  <2>. QED BY <2>1, <2>2
<1>6. UnseenOK' /\ SkipsOK' /\ watching'
  BY <1>1, FsSame DEF SkipsOK
<1>. QED BY <1>3, <1>5, <1>6, Followed

\* What holds of the event at hand.
LEMMA EvenAtHand ==
    ASSUME NEW v, Predicts(v), NEW kind, Handles(kind)
    PROVE  /\ events \in Seq(Events) /\ events # <<>> /\ e = events[1]
           /\ events[1] \in Events /\ events[1].kind = kind
           /\ FsOK /\ UnseenOK /\ Good(v) /\ watching /\ SkipsOK
           /\ Distinct(dirs, files) /\ Tail(events) \o <<>> = Tail(events)
           /\ course = "even" => EvenFrom(v) /\ EvenNamed(events[1])
<1>1. /\ events \in Seq(Events) /\ events # <<>> /\ e.kind = kind
      /\ FsOK /\ UnseenOK /\ Good(v) /\ watching /\ SkipsOK
      /\ Distinct(dirs, files)
      /\ course = "even" => EvenFrom(v)
  BY DEF Predicts, IndInv, EventsOK, From, CourseInv, Handles
<1>2. /\ e = events[1] /\ events[1] \in Events /\ 1 \in DOMAIN events
      /\ Tail(events) \o <<>> = Tail(events)
  BY <1>1, EventOne DEF e
<1>3. EvenFrom(v) => EvenNamed(events[1])
  BY <1>2 DEF EvenFrom
<1>. QED BY <1>1, <1>2, <1>3

LEMMA EvenCreateFolder ==
    ASSUME NEW v, Predicts(v), course = "even", HandleCreateFolder
    PROVE  FollowInv'
<1>1. Handles("create_folder")
  BY DEF HandleCreateFolder
<1>2. /\ events \in Seq(Events) /\ events # <<>> /\ e = events[1] /\ events[1] \in Events
      /\ events[1].kind = "create_folder" /\ Tail(events) \o <<>> = Tail(events)
      /\ EvenNamed(events[1])
  BY <1>1, EvenAtHand
<1>3. PICK p : p = events[1].path
  OBVIOUS
<1>4. p \in PathLike /\ Name(p) \in Names
  BY <1>2, <1>3, EventFacts DEF PathKinds, EvenNamed
<1>5. NormalNew(p) = p
  <2>1. Norm[Name(p)] = Name(p) /\ Norm[Name(p)] # Empty
    BY <1>4, NormAssumption, KindsAssumption
  <2>. QED BY <1>4, <2>1, PathParts DEF NormalNew, Normal
<1>6. Done(<<>>) /\ UNCHANGED <<fs, skips>> /\ Tell(NewFolder(p))
  BY <1>2, <1>3, <1>5 DEF HandleCreateFolder
<1>7. events' = Tail(events) /\ watching' = watching
  BY <1>2, <1>6 DEF Done
<1>8. NewFolder(p) \in Messages /\ NewFolder(p).type \in {"new_bucket", "new_key"}
  BY <1>4, NewFolderIsMessage DEF NewFolder
<1>9. EOp(events[1], {}) = NewFolder(p)
  BY <1>2, <1>3 DEF EOp
<1>10. PICK c : c = NewFolder(p)
  OBVIOUS
<1>11. /\ c \in Messages /\ Tell(c) /\ c = EOp(events[1], {})
       /\ c.type = "new_object" => c.name \in FileNames
       /\ c.type = "name_object" => c.to \in FileNames
  BY <1>6, <1>8, <1>9, <1>10
<1>12. ~RawMade(events[1]) /\ events[1].kind # "both"
  BY <1>2 DEF RawMade
<1>13. skips' \subseteq skips /\ fs' = fs
  BY <1>6
<1>. QED BY <1>2, <1>7, <1>11, <1>12, <1>13, EvenHandled

LEMMA EvenCreateFile ==
    ASSUME NEW v, Predicts(v), course = "even", HandleCreateFile
    PROVE  FollowInv'
<1>1. Handles("create_file")
  BY DEF HandleCreateFile
<1>2. /\ events \in Seq(Events) /\ events # <<>> /\ e = events[1] /\ events[1] \in Events
      /\ events[1].kind = "create_file" /\ Tail(events) \o <<>> = Tail(events)
      /\ EvenNamed(events[1]) /\ FsOK /\ UnseenOK /\ Good(v) /\ Distinct(dirs, files)
      /\ EvenFrom(v) /\ watching /\ SkipsOK
  BY <1>1, EvenAtHand
<1>3. PICK p : p = events[1].path
  OBVIOUS
<1>4. PICK q : q = Normal(p)
  OBVIOUS
<1>5. PICK c : c = [type |-> "new_object", at |-> Parent(p), name |-> Name(q)]
  OBVIOUS
<1>6. p \in PathLike /\ Name(p) \in AllFiles /\ Parent(p) \in Seq(Segs)
  BY <1>2, <1>3, EventFacts, PathParts DEF PathKinds, EvenNamed
<1>7. Norm[Name(p)] \in FileNames /\ Norm[Name(p)] \in Segs
  BY <1>6, FileNamesApart, NamesApart DEF AllFiles
<1>8. Name(q) = Norm[Name(p)] /\ q = Append(Parent(p), Norm[Name(p)])
  BY <1>4, <1>6, <1>7, RenamedParts DEF Normal
<1>9. c \in Messages /\ c.type = "new_object" /\ c.name \in FileNames
  BY <1>5, <1>6, <1>7, <1>8 DEF Messages
<1>10. RawMade(events[1]) <=> Name(p) \in RawFiles
  BY <1>2, <1>3 DEF RawMade
<1>11. q = p <=> Name(p) \notin RawFiles
  <2>1. q = p <=> Norm[Name(p)] = Name(p)
    BY <1>6, <1>8, PathParts
  <2>. QED BY <1>6, <2>1, FileNamesApart
<1>12. events[1].kind # "both"
  BY <1>2
<1>17. (Len(p) = 1 /\ ~(Len(p) > 1)) \/ (Len(p) > 1 /\ Len(p) # 1)
  <2>1. Len(p) \in Nat /\ Len(p) # 0
    BY <1>6, PathParts
  <2>2. \A n \in Nat : n # 0 => (n = 1 /\ ~(n > 1)) \/ (n > 1 /\ n # 1)
    OBVIOUS
  <2>. QED BY <2>1, <2>2
<1>18. \/ /\ Len(p) > 1 /\ q = p
          /\ Done(<<>>) /\ UNCHANGED <<fs, skips>> /\ Tell(c)
       \/ /\ Len(p) = 1 \/ (q # p /\ ~IsFile(p))
          /\ Done(<<>>) /\ UNCHANGED <<fs, skips>> /\ TellNothing
       \/ /\ Len(p) > 1 /\ q # p /\ IsFile(p)
          /\ MoveFile(p, q) /\ Done(Renamed(p, q)) /\ skips' = skips \cup {<<"object", q>>}
          /\ Tell(c)
  BY <1>2, <1>3, <1>4, <1>5 DEF HandleCreateFile
<1>13. CASE Len(p) > 1 /\ q = p
  <2>1. Done(<<>>) /\ UNCHANGED <<fs, skips>> /\ Tell(c)
    <3>1. Len(p) # 1
      BY <1>13, <1>17
    <3>. QED BY <1>13, <1>18, <3>1
  <2>2. events' = Tail(events) /\ watching' = watching /\ fs' = fs /\ skips' \subseteq skips
    BY <1>2, <2>1 DEF Done
  <2>3. c = EOp(events[1], {})
    BY <1>2, <1>3, <1>5, <1>8, <1>13 DEF EOp
  <2>4. ~RawMade(events[1])
    BY <1>10, <1>11, <1>13
  <2>. QED BY <1>2, <1>9, <1>12, <2>1, <2>2, <2>3, <2>4, EvenHandled
<1>14. CASE Len(p) = 1
  <2>1. Done(<<>>) /\ UNCHANGED <<fs, skips>> /\ TellNothing
    BY <1>14, <1>17, <1>18
  <2>2. events' = Tail(events) /\ watching' = watching /\ fs' = fs /\ skips' \subseteq skips
    BY <1>2, <2>1 DEF Done
  <2>3. EOp(events[1], {}) = Nop
    BY <1>2, <1>3, <1>14 DEF EOp
  <2>4. RawMade(events[1]) => Len(events[1].path) = 1
    BY <1>3, <1>14
  <2>. QED BY <1>2, <1>12, <2>1, <2>2, <2>3, <2>4, EvenHandled
<1>15. CASE Len(p) > 1 /\ q # p /\ ~IsFile(p)
  <2>1. Done(<<>>) /\ UNCHANGED <<fs, skips>> /\ TellNothing
    BY <1>15, <1>18
  <2>2. events' = Tail(events) /\ watching' = watching /\ fs' = fs /\ skips' = skips
    BY <1>2, <2>1 DEF Done
  <2>3. RawMade(events[1])
    BY <1>10, <1>11, <1>15
  <2>4. EvenFrom(v)'
    BY <1>2, <1>3, <1>6, <1>15, <2>2, <2>3, EvenGone
  <2>5. Ends(tree, mailbox, v)' /\ alive' /\ course' = course
    BY <2>1, TellsNothing
  <2>6. UnseenOK' /\ SkipsOK' /\ watching'
    BY <1>2, <2>2, FsSame DEF SkipsOK
  <2>. QED BY <1>2, <2>4, <2>5, <2>6, Followed
<1>16. CASE Len(p) > 1 /\ q # p /\ IsFile(p)
  <2>1. /\ MoveFile(p, q) /\ Done(Renamed(p, q)) /\ skips' = skips \cup {<<"object", q>>}
        /\ Tell(c)
    <3>1. Len(p) # 1
      BY <1>16, <1>17
    <3>. QED BY <1>16, <1>18, <3>1
  <2>2. events' = Tail(events) \o Renamed(p, q) /\ watching' = watching
    BY <2>1 DEF Done
  <2>3. RawMade(events[1])
    BY <1>10, <1>11, <1>16
  <2>4. EvenFrom(Do(v, c))' /\ UnseenOK' /\ ~Panics(v, c)
    BY <1>2, <1>3, <1>4, <1>5, <1>6, <1>16, <2>1, <2>2, <2>3, EvenNormalised
  <2>5. Ends(tree, mailbox, Do(v, c))' /\ alive' /\ course' = course
    BY <1>9, <2>1, <2>4, TellDoes
  <2>6. Good(Do(v, c))
    BY <1>2, <1>9, <2>4, DoIsGood
  <2>7. SkipsOK' /\ watching'
    BY <1>2, <2>1, <2>2 DEF SkipsOK
  <2>8. PICK w : w = Do(v, c)
    OBVIOUS
  <2>9. EvenFrom(w)' /\ Ends(tree, mailbox, w)' /\ Good(w)
    BY <2>4, <2>5, <2>6, <2>8
  <2>. QED BY <2>4, <2>5, <2>7, <2>9, Followed
<1>19. Len(p) = 1 \/ Len(p) > 1
  BY <1>17
<1>. QED BY <1>13, <1>14, <1>15, <1>16, <1>19

LEMMA EvenRemoveFolder ==
    ASSUME NEW v, Predicts(v), course = "even", HandleRemoveFolder
    PROVE  FollowInv'
<1>1. Handles("remove_folder")
  BY DEF HandleRemoveFolder
<1>2. /\ events # <<>> /\ e = events[1] /\ events[1] \in Events
      /\ events[1].kind = "remove_folder" /\ Tail(events) \o <<>> = Tail(events)
  BY <1>1, EvenAtHand
<1>3. PICK p : p = events[1].path
  OBVIOUS
<1>4. p \in PathLike
  BY <1>2, <1>3, EventFacts DEF PathKinds
<1>5. PICK c : c = IF Len(p) = 1 THEN [type |-> "delete_bucket", bucket |-> p[1]]
                   ELSE [type |-> "delete_key", at |-> p]
  OBVIOUS
<1>6. Done(<<>>) /\ UNCHANGED <<fs, skips>> /\ Tell(c)
  BY <1>2, <1>3, <1>5 DEF HandleRemoveFolder
<1>7. events' = Tail(events) /\ watching' = watching /\ fs' = fs /\ skips' \subseteq skips
  BY <1>2, <1>6 DEF Done
<1>8. c \in Messages /\ c.type \in {"delete_bucket", "delete_key"}
  <2>1. p[1] \in Segs
    BY <1>4 DEF PathLike
  <2>. QED BY <1>4, <1>5, <2>1 DEF Messages
<1>9. c = EOp(events[1], {})
  BY <1>2, <1>3, <1>5 DEF EOp
<1>10. ~RawMade(events[1]) /\ events[1].kind # "both"
  BY <1>2 DEF RawMade
<1>11. /\ c.type = "new_object" => c.name \in FileNames
       /\ c.type = "name_object" => c.to \in FileNames
  BY <1>8
<1>. QED BY <1>2, <1>6, <1>7, <1>8, <1>9, <1>10, <1>11, EvenHandled

LEMMA EvenRemoveFile ==
    ASSUME NEW v, Predicts(v), course = "even", HandleRemoveFile
    PROVE  FollowInv'
<1>1. Handles("remove_file")
  BY DEF HandleRemoveFile
<1>2. /\ events # <<>> /\ e = events[1] /\ events[1] \in Events
      /\ events[1].kind = "remove_file" /\ Tail(events) \o <<>> = Tail(events)
  BY <1>1, EvenAtHand
<1>3. PICK p : p = events[1].path
  OBVIOUS
<1>4. p \in PathLike /\ p \in Seq(Segs) /\ Name(p) \in Segs
  BY <1>2, <1>3, EventFacts, PathParts DEF PathKinds
<1>5. PICK c : c = [type |-> "delete_object", at |-> p, name |-> Name(p)]
  OBVIOUS
<1>6. Done(<<>>) /\ UNCHANGED <<fs, skips>> /\ Tell(c)
  BY <1>2, <1>3, <1>5 DEF HandleRemoveFile
<1>7. events' = Tail(events) /\ watching' = watching /\ fs' = fs /\ skips' \subseteq skips
  BY <1>2, <1>6 DEF Done
<1>8. c \in Messages /\ c.type = "delete_object"
  BY <1>4, <1>5 DEF Messages
<1>9. c = EOp(events[1], {})
  BY <1>2, <1>3, <1>5 DEF EOp
<1>10. ~RawMade(events[1]) /\ events[1].kind # "both"
  BY <1>2 DEF RawMade
<1>11. /\ c.type = "new_object" => c.name \in FileNames
       /\ c.type = "name_object" => c.to \in FileNames
  BY <1>8
<1>. QED BY <1>2, <1>6, <1>7, <1>8, <1>9, <1>10, <1>11, EvenHandled

\* A file was renamed: by a user, or by the service, which skips it.
LEMMA EvenBothObject ==
    ASSUME NEW v, Predicts(v), course = "even", HandleBothObject
    PROVE  FollowInv'
<1>1. Handles("both")
  BY DEF HandleBothObject
<1>2. /\ events # <<>> /\ e = events[1] /\ events[1] \in Events
      /\ events[1].kind = "both" /\ Tail(events) \o <<>> = Tail(events)
      /\ EvenNamed(events[1]) /\ EvenFrom(v) /\ Good(v) /\ SkipsOK
      /\ events \in Seq(Events)
  BY <1>1, EvenAtHand
<1>3. PICK q : q = events[1].to
  OBVIOUS
<1>4. PICK p : p = events[1].from
  OBVIOUS
<1>5. /\ p \in PathLike /\ q \in PathLike /\ Len(q) > 1 /\ Name(q) \in FileNames
      /\ Name(p) \in Segs /\ Name(q) \in Segs /\ Parent(q) \in Seq(Segs)
  BY <1>2, <1>3, <1>4, EventFacts, PathParts DEF EvenNamed
<1>6. Normal(q) = q
  <2>1. Norm[Name(q)] = Name(q)
    BY <1>5, NormAssumption
  <2>. QED BY <1>5, <2>1, PathParts DEF Normal
<1>7. PICK c : c = [type |-> "name_object", at |-> Parent(q), from |-> Name(p), to |-> Name(q)]
  OBVIOUS
<1>8. c \in Messages /\ c.type = "name_object" /\ c.to \in FileNames /\ ~Panics(v, c)
  BY <1>5, <1>7 DEF Messages, Panics
<1>9. EOp(events[1], {}) = IF Name(p) \in FileNames THEN c ELSE Nop
  BY <1>2, <1>3, <1>4, <1>7 DEF EOp
<1>10. ~RawMade(events[1])
  BY <1>2 DEF RawMade
<1>11. CASE <<"object", q>> \in skips
  <2>1. /\ skips' = skips \ {<<"object", q>>} /\ Done(<<>>) /\ UNCHANGED fs /\ TellNothing
    <3>1. Len(q) # 1
      BY <1>5, PathParts
    <3>. QED BY <1>2, <1>3, <1>4, <1>5, <1>6, <1>11, <3>1 DEF HandleBothObject, Skipped
  <2>2. events' = Tail(events) /\ watching' = watching /\ fs' = fs /\ skips' \subseteq skips
    BY <1>2, <2>1 DEF Done
  <2>3. \A s \in skips' : s[1] = "object" => s[2] # events[1].to
    BY <1>2, <1>3, <2>1 DEF SkipsOK
  <2>4. Name(p) \notin FileNames
    <3>. DEFINE s == <<"object", q>>
    <3>1. s \in skips /\ s[1] = "object" /\ s[2] = q
      BY <1>11
    <3>. HIDE DEF s
    <3>2. Due(events, q)
      BY <1>2, <3>1 DEF EvenFrom, SkipsDue
    <3>3. 1 \in DOMAIN events /\ BothTo(events[1], q) /\ DOMAIN events = 1 .. Len(events)
      BY <1>2, <1>3 DEF BothTo
    <3>4. \A j \in DOMAIN events : ~(j < 1)
      BY <3>3
    <3>. QED BY <1>4, <3>2, <3>3, <3>4 DEF Due
  <2>5. EOp(events[1], {}) = Nop
    BY <1>9, <2>4
  <2>. QED BY <1>2, <1>10, <2>1, <2>2, <2>3, <2>5, EvenHandled
<1>12. CASE <<"object", q>> \notin skips
  <2>1. /\ Done(<<>>) /\ UNCHANGED <<fs, skips>> /\ Tell(c)
    <3>1. Len(q) # 1
      BY <1>5, PathParts
    <3>. QED BY <1>2, <1>3, <1>4, <1>5, <1>6, <1>7, <1>12, <3>1 DEF HandleBothObject, Skipped
  <2>2. events' = Tail(events) /\ watching' = watching /\ fs' = fs /\ skips' \subseteq skips
    BY <1>2, <2>1 DEF Done
  <2>3. \A s \in skips' : s[1] = "object" => s[2] # events[1].to
    BY <1>2, <1>3, <1>12, <2>1 DEF SkipsOK
  <2>4. ASSUME Name(p) \notin FileNames PROVE Do(v, c) = v
    <3>1. Do(v, c) = TreeNameObject(v, Parent(q), Name(p), Name(q))
      BY <1>7 DEF Do, Apply
    <3>2. \A d \in DOMAIN v : ~Holds(v[d].objects, Name(p))
      <4>. SUFFICES ASSUME NEW d \in DOMAIN v PROVE ~Holds(v[d].objects, Name(p))
        OBVIOUS
      <4>1. v[d].objects \in Seq(FileNames)
        BY <1>2 DEF Good
      <4>. QED BY <2>4, <4>1 DEF Holds
    <3>. QED BY <3>1, <3>2 DEF TreeNameObject
  <2>5. c = EOp(events[1], {}) \/ (Do(v, c) = v /\ EOp(events[1], {}) = Nop)
    BY <1>9, <2>4
  <2>. QED BY <1>2, <1>8, <1>10, <2>1, <2>2, <2>3, <2>5, EvenHandled
<1>. QED BY <1>11, <1>12

\* No directory is renamed then.
LEMMA EvenBothDir ==
    ASSUME NEW v, Predicts(v), course = "even", HandleBothDir
    PROVE  FALSE
<1>1. Handles("both") /\ IsDir(e.to)
  BY DEF HandleBothDir
<1>2. events[1].kind = "both" /\ e = events[1] /\ EvenNamed(events[1]) /\ FsOK
  BY <1>1, EvenAtHand
<1>3. Name(e.to) \in FileNames
  BY <1>2 DEF EvenNamed
<1>4. Name(e.to) \in DirNames
  BY <1>1, <1>2, DirIsPath DEF IsDir
<1>. QED BY <1>3, <1>4, NamesApart DEF AllFiles

-----------------------------------------------------------------------------
(***************************************************************************)
(* Events that rename nothing and tell nothing, and the manager.           *)
(***************************************************************************)
IdleKinds == {"from", "remove_any", "pathless"}

\* In the course of a rename only the events that rename matter.
LEMMA RenamingOn ==
    ASSUME UNCHANGED <<fs, skips>>, NEW v, RenamingFrom(v),
           \A i \in DOMAIN events : events[i].kind \in {"both", "create_folder"} =>
              \E j \in DOMAIN events' : events'[j] = events[i],
           \A j \in DOMAIN events' :
              events'[j].kind \in IdleKinds \/ \E i \in DOMAIN events : events'[j] = events[i]
    PROVE  RenamingFrom(v)'
<1>1. PICK q : q = events'
  OBVIOUS
<1>2. /\ dirs' = dirs /\ files' = files /\ skips' = skips
      /\ \A t, U : Mirrors(t, U)' <=> Mirrors(t, U)
      /\ Seen' = Seen /\ \A p : Unseen(p)' <=> Unseen(p)
  BY FsSame
<1>3. RawUnseen' /\ \A s \in skips' : s[1] # "object"
  BY <1>2 DEF RenamingFrom, RawUnseen
<1>4. \A j \in DOMAIN q :
         q[j].kind \in IdleKinds \/ \E i \in DOMAIN events : q[j] = events[i]
  BY <1>1
<1>5. \A i \in DOMAIN events : events[i].kind \in {"both", "create_folder"} =>
         \E j \in DOMAIN q : q[j] = events[i]
  BY <1>1
<1>6. \A j \in DOMAIN q : q[j].kind \in RenamingKinds
  BY <1>4 DEF RenamingFrom, RenamingKinds, IdleKinds
<1>7. CASE Settled(v)
  <2>1. ASSUME NEW j \in DOMAIN q
        PROVE  q[j].kind = "both" => Harmless(q[j])'
    <3>1. SUFFICES ASSUME q[j].kind = "both" PROVE Harmless(q[j])'
      OBVIOUS
    <3>2. PICK i \in DOMAIN events : q[j] = events[i]
      BY <1>4, <3>1 DEF IdleKinds
    <3>3. Harmless(q[j])
      BY <1>7, <3>1, <3>2 DEF Settled
    <3>4. PICK x : x = q[j]
      OBVIOUS
    <3>5. Harmless(x)'
      BY <1>2, <3>3, <3>4 DEF Harmless
    <3>. QED BY <3>4, <3>5
  <2>2. \A j \in DOMAIN q : q[j].kind # "create_folder"
    BY <1>4, <1>7 DEF Settled, IdleKinds
  <2>3. ASSUME NEW s \in skips, Name(s[2]) \in Names
        PROVE  \E j \in DOMAIN q : BothTo(q[j], s[2]) /\ s[1] = KindOf(s[2])
    <3>1. PICK i \in DOMAIN events : BothTo(events[i], s[2]) /\ s[1] = KindOf(s[2])
      BY <1>7, <2>3 DEF Settled
    <3>2. PICK j \in DOMAIN q : q[j] = events[i]
      BY <1>5, <3>1 DEF BothTo
    <3>. QED BY <3>1, <3>2
  <2>4. Mirrors(v, {})'
    BY <1>2, <1>7 DEF Settled
  <2>5. Settled(v)'
    BY <1>1, <1>2, <2>1, <2>2, <2>3, <2>4 DEF Settled
  <2>. QED BY <1>1, <1>3, <1>6, <2>5 DEF RenamingFrom
<1>8. CASE \E i \in DOMAIN events : Effective(v, events[i]) \/ Creation(v, events[i])
  <2>1. PICK i \in DOMAIN events : Effective(v, events[i]) \/ Creation(v, events[i])
    BY <1>8
  <2>2. PICK x : x = events[i]
    OBVIOUS
  <2>3. x.kind \in {"both", "create_folder"}
    BY <2>1, <2>2 DEF Effective, Creation
  <2>4. PICK j \in DOMAIN q : q[j] = x
    BY <1>5, <2>2, <2>3
  <2>5. NoSkips' <=> NoSkips
    BY <1>2 DEF NoSkips
  <2>6. Effective(v, x) => Effective(v, x)'
    BY <1>2, <2>5 DEF Effective
  <2>7. Creation(v, x) => Creation(v, x)'
    BY <1>2, <2>5 DEF Creation
  <2>8. (\E k \in DOMAIN events : Effective(v, events[k]) \/ Creation(v, events[k]))'
    <3>1. Effective(v, x)' \/ Creation(v, x)'
      BY <2>1, <2>2, <2>6, <2>7
    <3>2. Effective(v, q[j])' \/ Creation(v, q[j])'
      BY <2>4, <3>1
    <3>. QED BY <1>1, <3>2
  <2>. QED BY <1>1, <1>3, <1>6, <2>8 DEF RenamingFrom
<1>. QED BY <1>7, <1>8 DEF RenamingFrom

\* Events of a kind that nothing is told of come in, or none.
LEMMA IdleAdded ==
    ASSUME NEW v, Predicts(v), UNCHANGED <<fs, skips>>, NEW more \in Seq(Events),
           \A i \in DOMAIN more : more[i].kind \in IdleKinds,
           events' = events \o more
    PROVE  /\ course = "even" => EvenFrom(v)'
           /\ course = "renaming" => RenamingFrom(v)'
<1>1. events \in Seq(Events)
  BY DEF Predicts, IndInv, EventsOK
<1>2. ASSUME course = "even" PROVE EvenFrom(v)'
  <2>1. EvenFrom(v)
    BY <1>2 DEF Predicts, From
  <2>2. ASSUME NEW U \in SUBSET RawPaths, NEW u, Mirrors(u, U)
        PROVE  \E w : Ends(u, Ops(more, U), w) /\ Mirrors(w, U)'
    <3>1. PICK o : o = Ops(more, U)
      OBVIOUS
    <3>2. /\ Len(o) \in Nat /\ DOMAIN more = 1 .. Len(o)
          /\ \A i \in 1 .. Len(o) : o[i] = EOp(more[i], U)
      BY <3>1, OpsParts
    <3>3. \A i \in 1 .. Len(o) : o[i] = Nop
      BY <3>2 DEF EOp, IdleKinds
    <3>4. Do(u, Nop) = u /\ ~Panics(u, Nop)
      BY DEF Do, Nop, Panics
    <3>5. Ends(u, o, u)
      BY <3>2, <3>3, <3>4, EndsIdle
    <3>. QED BY <2>2, <3>1, <3>5, FsSame
  <2>3. \A i \in DOMAIN more : ~RawMade(more[i]) /\ EvenNamed(more[i]) /\ more[i].kind # "both"
    BY DEF RawMade, EvenNamed, IdleKinds
  <2>4. /\ \A p : IsFile(p)' => IsFile(p)
        /\ files' = files /\ \A p : Unseen(p)' <=> Unseen(p)
    BY FsSame
  <2>5. \A i \in DOMAIN events : \A p :
           RawMade(events[i]) /\ events[i].path = p /\ IsFile(p)' =>
              /\ IsFile(p)
              /\ \A j \in DOMAIN more : more[j].kind = "both" => more[j].to # Normal(p)
    BY <2>3, <2>4
  <2>6. \A x \in files' :
           x[2] \in RawFiles /\ x[1] # <<>> /\ ~Unseen(Append(x[1], x[2]))' =>
              \/ x \in files /\ ~Unseen(Append(x[1], x[2]))
              \/ \E j \in DOMAIN more : RawMade(more[j]) /\ more[j].path = Append(x[1], x[2])
    BY <2>4
  <2>. QED BY <1>1, <2>1, <2>2, <2>3, <2>5, <2>6, EvenGrows
<1>3. ASSUME course = "renaming" PROVE RenamingFrom(v)'
  <2>1. RenamingFrom(v)
    BY <1>3 DEF Predicts, From
  <2>2. PICK q : q = events \o more
    OBVIOUS
  <2>3. /\ \A i \in DOMAIN events : i \in DOMAIN q /\ q[i] = events[i]
        /\ \A j \in DOMAIN q : \/ j \in DOMAIN events /\ q[j] = events[j]
                               \/ \E k \in DOMAIN more : j = Len(events) + k /\ q[j] = more[k]
    BY <1>1, <2>2, JoinedParts
  <2>4. \A j \in DOMAIN q :
           q[j].kind \in IdleKinds \/ \E i \in DOMAIN events : q[j] = events[i]
    BY <2>3
  <2>. QED BY <2>1, <2>2, <2>3, <2>4, RenamingOn
<1>. QED BY <1>2, <1>3

\* Such an event is handled.
LEMMA IdleHandled ==
    ASSUME NEW v, Predicts(v), NEW kind \in IdleKinds, Handles(kind),
           UNCHANGED <<fs, skips, watching>>, events' = Tail(events),
           \/ TellNothing
           \/ \E c \in Messages : Tell(c) /\ c.type = "what_is"
    PROVE  FollowInv'
<1>1. /\ events \in Seq(Events) /\ events # <<>> /\ events[1].kind = kind
      /\ FsOK /\ UnseenOK /\ Good(v) /\ watching /\ SkipsOK
  BY EvenAtHand
<1>2. /\ fs' = fs /\ skips' = skips /\ watching' = watching
      /\ events[1].kind # "both" /\ ~RawMade(events[1]) /\ EOp(events[1], {}) = Nop
  BY <1>1 DEF EOp, IdleKinds, RawMade
<1>3. ASSUME NEW c \in Messages, c.type = "what_is" PROVE Do(v, c) = v /\ ~Panics(v, c)
  BY <1>3 DEF Do, Panics
<1>4. CASE course = "even"
  <2>1. \/ TellNothing /\ EOp(events[1], {}) = Nop
        \/ \E c \in Messages :
              /\ Tell(c)
              /\ c.type = "new_object" => c.name \in FileNames
              /\ c.type = "name_object" => c.to \in FileNames
              /\ \/ c = EOp(events[1], {})
                 \/ Do(v, c) = v /\ ~Panics(v, c) /\ EOp(events[1], {}) = Nop
    BY <1>2, <1>3
  <2>. QED BY <1>1, <1>2, <1>4, <2>1, EvenHandled
<1>5. CASE course = "renaming"
  <2>1. RenamingFrom(v)
    BY <1>5 DEF Predicts, From
  <2>2. PICK t : t = Tail(events)
    OBVIOUS
  <2>3. /\ \A i \in DOMAIN t : i + 1 \in DOMAIN events /\ t[i] = events[i + 1]
        /\ \A i \in DOMAIN events : i # 1 => i - 1 \in DOMAIN t /\ t[i - 1] = events[i]
    BY <1>1, <2>2, TailParts
  <2>4. \A i \in DOMAIN events : events[i].kind \in {"both", "create_folder"} =>
           \E j \in DOMAIN t : t[j] = events[i]
    <3>1. events[1].kind \notin {"both", "create_folder"}
      BY <1>1 DEF IdleKinds
    <3>. QED BY <2>3, <3>1
  <2>5. \A j \in DOMAIN t : \E i \in DOMAIN events : t[j] = events[i]
    BY <2>3
  <2>6. RenamingFrom(v)'
    BY <2>1, <2>2, <2>4, <2>5, RenamingOn
  <2>7. Ends(tree, mailbox, v)' /\ alive' /\ course' = course
    <3>1. ASSUME NEW c \in Messages, Tell(c), c.type = "what_is"
          PROVE  Ends(tree, mailbox, v)' /\ alive' /\ course' = course
      <4>1. Do(v, c) = v /\ ~Panics(v, c)
        BY <1>3, <3>1
      <4>2. PICK w : w = Do(v, c)
        OBVIOUS
      <4>3. Ends(tree, mailbox, Do(v, c))' /\ alive' /\ course' = course
        BY <3>1, <4>1, TellDoes
      <4>. QED BY <4>1, <4>3
    <3>. QED BY <3>1, TellsNothing
  <2>8. UnseenOK' /\ SkipsOK' /\ watching'
    BY <1>1, <1>2, FsSame DEF SkipsOK
  <2>. QED BY <1>1, <1>5, <2>6, <2>7, <2>8, Followed
<1>6. course = "even" \/ course = "renaming"
  BY DEF Predicts, IndInv, UsersOK
<1>. QED BY <1>4, <1>5, <1>6

LEMMA FollowFrom ==
    ASSUME NEW v, Predicts(v), HandleFrom
    PROVE  FollowInv'
<1>1. Handles("from") /\ Done(<<>>) /\ UNCHANGED <<fs, skips>> /\ TellNothing
  BY DEF HandleFrom
<1>2. events' = Tail(events) /\ watching' = watching /\ fs' = fs /\ skips' = skips
  BY <1>1, EvenAtHand DEF Done
<1>. QED BY <1>1, <1>2, IdleHandled DEF IdleKinds

LEMMA FollowPathless ==
    ASSUME NEW v, Predicts(v), HandlePathless
    PROVE  FollowInv'
<1>1. Handles("pathless") /\ Done(<<>>) /\ UNCHANGED <<fs, skips>> /\ TellNothing
  BY DEF HandlePathless
<1>2. events' = Tail(events) /\ watching' = watching /\ fs' = fs /\ skips' = skips
  BY <1>1, EvenAtHand DEF Done
<1>. QED BY <1>1, <1>2, IdleHandled DEF IdleKinds

LEMMA FollowRemoveAny ==
    ASSUME NEW v, Predicts(v), HandleRemoveAny
    PROVE  FollowInv'
<1>1. /\ Handles("remove_any") /\ alive
      /\ events' = Tail(events) /\ watching' = watching /\ fs' = fs /\ skips' = skips
      /\ Tell([type |-> "what_is", path |-> e.path])
  BY DEF HandleRemoveAny, Predicts
<1>2. e \in Events /\ e.kind = "remove_any"
  BY <1>1, EvenAtHand
<1>3. e.path \in PathLike
  BY <1>2, EventFacts DEF PathKinds
<1>4. PICK c : c = [type |-> "what_is", path |-> e.path]
  OBVIOUS
<1>5. c \in Messages /\ c.type = "what_is" /\ Tell(c)
  BY <1>1, <1>3, <1>4 DEF Messages
<1>. QED BY <1>1, <1>5, IdleHandled DEF IdleKinds

LEMMA FollowReport ==
    ASSUME NEW v, Predicts(v), NEW p \in pending, Report(p)
    PROVE  FollowInv'
<1>1. /\ Notify(<<Event("remove_any", p)>>)
      /\ fs' = fs /\ watching' = watching /\ skips' = skips /\ course' = course
      /\ mailbox' = mailbox /\ alive' = alive /\ tree' = tree
  BY DEF Report, manager, users
<1>2. p \in PathLike /\ watching /\ alive /\ UnseenOK /\ SkipsOK /\ Good(v) /\ Ends(tree, mailbox, v)
  BY DEF Predicts, IndInv, EventsOK, From
<1>3. PICK more : more = <<Event("remove_any", p)>>
  OBVIOUS
<1>4. more \in Seq(Events)
  BY <1>2, <1>3, EventIsEvent DEF PathKinds
<1>5. \A i \in DOMAIN more : more[i].kind \in IdleKinds
  BY <1>3 DEF Event, IdleKinds
<1>6. events' = events \o more
  BY <1>1, <1>2, <1>3 DEF Notify
<1>7. /\ course = "even" => EvenFrom(v)'
      /\ course = "renaming" => RenamingFrom(v)'
  BY <1>1, <1>4, <1>5, <1>6, IdleAdded
<1>8. watching' /\ alive' /\ UnseenOK' /\ SkipsOK' /\ Ends(tree, mailbox, v)'
  BY <1>1, <1>2, FsSame DEF SkipsOK
<1>. QED BY <1>1, <1>2, <1>7, <1>8, Followed

\* What the manager does is what was predicted of it.
LEMMA ManagerNext ==
    ASSUME NEW v, Predicts(v), mailbox # <<>>
    PROVE  /\ ~Panics(tree, Head(mailbox))
           /\ Ends(Do(tree, Head(mailbox)), Tail(mailbox), v)
<1>1. mailbox \in Seq(Messages) /\ Ends(tree, mailbox, v)
  BY DEF Predicts, IndInv, From
<1>. QED BY <1>1, EndsFirst

LEMMA FollowChange ==
    ASSUME NEW v, Predicts(v), ManagerChange
    PROVE  FollowInv'
<1>1. /\ mailbox # <<>> /\ Head(mailbox).type # "what_is"
      /\ tree' = Apply(tree, Head(mailbox)) /\ mailbox' = Tail(mailbox)
      /\ fs' = fs /\ watching' = watching /\ skips' = skips /\ course' = course
      /\ events' = events /\ alive' = alive
  BY DEF ManagerChange, watcher, users
<1>2. /\ watching /\ alive /\ UnseenOK /\ SkipsOK /\ Good(v) /\ events \in Seq(Events)
      /\ mailbox \in Seq(Messages)
  BY DEF Predicts, IndInv, EventsOK, From
<1>3. Head(mailbox) \in Messages
  BY <1>1, <1>2, MailLeft
<1>4. tree' = Do(tree, Head(mailbox))
  BY <1>1, <1>3, MessageFacts DEF Do
<1>5. Ends(tree, mailbox, v)'
  BY <1>1, <1>4, ManagerNext
<1>6. PICK more : more = <<>>
  OBVIOUS
<1>7. more \in Seq(Events) /\ (\A i \in DOMAIN more : FALSE) /\ events' = events \o more
  BY <1>1, <1>2, <1>6
<1>8. /\ course = "even" => EvenFrom(v)'
      /\ course = "renaming" => RenamingFrom(v)'
  BY <1>1, <1>7, IdleAdded
<1>9. watching' /\ alive' /\ UnseenOK' /\ SkipsOK'
  BY <1>1, <1>2, FsSame DEF SkipsOK
<1>. QED BY <1>1, <1>2, <1>5, <1>8, <1>9, Followed

LEMMA FollowPanics ==
    ASSUME NEW v, Predicts(v), ManagerPanics
    PROVE  FALSE
BY ManagerNext DEF ManagerPanics

LEMMA FollowAnswers ==
    ASSUME NEW v, Predicts(v), ManagerAnswers
    PROVE  FollowInv'
<1>1. /\ mailbox # <<>> /\ Head(mailbox).type = "what_is"
      /\ mailbox' = Tail(mailbox) /\ Notify(<<Event("pathless", <<>>)>>)
      /\ fs' = fs /\ watching' = watching /\ skips' = skips /\ course' = course
      /\ alive' = alive /\ tree' = tree
  BY DEF ManagerAnswers, users
<1>2. /\ watching /\ alive /\ UnseenOK /\ SkipsOK /\ Good(v)
  BY DEF Predicts, From
<1>3. Do(tree, Head(mailbox)) = tree
  BY <1>1 DEF Do
<1>4. Ends(tree, mailbox, v)'
  BY <1>1, <1>3, ManagerNext
<1>5. PICK more : more = <<Event("pathless", <<>>)>>
  OBVIOUS
<1>6. more \in Seq(Events)
  <2>1. Event("pathless", <<>>) \in Events
    BY DEF Event, Events
  <2>. QED BY <1>5, <2>1
<1>7. \A i \in DOMAIN more : more[i].kind \in IdleKinds
  BY <1>5 DEF Event, IdleKinds
<1>8. events' = events \o more
  BY <1>1, <1>2, <1>5 DEF Notify
<1>9. /\ course = "even" => EvenFrom(v)'
      /\ course = "renaming" => RenamingFrom(v)'
  BY <1>1, <1>6, <1>7, <1>8, IdleAdded
<1>10. watching' /\ alive' /\ UnseenOK' /\ SkipsOK'
  BY <1>1, <1>2, FsSame DEF SkipsOK
<1>. QED BY <1>1, <1>2, <1>4, <1>9, <1>10, Followed

-----------------------------------------------------------------------------
(***************************************************************************)
(* What users do from an even course.                                      *)
(***************************************************************************)
LEMMA OneTells ==
    ASSUME NEW x \in Events, NEW U, NEW u, ~Panics(u, EOp(x, U))
    PROVE  Ends(u, Ops(<<x>>, U), Do(u, EOp(x, U)))
<1>1. Ops(<<x>>, U) = <<EOp(x, U)>>
  BY DEF Ops
<1>. QED BY <1>1, EndsOne

\* With nothing left to handle, the directory is what is predicted.
LEMMA RestIsEven ==
    ASSUME FsOK, NEW v, Rest(v), events = <<>>
    PROVE  EvenFrom(v)
<1>1. Mirrors(v, {}) /\ RawUnseen /\ NoSkips /\ DOMAIN events = {}
  BY DEF Rest
<1>2. ASSUME NEW U \in SUBSET RawPaths, NEW d \in Seen PROVE Shown(d, U) = Shown(d, {})
  <2>1. d # <<>> /\ d \in dirs
    BY DEF Seen, FsOK, PathLike
  <2>2. ASSUME NEW y \in files, y[1] = d, ~Unseen(Append(d, y[2])), Append(d, y[2]) \in U
        PROVE  FALSE
    <3>1. Name(Append(y[1], y[2])) = y[2]
      BY FileFacts
    <3>2. y[2] \in RawFiles
      BY <2>2, <3>1 DEF RawPaths
    <3>. QED BY <1>1, <2>1, <2>2, <3>2 DEF RawUnseen
  <2>3. \A n : n \in Shown(d, U) <=> n \in Shown(d, {})
    BY <2>2, ShownIs
  <2>. QED BY <2>3, SetExtensionality
<1>3. \A U \in SUBSET RawPaths : Mirrors(v, U)
  BY <1>1, <1>2 DEF Mirrors
<1>4. Predicted(v)
  <2>1. \A U : Ops(events, U) = <<>>
    BY DEF Ops
  <2>. QED BY <1>3, <2>1, EndsNone DEF Predicted
<1>5. OnceMade /\ NameKept /\ RawReported
  BY <1>1 DEF OnceMade, NameKept, RawReported, RawUnseen
<1>6. SkipsDue
  BY <1>1 DEF SkipsDue, NoSkips
<1>. QED BY <1>1, <1>4, <1>5, <1>6 DEF EvenFrom

\* With nothing left to handle, what is predicted is the directory.
LEMMA Rested ==
    ASSUME NEW v, Predicts(v), events = <<>>
    PROVE  Rest(v) /\ EvenFrom(v)
<1>1. FsOK /\ Good(v) /\ DOMAIN events = {}
  BY DEF Predicts, From, IndInv
<1>2. CASE course = "even"
  <2>1. EvenFrom(v)
    BY <1>2 DEF Predicts, From
  <2>2. PICK u : Ends(v, Ops(events, {}), u) /\ Mirrors(u, {})
    BY <2>1 DEF EvenFrom, Predicted
  <2>3. Ops(events, {}) = <<>>
    BY DEF Ops
  <2>4. Mirrors(v, {})
    BY <2>2, <2>3, EndsNone
  <2>5. RawUnseen
    BY <1>1, <2>1 DEF EvenFrom, RawReported, RawUnseen
  <2>6. NoSkips
    BY <1>1, <2>1 DEF EvenFrom, SkipsDue, Due, NoSkips
  <2>. QED BY <2>1, <2>4, <2>5, <2>6 DEF Rest
<1>3. CASE course = "renaming"
  <2>1. RenamingFrom(v)
    BY <1>3 DEF Predicts, From
  <2>2. Settled(v) /\ RawUnseen
    BY <1>1, <2>1 DEF RenamingFrom
  <2>3. NoSkips
    BY <1>1, <2>1, <2>2 DEF Settled, RenamingFrom, NoSkips
  <2>4. Mirrors(v, {})
    BY <2>2 DEF Settled
  <2>5. Rest(v)
    BY <2>2, <2>3, <2>4 DEF Rest
  <2>. QED BY <1>1, <2>5, RestIsEven
<1>. QED BY <1>2, <1>3 DEF Predicts, IndInv, UsersOK

\* What an action that leaves the course even starts from, and is to come to.
LEMMA EvenBefore ==
    ASSUME IndInv, CourseInv, FollowInv, NEW kind, Act(kind), course' = "even"
    PROVE  /\ \E v : Predicts(v) /\ EvenFrom(v)
           /\ kind \notin NotFollowed /\ kind \notin RenamesDir
           /\ FsOK /\ UnseenOK /\ events \in Seq(Events) /\ Distinct(dirs, files) /\ watching
           /\ skips' = skips
<1>1. course' = Course(kind) /\ skips' = skips
  BY DEF Act
<1>2. /\ course # "lost" /\ kind \notin NotFollowed /\ kind \notin RenamesDir
      /\ course = "renaming" => Quiet
  BY <1>1 DEF Course
<1>3. PICK v : Predicts(v)
  BY <1>2 DEF FollowInv, Predicts
<1>4. FsOK /\ UnseenOK /\ events \in Seq(Events) /\ Distinct(dirs, files) /\ watching
  BY <1>2, <1>3 DEF Predicts, IndInv, EventsOK, CourseInv
<1>5. EvenFrom(v)
  <2>1. CASE course = "even"
    BY <1>3, <2>1 DEF Predicts, From
  <2>2. CASE course = "renaming"
    BY <1>2, <1>3, <2>2, Rested DEF Quiet
  <2>. QED BY <1>2, <2>1, <2>2 DEF IndInv, UsersOK
<1>. QED BY <1>1, <1>2, <1>3, <1>4, <1>5

LEMMA EvenAct ==
    ASSUME NEW v, Predicts(v), NEW kind, Act(kind), course' = "even", EvenFrom(v)', UnseenOK'
    PROVE  FollowInv'
<1>1. watching' = watching /\ skips' = skips /\ alive' = alive /\ tree' = tree /\ mailbox' = mailbox
  BY DEF Act, manager
<1>2. watching /\ alive /\ SkipsOK /\ Good(v) /\ Ends(tree, mailbox, v)
  BY DEF Predicts, From
<1>3. watching' /\ alive' /\ SkipsOK' /\ Ends(tree, mailbox, v)'
  BY <1>1, <1>2 DEF SkipsOK
<1>. QED BY <1>2, <1>3 DEF FollowInv, From

\* What a rename of a directory starts from, and is to come to.
LEMMA RenamingBefore ==
    ASSUME IndInv, CourseInv, FollowInv, NEW kind, Act(kind), course' = "renaming"
    PROVE  /\ \E v : Predicts(v) /\ Rest(v)
           /\ kind \notin NotFollowed /\ kind \in RenamesDir
           /\ FsOK /\ UnseenOK /\ events = <<>> /\ Distinct(dirs, files) /\ watching
           /\ skips' = skips
<1>1. course' = Course(kind) /\ skips' = skips
  BY DEF Act
<1>2. course # "lost" /\ kind \notin NotFollowed /\ kind \in RenamesDir /\ Quiet
  BY <1>1 DEF Course
<1>3. PICK v : Predicts(v)
  BY <1>2 DEF FollowInv, Predicts
<1>4. FsOK /\ UnseenOK /\ Distinct(dirs, files) /\ watching
  BY <1>2, <1>3 DEF Predicts, IndInv, CourseInv
<1>5. events = <<>> /\ Rest(v)
  BY <1>2, <1>3, Rested DEF Quiet
<1>. QED BY <1>1, <1>2, <1>3, <1>4, <1>5

LEMMA RenamingAct ==
    ASSUME NEW v, Predicts(v), NEW kind, Act(kind), course' = "renaming", UnseenOK',
           Rest(v), RawUnseen', NEW more, events' = more,
           \A i \in DOMAIN more : more[i].kind \in RenamingKinds,
           \/ Settled(v)'
           \/ \E x : /\ \E i \in DOMAIN more : more[i] = x
                     /\ Effective(v, x)' \/ Creation(v, x)'
    PROVE  FollowInv'
<1>1. watching' = watching /\ skips' = skips /\ alive' = alive /\ tree' = tree /\ mailbox' = mailbox
  BY DEF Act, manager
<1>2. watching /\ alive /\ SkipsOK /\ Good(v) /\ Ends(tree, mailbox, v)
  BY DEF Predicts, From
<1>3. watching' /\ alive' /\ SkipsOK' /\ Ends(tree, mailbox, v)'
  BY <1>1, <1>2 DEF SkipsOK
<1>4. \A s \in skips' : s[1] # "object"
  BY <1>1 DEF Rest, NoSkips
<1>5. ASSUME NEW x, NEW i \in DOMAIN more, more[i] = x, Effective(v, x)' \/ Creation(v, x)'
      PROVE  (\E k \in DOMAIN events : Effective(v, events[k]) \/ Creation(v, events[k]))'
  BY <1>5
<1>6. RenamingFrom(v)'
  BY <1>4, <1>5 DEF RenamingFrom
<1>. QED BY <1>2, <1>3, <1>6 DEF FollowInv, From

LEMMA LengthOne ==
    ASSUME NEW p \in PathLike
    PROVE  /\ Len(p) > 1 => Len(p) # 1
           /\ ~(Len(p) > 1) => Len(p) = 1
           /\ Len(p) = 1 => ~(Len(p) > 1) /\ p = <<p[1]>> /\ Name(p) = p[1]
<1>1. Len(p) \in Nat /\ Len(p) # 0
  BY PathParts
<1>2. \A n \in Nat : n # 0 => (n > 1 => n # 1) /\ (~(n > 1) => n = 1) /\ (n = 1 => ~(n > 1))
  OBVIOUS
<1>3. Len(p) = 1 => p = <<p[1]>> /\ Name(p) = p[1]
  BY PathParts DEF Name
<1>. QED BY <1>1, <1>2, <1>3

\* A new bucket, or a key beside one the index has.
LEMMA NewDirSeen ==
    ASSUME FsOK, UnseenOK, NEW p \in PathLike, Name(p) \in DirNames, p \notin dirs,
           Len(p) > 1 => \E r \in dirs : Len(r) > 1 /\ Parent(r) = Parent(p) /\ ~Unseen(r)
    PROVE  ~Unseen(p)
<1>. SUFFICES ASSUME NEW u \in unseen, Under(u, p) PROVE FALSE
  BY DEF Unseen
<1>1. u \in PathLike /\ u \in Seq(Segs) /\ Len(u) # 0 /\ Len(u) \in Nat /\ (u \in dirs \/ IsFile(u))
  BY PathParts DEF UnseenOK
<1>2. /\ Parent(p) \in Seq(Segs) /\ Name(p) \in Segs /\ p = Append(Parent(p), Name(p))
      /\ Len(Parent(p)) = Len(p) - 1 /\ Len(p) \in Nat /\ Len(p) # 0
  BY PathParts
<1>3. u # p
  <2>1. Name(p) \notin AllFiles
    BY NamesApart
  <2>. QED BY <1>1, <2>1, IsFileFacts
<1>4. Under(u, Parent(p))
  BY <1>1, <1>2, <1>3, UnderAppend
<1>5. Len(p) > 1
  <2>1. Len(u) <= Len(p) - 1
    BY <1>2, <1>4 DEF Under
  <2>. QED BY <1>1, <1>2, <2>1
<1>6. PICK r \in dirs : Len(r) > 1 /\ Parent(r) = Parent(p) /\ ~Unseen(r)
  BY <1>5
<1>7. r \in Seq(Segs) /\ Under(Parent(r), r)
  BY DirIsPath, PathParts
<1>8. Under(u, r)
  BY <1>1, <1>2, <1>4, <1>6, <1>7, UnderOrder
<1>. QED BY <1>6, <1>8 DEF Unseen

LEMMA FollowCreateFolder ==
    ASSUME IndInv, CourseInv, FollowInv, NEW p \in FsPaths, CreateFolder(p)
    PROVE  FollowInv'
<1>. DEFINE n == Name(p)
            known == \E r \in dirs : Len(r) > 1 /\ Parent(r) = Parent(p) /\ ~Unseen(r)
            kind == IF Norm[n] = Empty THEN "create_empty"
                    ELSE IF Len(p) = 1
                         THEN IF n \in RawNames THEN "create_bucket_raw" ELSE "create_bucket"
                    ELSE IF n \in RawNames THEN "create_key_raw"
                    ELSE IF known THEN "create_key" ELSE "first_key"
<1>1. /\ Act(kind) /\ Notify(<<Event("create_folder", p)>>)
      /\ dirs' = dirs \cup {p} /\ files' = files /\ unseen' = unseen /\ Free(Parent(p), n)
  BY DEF CreateFolder
<1>. HIDE DEF known
<1>2. /\ kind \notin NotFollowed => n \notin RawNames \/ kind = "create_bucket_raw"
      /\ kind \notin NotFollowed => Len(p) = 1 \/ known
      /\ kind = "create_bucket_raw" => kind \in RenamesDir
      /\ kind \in RenamesDir => n \in RawNames /\ Len(p) = 1 /\ Norm[n] # Empty
  BY DEF NotFollowed, RenamesDir
<1>. HIDE DEF kind
<1>3. p \in PathLike /\ n \in DirNames
  BY FsPathIsPath
<1>4. CASE course' = "lost"
  BY <1>4 DEF FollowInv
<1>5. CASE course' = "renaming"
  <2>1. /\ \E v : Predicts(v) /\ Rest(v)
        /\ kind \notin NotFollowed /\ kind \in RenamesDir
        /\ FsOK /\ UnseenOK /\ events = <<>> /\ watching /\ skips' = skips
    BY <1>1, <1>5, RenamingBefore
  <2>2. PICK v : Predicts(v) /\ Rest(v)
    BY <2>1
  <2>3. n \in RawNames /\ Len(p) = 1 /\ Norm[n] # Empty
    BY <1>2, <2>1
  <2>4. p \notin dirs /\ ~(Len(p) > 1)
    BY <1>1, <1>3, <2>3, LengthOne DEF Free
  <2>5. ~Unseen(p)
    BY <1>3, <2>1, <2>4, NewDirSeen
  <2>6. PICK x : x = Event("create_folder", p)
    OBVIOUS
  <2>7. x.kind = "create_folder" /\ x.path = p
    BY <2>6 DEF Event
  <2>8. PICK more : more = <<x>>
    OBVIOUS
  <2>80. /\ events' = more /\ \E i \in DOMAIN more : more[i] = x
         /\ \A i \in DOMAIN more : more[i].kind \in RenamingKinds
    BY <1>1, <2>1, <2>6, <2>7, <2>8 DEF Notify, RenamingKinds
  <2>9. Mirrors(v, {}) /\ RawUnseen /\ NoSkips /\ DOMAIN v = Seen
    BY <2>2 DEF Rest, Mirrors
  <2>10. Mirrors(OrDefault(v, p), {})' /\ UnseenOK'
    BY <1>1, <1>3, <2>1, <2>4, <2>5, <2>9, MirrorsNewDir
  <2>11. Creation(v, x)'
    <3>1. p \in dirs' /\ p \notin DOMAIN v /\ NoSkips'
      BY <1>1, <2>1, <2>4, <2>9 DEF Seen, NoSkips
    <3>. QED BY <2>3, <2>7, <2>10, <3>1 DEF Creation
  <2>12. RawUnseen'
    BY <1>1, <2>9 DEF RawUnseen, Unseen
  <2>. QED BY <1>1, <1>5, <2>2, <2>80, <2>10, <2>11, <2>12, RenamingAct
<1>6. CASE course' = "even"
  <2>1. /\ \E v : Predicts(v) /\ EvenFrom(v)
        /\ kind \notin NotFollowed /\ kind \notin RenamesDir
        /\ FsOK /\ UnseenOK /\ events \in Seq(Events) /\ watching
        /\ skips' = skips
    BY <1>1, <1>6, EvenBefore
  <2>2. PICK v : Predicts(v) /\ EvenFrom(v)
    BY <2>1
  <2>3. n \in Names
    BY <1>2, <1>3, <2>1 DEF DirNames
  <2>4. p \notin dirs
    BY <1>1 DEF Free
  <2>5. (Len(p) > 1 => Len(p) # 1) /\ (~(Len(p) > 1) => Len(p) = 1)
    BY <1>3, LengthOne
  <2>6. Len(p) > 1 => \E r \in dirs : Len(r) > 1 /\ Parent(r) = Parent(p) /\ ~Unseen(r)
    BY <1>2, <2>1, <2>5 DEF known
  <2>7. ~Unseen(p)
    BY <1>3, <2>1, <2>4, <2>6, NewDirSeen
  <2>8. PICK x : x = Event("create_folder", p)
    OBVIOUS
  <2>9. x \in Events /\ x.kind = "create_folder" /\ x.path = p
    BY <1>3, <2>8, EventIsEvent DEF PathKinds, Event
  <2>10. PICK more : more = <<x>>
    OBVIOUS
  <2>11. more \in Seq(Events) /\ DOMAIN more = {1} /\ more[1] = x
    BY <2>9, <2>10
  <2>12. events' = events \o more
    BY <1>1, <2>1, <2>8, <2>10 DEF Notify
  <2>13. ASSUME NEW U \in SUBSET RawPaths, NEW u, Mirrors(u, U)
         PROVE  \E w : Ends(u, Ops(more, U), w) /\ Mirrors(w, U)'
    <3>1. TreeOK(u) /\ DOMAIN u = Seen
      BY <2>13 DEF Mirrors, Good
    <3>2. Len(p) > 1 => Parent(p) \in DOMAIN u /\ u[Parent(p)].keys
      BY <2>6, <3>1 DEF Seen, TreeOK, Hung
    <3>3. EOp(x, U) = NewFolder(p)
      BY <2>9 DEF EOp
    <3>4. ~Panics(u, NewFolder(p)) /\ Do(u, NewFolder(p)) = OrDefault(u, p)
      <4>1. CASE Len(p) = 1
        <5>1. NewFolder(p) = [type |-> "new_bucket", bucket |-> p[1]]
          BY <4>1 DEF NewFolder
        <5>2. <<p[1]>> = p
          BY <1>3, <4>1, PathParts
        <5>. QED BY <5>1, <5>2 DEF Panics, Do, Apply, TreeNewBucket
      <4>2. CASE Len(p) > 1
        <5>1. NewFolder(p) = [type |-> "new_key", at |-> p]
          BY <2>5, <4>2 DEF NewFolder
        <5>. QED BY <3>2, <4>2, <5>1 DEF Panics, Do, Apply, TreeNewKey
      <4>. QED BY <2>5, <4>1, <4>2
    <3>5. Mirrors(OrDefault(u, p), U)'
      BY <1>1, <1>3, <2>1, <2>4, <2>7, <2>13, <3>2, MirrorsNewDir
    <3>6. Ends(u, Ops(more, U), OrDefault(u, p))
      BY <2>9, <2>10, <3>3, <3>4, OneTells
    <3>7. PICK w : w = OrDefault(u, p)
      OBVIOUS
    <3>. QED BY <3>5, <3>6, <3>7
  <2>14. \A q : (IsFile(q)' <=> IsFile(q)) /\ (Unseen(q)' <=> Unseen(q))
    BY <1>1 DEF IsFile, Unseen
  <2>15. \A i \in DOMAIN more : /\ ~RawMade(more[i]) /\ EvenNamed(more[i])
                                /\ more[i].kind # "both"
    BY <2>3, <2>9, <2>11 DEF RawMade, EvenNamed
  <2>16. \A y \in files' : /\ y \in files
                           /\ Unseen(Append(y[1], y[2]))' <=> Unseen(Append(y[1], y[2]))
    BY <1>1, <2>14
  <2>17. EvenFrom(v)'
    BY <2>1, <2>2, <2>11, <2>12, <2>13, <2>14, <2>15, <2>16, EvenGrows
  <2>18. UnseenOK'
    BY <1>1, <2>1 DEF UnseenOK, IsFile
  <2>. QED BY <1>1, <1>6, <2>2, <2>17, <2>18, EvenAct
<1>. QED BY <1>4, <1>5, <1>6, ActCourse, <1>1

LEMMA FollowCreateFile ==
    ASSUME IndInv, CourseInv, FollowInv, NEW d \in dirs \cup {<<>>}, NEW f \in AllFiles,
           CreateFile(d, f)
    PROVE  FollowInv'
<1>. DEFINE kind == IF Taken(<<>>, d, f) THEN "replace_file"
                    ELSE IF Reported(Append(d, f)) THEN "remake_file" ELSE "create_file"
<1>1. /\ Act(kind) /\ Notify(<<Event("create_file", Append(d, f))>>)
      /\ dirs' = dirs /\ files' = files \cup {<<d, f>>} /\ <<d, f>> \notin files
      /\ unseen' = unseen
  BY DEF CreateFile
<1>2. /\ kind \notin NotFollowed => ~Taken(<<>>, d, f) /\ ~Reported(Append(d, f))
      /\ kind \notin RenamesDir
  BY DEF NotFollowed, RenamesDir
<1>. HIDE DEF kind
<1>3. CASE course' = "lost"
  BY <1>3 DEF FollowInv
<1>4. SUFFICES ASSUME course' = "even" PROVE FollowInv'
  BY <1>1, <1>2, <1>3, ActCourse
<1>5. /\ \E v : Predicts(v) /\ EvenFrom(v)
      /\ kind \notin NotFollowed
      /\ FsOK /\ UnseenOK /\ events \in Seq(Events) /\ watching
      /\ skips' = skips
  BY <1>1, <1>4, EvenBefore
<1>6. PICK v : Predicts(v) /\ EvenFrom(v)
  BY <1>5
<1>7. PICK p : p = Append(d, f)
  OBVIOUS
<1>8. /\ p \in PathLike /\ Parent(p) = d /\ Name(p) = f /\ ~Reported(p)
      /\ (Len(p) > 1 <=> d # <<>>)
  <2>1. p \in PathLike /\ Parent(p) = d /\ Name(p) = f
    BY <1>5, <1>7, FilePathIsPath
  <2>. QED BY <1>2, <1>5, <1>7, <2>1, PathParts
<1>9. PICK x : x = Event("create_file", p)
  OBVIOUS
<1>10. x \in Events /\ x.kind = "create_file" /\ x.path = p
  BY <1>8, <1>9, EventIsEvent DEF PathKinds, Event
<1>11. PICK more : more = <<x>>
  OBVIOUS
<1>12. more \in Seq(Events) /\ DOMAIN more = {1} /\ more[1] = x /\ Len(more) = 1
  BY <1>10, <1>11
<1>13. events' = events \o more
  BY <1>1, <1>5, <1>7, <1>9, <1>11 DEF Notify
<1>14. \A U : Norm[f] \notin Shown(d, U)
  <2>1. \A y \in files : y[1] = d => Append(d, y[2]) # <<>>
    BY <1>5, FileFacts DEF PathLike
  <2>2. \A y \in files : y[1] = d => Norm[y[2]] # Norm[f]
    BY <1>2, <1>5, <2>1 DEF Taken
  <2>. QED BY <2>2, ShownIs
<1>15. ASSUME NEW U \in SUBSET RawPaths, NEW u, Mirrors(u, U)
       PROVE  \E w : Ends(u, Ops(more, U), w) /\ Mirrors(w, U)'
  <2>1. /\ DOMAIN u = Seen
        /\ IF d \in Seen /\ p \notin U
           THEN Mirrors(WithObjects(u, d, Append(u[d].objects, Norm[f])), U)'
           ELSE Mirrors(u, U)'
    BY <1>1, <1>5, <1>7, <1>14, <1>15, MirrorsNewFile DEF Mirrors
  <2>2. PICK c : c = EOp(x, U)
    OBVIOUS
  <2>3. c = IF d # <<>> /\ p \notin U
            THEN [type |-> "new_object", at |-> d, name |-> Norm[f]] ELSE Nop
    BY <1>8, <1>10, <2>2 DEF EOp
  <2>4. ~Panics(u, c)
    BY <2>3 DEF Panics, Nop
  <2>5. Ends(u, Ops(more, U), Do(u, c))
    BY <1>10, <1>11, <2>2, <2>4, OneTells
  <2>6. CASE d \in Seen /\ p \notin U
    <3>1. d # <<>>
      BY <1>5, <2>6 DEF Seen, FsOK, PathLike
    <3>2. PICK w : w = WithObjects(u, d, Append(u[d].objects, Norm[f]))
      OBVIOUS
    <3>3. Do(u, c) = w
      BY <2>1, <2>3, <2>6, <3>1, <3>2 DEF Do, Apply, TreeNewObject, WithObjects
    <3>. QED BY <2>1, <2>5, <2>6, <3>2, <3>3
  <2>7. CASE ~(d \in Seen /\ p \notin U)
    <3>1. Do(u, c) = u
      BY <2>1, <2>3, <2>7 DEF Do, Apply, TreeNewObject, Nop
    <3>. QED BY <2>1, <2>5, <2>7, <3>1
  <2>. QED BY <2>6, <2>7
<1>16. /\ UnseenOK' /\ \A q : Unseen(q)' <=> Unseen(q)
  BY <1>1, <1>5, NewFileFacts
<1>17. ASSUME NEW i \in DOMAIN events, RawMade(events[i]), events[i].path = p PROVE FALSE
  <2>1. events[i] \in Events /\ events[i].kind = "create_file" /\ f \in RawFiles
    BY <1>5, <1>8, <1>17 DEF RawMade
  <2>2. events[i] = Event("create_file", p)
    BY <1>17, <2>1 DEF Events, Boths, Event
  <2>. QED BY <1>8, <2>1, <2>2 DEF Reported
<1>18. ASSUME NEW i \in DOMAIN events, NEW q, RawMade(events[i]), events[i].path = q, IsFile(q)'
       PROVE  IsFile(q)
  <2>1. q \in PathLike
    <3>1. events[i] \in Events
      BY <1>5
    <3>. QED BY <1>18, <3>1, EventFacts DEF RawMade, PathKinds
  <2>2. q # p
    BY <1>17, <1>18
  <2>3. <<Parent(q), Name(q)>> # <<d, f>>
    BY <1>7, <2>1, <2>2, PathParts
  <2>. QED BY <1>1, <1>18, <2>3 DEF IsFile
<1>19. \A i \in DOMAIN more : more[i].kind # "both" /\ EvenNamed(more[i])
  BY <1>8, <1>10, <1>12 DEF EvenNamed
<1>20. ASSUME NEW y \in files', y[2] \in RawFiles, ~Unseen(Append(y[1], y[2]))'
       PROVE  \/ y \in files /\ ~Unseen(Append(y[1], y[2]))
              \/ \E j \in DOMAIN more : RawMade(more[j]) /\ more[j].path = Append(y[1], y[2])
  <2>1. CASE y \in files
    BY <1>16, <1>20, <2>1
  <2>2. CASE y = <<d, f>>
    <3>1. y[1] = d /\ y[2] = f
      BY <2>2
    <3>. QED BY <1>7, <1>8, <1>10, <1>12, <1>20, <3>1 DEF RawMade
  <2>. QED BY <1>1, <2>1, <2>2
<1>21. \A j \in DOMAIN events : RawMade(events[j]) => events[j].path # more[1].path
  BY <1>10, <1>12, <1>17
<1>22. EvenFrom(v)'
  BY <1>5, <1>6, <1>12, <1>13, <1>15, <1>18, <1>19, <1>20, <1>21, EvenGrows
<1>. QED BY <1>1, <1>4, <1>6, <1>16, <1>22, EvenAct

\* What a rename of a file is told as.
LEMMA RenamedTells ==
    ASSUME NEW p \in PathLike, NEW q \in PathLike, Name(p) \in FileNames, NEW more, more = Renamed(p, q),
           NEW U, NEW u
    PROVE  Ends(u, Ops(more, U), TreeNameObject(u, Parent(q), Name(p), Name(q)))
<1>. DEFINE a == Event("from", p)
            b == [kind |-> "both", from |-> p, to |-> q]
            c == [type |-> "name_object", at |-> Parent(q), from |-> Name(p), to |-> Name(q)]
<1>1. more = <<a, b>>
  BY DEF Renamed
<1>2. EOp(a, U) = Nop /\ EOp(b, U) = c
  BY DEF EOp, Event
<1>3. /\ ~Panics(u, Nop) /\ Do(u, Nop) = u
      /\ ~Panics(u, c) /\ Do(u, c) = TreeNameObject(u, Parent(q), Name(p), Name(q))
  BY DEF Panics, Do, Nop, Apply
<1>. HIDE DEF a, b, c
<1>. DEFINE s == <<Nop, c>>
            h == [i \in {0, 1, 2} |-> IF i = 2 THEN Do(u, c) ELSE u]
<1>4. Ops(more, U) = s
  BY <1>1, <1>2 DEF Ops
<1>5. Len(s) = 2 /\ s[1] = Nop /\ s[2] = c /\ h[0] = u /\ h[1] = u /\ h[2] = Do(u, c)
  OBVIOUS
<1>. HIDE DEF s, h
<1>6. \A i \in 1 .. Len(s) : h[i] = Do(h[i - 1], s[i]) /\ ~Panics(h[i - 1], s[i])
  BY <1>3, <1>5
<1>7. Ends(u, s, Do(u, c))
  BY <1>5, <1>6 DEF Ends
<1>. QED BY <1>3, <1>4, <1>7

LEMMA FollowRenameFile ==
    ASSUME IndInv, CourseInv, FollowInv, NEW x \in files, NEW c \in dirs \cup {<<>>},
           NEW g \in AllFiles, RenameFile(x[1], x[2], c, g)
    PROVE  FollowInv'
<1>1. PICK p, q : p = Append(x[1], x[2]) /\ q = Append(c, g)
  OBVIOUS
<1>. DEFINE kind == IF Taken(p, c, g) THEN "replace_file"
                    ELSE IF c = <<>> THEN "rename_root_file"
                    ELSE IF c # x[1] THEN "move_file"
                    ELSE IF {x[2], g} \subseteq FileNames THEN "rename_file"
                                                          ELSE "rename_file_raw"
<1>2. Act(kind) /\ MoveFile(p, q) /\ Notify(Renamed(p, q)) /\ <<x[1], x[2]>> # <<c, g>>
  BY <1>1 DEF RenameFile
<1>3. /\ kind \notin NotFollowed => /\ ~Taken(p, c, g) /\ c # <<>> /\ c = x[1]
                                    /\ x[2] \in FileNames /\ g \in FileNames
      /\ kind \notin RenamesDir
  BY DEF NotFollowed, RenamesDir
<1>. HIDE DEF kind
<1>4. CASE course' = "lost"
  BY <1>4 DEF FollowInv
<1>5. SUFFICES ASSUME course' = "even" PROVE FollowInv'
  BY <1>2, <1>3, <1>4, ActCourse
<1>6. /\ \E v : Predicts(v) /\ EvenFrom(v)
      /\ kind \notin NotFollowed
      /\ FsOK /\ UnseenOK /\ events \in Seq(Events) /\ watching /\ Distinct(dirs, files)
      /\ skips' = skips
  BY <1>2, <1>5, EvenBefore
<1>7. PICK v : Predicts(v) /\ EvenFrom(v)
  BY <1>6
<1>8. /\ p \in PathLike /\ Parent(p) = c /\ Name(p) = x[2] /\ IsFile(p) /\ <<c, x[2]>> = x
      /\ q \in PathLike /\ Parent(q) = c /\ Name(q) = g /\ ~Taken(p, c, g)
      /\ c # <<>> /\ c = x[1] /\ x[2] \in FileNames /\ g \in FileNames
  BY <1>1, <1>3, <1>6, FileFacts, FilePathIsPath
<1>9. q # p /\ Len(q) > 1
  BY <1>2, <1>8, PathParts
<1>10. ~IsFile(q)
  <2>1. IsFile(q) => <<c, g>> \in files
    BY <1>8 DEF IsFile
  <2>. QED BY <1>1, <1>8, <1>9, <2>1 DEF Taken
<1>11. /\ UnseenOK'
       /\ \A y : y \in files' <=> (y \in files /\ y # <<c, x[2]>>) \/ y = <<c, g>>
       /\ \A y \in files : y # <<c, x[2]>> =>
             (Unseen(Append(y[1], y[2]))' <=> Unseen(Append(y[1], y[2])))
  BY <1>2, <1>6, <1>8, <1>10, RenamedFileFacts
<1>12. PICK more : more = Renamed(p, q)
  OBVIOUS
<1>13. /\ more \in Seq(Events) /\ DOMAIN more = {1, 2}
       /\ more[1].kind = "from"
       /\ more[2].kind = "both" /\ more[2].from = p /\ more[2].to = q
  <2>1. Name(q) \notin DirNames
    BY <1>8, NamesApart
  <2>2. more \in Seq(Events)
    BY <1>8, <1>12, <2>1, RenamedIsEvents
  <2>. QED BY <1>12, <2>2 DEF Renamed, Event
<1>14. events' = events \o more
  BY <1>2, <1>6, <1>12 DEF Notify
<1>15. ASSUME NEW U \in SUBSET RawPaths, NEW u, Mirrors(u, U)
       PROVE  \E w : Ends(u, Ops(more, U), w) /\ Mirrors(w, U)'
  <2>1. PICK w : w = TreeNameObject(u, c, x[2], g)
    OBVIOUS
  <2>2. Mirrors(w, U)'
    BY <1>2, <1>6, <1>8, <1>9, <1>15, <2>1, MirrorsRenamedFile
  <2>3. Ends(u, Ops(more, U), w)
    BY <1>8, <1>12, <2>1, RenamedTells
  <2>. QED BY <2>2, <2>3
<1>16. \A i \in DOMAIN more : ~RawMade(more[i]) /\ EvenNamed(more[i])
  BY <1>8, <1>9, <1>13 DEF RawMade, EvenNamed
<1>17. ASSUME NEW i \in DOMAIN events, NEW r, RawMade(events[i]), events[i].path = r, IsFile(r)'
       PROVE  /\ IsFile(r)
              /\ \A j \in DOMAIN more : more[j].kind = "both" => more[j].to # Normal(r)
  <2>1. r \in PathLike /\ Name(r) \in RawFiles
    <3>1. events[i] \in Events
      BY <1>6
    <3>. QED BY <1>17, <3>1, EventFacts DEF RawMade, PathKinds
  <2>2. Name(r) \notin FileNames /\ Name(r) # g /\ Name(r) # x[2]
    BY <1>8, <2>1, FileNamesApart
  <2>3. <<Parent(r), Name(r)>> \in files /\ IsFile(r)
    BY <1>11, <1>17, <2>2 DEF IsFile
  <2>4. ASSUME q = Normal(r) PROVE FALSE
    <3>1. g = Norm[Name(r)] /\ c = Parent(r)
      <4>1. Parent(r) \in Seq(Segs) /\ Norm[Name(r)] \in Segs
        BY <2>1, PathParts, FileNamesApart, NamesApart DEF AllFiles
      <4>. QED BY <1>8, <2>4, <4>1, AppendParts DEF Normal
    <3>2. Norm[Name(r)] = Norm[g]
      BY <1>8, <3>1, NormAssumption
    <3>3. Append(c, Name(r)) # p
      BY <1>8, <2>1, <2>2, <3>1, PathParts
    <3>. DEFINE z == <<Parent(r), Name(r)>>
    <3>4. z \in files /\ z[1] = c /\ z[2] = Name(r)
      BY <2>3, <3>1
    <3>. HIDE DEF z
    <3>. QED BY <1>8, <3>2, <3>3, <3>4 DEF Taken
  <2>. QED BY <1>13, <2>3, <2>4
<1>18. ASSUME NEW y \in files', y[2] \in RawFiles, ~Unseen(Append(y[1], y[2]))'
       PROVE  y \in files /\ ~Unseen(Append(y[1], y[2]))
  <2>1. y # <<c, g>>
    BY <1>8, <1>18, FileNamesApart
  <2>. QED BY <1>11, <1>18, <2>1
<1>19. EvenFrom(v)'
  BY <1>6, <1>7, <1>13, <1>14, <1>15, <1>16, <1>17, <1>18, EvenGrows
<1>. QED BY <1>2, <1>5, <1>7, <1>11, <1>19, EvenAct

\* What the removal of a directory is told as.
LEMMA GoneTells ==
    ASSUME FsOK, NEW p \in dirs, NEW s \in Seq(Events),
           \A i \in DOMAIN s : s[i].kind = "remove_file" /\ s[i].path \notin dirs,
           NEW more, more = s \o <<Event("remove_folder", p)>>,
           Len(p) > 1 => ~Unseen(p), NEW U, NEW u, Mirrors(u, U)
    PROVE  Ends(u, Ops(more, U), RemoveEntry(u, p))
<1>1. p \in PathLike
  BY DirIsPath
<1>2. PICK x : x = Event("remove_folder", p)
  OBVIOUS
<1>3. x \in Events /\ x.kind = "remove_folder" /\ x.path = p
  BY <1>1, <1>2, EventIsEvent DEF PathKinds, Event
<1>4. /\ DOMAIN u = Seen /\ Hung(u)
      /\ Len(p) > 1 => p \in DOMAIN u /\ Parent(p) \in DOMAIN u /\ u[Parent(p)].keys
  BY DEF Mirrors, Good, TreeOK, Hung, Seen
<1>5. Ends(u, Ops(s, U), u)
  <2>1. /\ Len(Ops(s, U)) = Len(s) /\ Len(s) \in Nat /\ DOMAIN s = 1 .. Len(s)
        /\ \A i \in 1 .. Len(s) : Ops(s, U)[i] = EOp(s[i], U)
    BY OpsParts
  <2>2. ASSUME NEW i \in 1 .. Len(s)
        PROVE  Do(u, EOp(s[i], U)) = u /\ ~Panics(u, EOp(s[i], U))
    <3>1. EOp(s[i], U) = [type |-> "delete_object", at |-> s[i].path, name |-> Name(s[i].path)]
      BY <2>1 DEF EOp
    <3>2. s[i].path \notin DOMAIN u
      BY <1>4, <2>1 DEF Seen
    <3>. QED BY <3>1, <3>2 DEF Do, Apply, TreeDeleteObject, Panics
  <2>. QED BY <2>1, <2>2, EndsIdle
<1>6. ~Panics(u, EOp(x, U)) /\ Do(u, EOp(x, U)) = RemoveEntry(u, p)
  <2>1. CASE Len(p) = 1
    <3>1. EOp(x, U) = [type |-> "delete_bucket", bucket |-> p[1]]
      BY <1>3, <2>1 DEF EOp
    <3>2. <<p[1]>> = p
      BY <1>1, <2>1, LengthOne
    <3>. QED BY <3>1, <3>2 DEF Do, Apply, TreeDeleteBucket, Panics
  <2>2. CASE Len(p) > 1
    <3>1. EOp(x, U) = [type |-> "delete_key", at |-> p]
      BY <1>1, <1>3, <2>2, LengthOne DEF EOp
    <3>. QED BY <1>4, <2>2, <3>1 DEF Do, Apply, TreeDeleteKey, Panics
  <2>. QED BY <1>1, <2>1, <2>2, LengthOne
<1>7. Ends(u, Ops(<<x>>, U), RemoveEntry(u, p))
  BY <1>3, <1>6, OneTells
<1>8. PICK r : r = <<x>>
  OBVIOUS
<1>9. r \in Seq(Events) /\ more = s \o r
  BY <1>2, <1>3, <1>8
<1>10. /\ Ops(more, U) = Ops(s, U) \o Ops(r, U)
       /\ Ops(s, U) \in Seq(OpSet(U)) /\ Ops(r, U) \in Seq(OpSet(U))
  <2>1. Ops(s, U) \in Seq(OpSet(U))
    BY OpsParts
  <2>2. Ops(r, U) \in Seq(OpSet(U))
    BY <1>9, OpsParts
  <2>3. Ops(s \o r, U) = Ops(s, U) \o Ops(r, U)
    BY <1>9, OpsJoined
  <2>. QED BY <1>9, <2>1, <2>2, <2>3
<1>. QED BY <1>5, <1>7, <1>8, <1>10, EndsBoth

LEMMA FollowDeleteFolder ==
    ASSUME IndInv, CourseInv, FollowInv, NEW p \in dirs, DeleteFolder(p)
    PROVE  FollowInv'
<1>. DEFINE kind == IF Len(p) > 1 /\ Unseen(p) THEN "unseen_key" ELSE "delete_folder"
<1>1. /\ Act(kind) /\ ~\E r \in dirs : Len(r) > 1 /\ Parent(r) = p
      /\ dirs' = dirs \ {p} /\ files' = files \ {x \in files : x[1] = p}
      /\ unseen' = {x \in unseen : ~Under(p, x)}
  BY DEF DeleteFolder
<1>2. /\ kind \notin NotFollowed => (Len(p) > 1 => ~Unseen(p))
      /\ kind \notin RenamesDir
  BY DEF NotFollowed, RenamesDir
<1>. HIDE DEF kind
<1>3. CASE course' = "lost"
  BY <1>3 DEF FollowInv
<1>4. SUFFICES ASSUME course' = "even" PROVE FollowInv'
  BY <1>1, <1>2, <1>3, ActCourse
<1>5. /\ \E v : Predicts(v) /\ EvenFrom(v)
      /\ kind \notin NotFollowed
      /\ FsOK /\ UnseenOK /\ events \in Seq(Events) /\ watching
      /\ skips' = skips
  BY <1>1, <1>4, EvenBefore
<1>6. PICK v : Predicts(v) /\ EvenFrom(v)
  BY <1>5
<1>7. PICK s \in Seq(Events) :
         /\ Notify(s \o <<Event("remove_folder", p)>>)
         /\ \A i \in DOMAIN s : s[i].kind = "remove_file" /\ s[i].path \notin dirs
  BY <1>5, FilesGoFirst
<1>8. PICK last : last = <<Event("remove_folder", p)>>
  OBVIOUS
<1>9. last \in Seq(Events) /\ \A i \in DOMAIN last : last[i].kind = "remove_folder"
  <2>1. p \in PathLike
    BY <1>5, DirIsPath
  <2>2. Event("remove_folder", p) \in Events /\ Event("remove_folder", p).kind = "remove_folder"
    BY <2>1, EventIsEvent DEF PathKinds, Event
  <2>. QED BY <1>8, <2>2
<1>10. PICK more : more = s \o last
  OBVIOUS
<1>11. /\ more \in Seq(Events)
       /\ \A i \in DOMAIN more : more[i].kind \in {"remove_file", "remove_folder"}
  BY <1>7, <1>9, <1>10, JoinedParts
<1>12. events' = events \o more
  BY <1>5, <1>7, <1>8, <1>10 DEF Notify
<1>13. ASSUME NEW U \in SUBSET RawPaths, NEW u, Mirrors(u, U)
       PROVE  \E w : Ends(u, Ops(more, U), w) /\ Mirrors(w, U)'
  <2>1. PICK w : w = RemoveEntry(u, p)
    OBVIOUS
  <2>2. Mirrors(w, U)'
    BY <1>1, <1>5, <1>13, <2>1, MirrorsGoneDir
  <2>3. Ends(u, Ops(more, U), w)
    BY <1>2, <1>5, <1>7, <1>8, <1>10, <1>13, <2>1, GoneTells
  <2>. QED BY <2>2, <2>3
<1>14. UnseenOK' /\ \A y \in files' : Unseen(Append(y[1], y[2]))' <=> Unseen(Append(y[1], y[2]))
  <2>1. PICK t : \E U : Mirrors(t, U)
    BY <1>6 DEF EvenFrom, Predicted
  <2>. QED BY <1>1, <1>5, <2>1, MirrorsGoneDir
<1>15. \A i \in DOMAIN more : /\ ~RawMade(more[i]) /\ EvenNamed(more[i])
                              /\ more[i].kind # "both"
  BY <1>11 DEF RawMade, EvenNamed
<1>16. files' \subseteq files /\ \A r : IsFile(r)' => IsFile(r)
  BY <1>1 DEF IsFile
<1>17. EvenFrom(v)'
  BY <1>5, <1>6, <1>11, <1>12, <1>13, <1>14, <1>15, <1>16, EvenGrows
<1>. QED BY <1>1, <1>4, <1>6, <1>14, <1>17, EvenAct

LEMMA FollowMoveIn ==
    ASSUME IndInv, CourseInv, FollowInv, NEW p \in FsPaths \cup FilePaths, MoveIn(p)
    PROVE  FollowInv'
<1>. DEFINE kind == IF Reported(p) THEN "remake_file" ELSE "move_in"
<1>1. /\ Act(kind) /\ events' = events /\ Free(Parent(p), Name(p))
      /\ \/ Name(p) \in DirNames /\ dirs' = dirs \cup {p} /\ files' = files
         \/ /\ Name(p) \in AllFiles /\ files' = files \cup {<<Parent(p), Name(p)>>}
            /\ dirs' = dirs
      /\ unseen' = unseen \cup {p}
  BY DEF MoveIn
<1>2. kind \notin RenamesDir /\ (kind \notin NotFollowed => ~Reported(p))
  BY DEF RenamesDir, NotFollowed
<1>. HIDE DEF kind
<1>3. CASE course' = "lost"
  BY <1>3 DEF FollowInv
<1>4. SUFFICES ASSUME course' = "even" PROVE FollowInv'
  BY <1>1, <1>2, <1>3, ActCourse
<1>5. /\ \E v : Predicts(v) /\ EvenFrom(v)
      /\ kind \notin NotFollowed
      /\ FsOK /\ UnseenOK /\ events \in Seq(Events) /\ watching
      /\ skips' = skips
  BY <1>1, <1>4, EvenBefore
<1>6. PICK v : Predicts(v) /\ EvenFrom(v)
  BY <1>5
<1>7. p \in PathLike
  BY <1>5, FsPathIsPath, FilePathsArePaths
<1>8. p \notin dirs
  BY <1>1 DEF Free
<1>9. ~IsFile(p)
  <2>. DEFINE z == <<Parent(p), Name(p)>>
  <2>1. z[1] = Parent(p) /\ z[2] = Name(p) /\ (IsFile(p) <=> z \in files)
    BY DEF IsFile
  <2>. HIDE DEF z
  <2>. QED BY <1>1, <2>1 DEF Free
<1>10. /\ \A t, U : Mirrors(t, U) => Mirrors(t, U)'
       /\ UnseenOK'
       /\ \A y \in files : Unseen(Append(y[1], y[2]))' <=> Unseen(Append(y[1], y[2]))
       /\ Unseen(p)'
  BY <1>1, <1>5, <1>7, <1>8, <1>9, MirrorsMovedIn
<1>11. PICK more : more = <<>>
  OBVIOUS
<1>12. more \in Seq(Events) /\ DOMAIN more = {} /\ events' = events \o more
  BY <1>1, <1>5, <1>11
<1>13. ASSUME NEW U \in SUBSET RawPaths, NEW u, Mirrors(u, U)
       PROVE  \E w : Ends(u, Ops(more, U), w) /\ Mirrors(w, U)'
  <2>1. Ops(more, U) = <<>>
    BY <1>11 DEF Ops
  <2>. QED BY <1>10, <1>13, <2>1, EndsNone
<1>14. ASSUME NEW i \in DOMAIN events, NEW r, RawMade(events[i]), events[i].path = r, IsFile(r)'
       PROVE  IsFile(r)
  <2>1. events[i] \in Events /\ events[i].kind = "create_file" /\ Name(r) \in RawFiles
        /\ r \in PathLike
    BY <1>5, <1>14, EventFacts DEF RawMade, PathKinds
  <2>2. r # p
    <3>1. events[i] = Event("create_file", r)
      BY <1>14, <2>1 DEF Events, Boths, Event
    <3>. QED BY <1>2, <1>5, <2>1, <3>1 DEF Reported
  <2>3. <<Parent(r), Name(r)>> # <<Parent(p), Name(p)>>
    BY <1>7, <2>1, <2>2, PathParts
  <2>. QED BY <1>1, <1>14, <2>3 DEF IsFile
<1>15. ASSUME NEW y \in files', ~Unseen(Append(y[1], y[2]))'
       PROVE  y \in files /\ ~Unseen(Append(y[1], y[2]))
  <2>1. y # <<Parent(p), Name(p)>>
    <3>1. ASSUME y = <<Parent(p), Name(p)>> PROVE FALSE
      <4>1. Append(y[1], y[2]) = p
        BY <1>7, <3>1, PathParts
      <4>. QED BY <1>10, <1>15, <4>1
    <3>. QED BY <3>1
  <2>2. y \in files
    BY <1>1, <2>1
  <2>. QED BY <1>10, <1>15, <2>2
<1>16. EvenFrom(v)'
  BY <1>5, <1>6, <1>12, <1>13, <1>14, <1>15, EvenGrows
<1>. QED BY <1>1, <1>4, <1>6, <1>10, <1>16, EvenAct

\* What the index does not follow.
LEMMA FollowLost ==
    ASSUME NEW kind \in NotFollowed, Act(kind)
    PROVE  FollowInv'
BY DEF Act, Course, FollowInv

\* A directory of the index gets another name, or one that was moved in.
LEMMA FollowRenameFolder ==
    ASSUME IndInv, CourseInv, FollowInv, NEW p \in dirs, NEW q \in FsPaths, RenameFolder(p, q)
    PROVE  FollowInv'
<1>. DEFINE kind == IF Len(p) > 1 /\ Unseen(p) THEN "unseen_key"
                    ELSE IF Parent(q) # Parent(p) THEN "move_folder"
                    ELSE IF Norm[Name(q)] = Empty /\ Name(p) \in RawNames /\ ~Unseen(p)
                         THEN "rename_raw" ELSE "rename_folder"
<1>1. /\ Act(kind) /\ MoveDir(p, q) /\ Notify(Renamed(p, q))
      /\ ~Under(p, q) /\ Free(Parent(q), Name(q))
  BY DEF RenameFolder
<1>2. /\ kind \in NotFollowed \/ kind \in RenamesDir
      /\ kind \notin NotFollowed =>
            /\ Unseen(p) => ~(Len(p) > 1)
            /\ Parent(q) = Parent(p)
            /\ Norm[Name(q)] = Empty /\ ~Unseen(p) => Name(p) \notin RawNames
  BY DEF NotFollowed, RenamesDir
<1>. HIDE DEF kind
<1>3. CASE course' = "lost"
  BY <1>3 DEF FollowInv
<1>4. SUFFICES ASSUME course' = "renaming" PROVE FollowInv'
  BY <1>1, <1>2, <1>3, ActCourse
<1>5. /\ \E v : Predicts(v) /\ Rest(v)
      /\ kind \notin NotFollowed
      /\ FsOK /\ UnseenOK /\ events = <<>> /\ watching /\ skips' = skips
  BY <1>1, <1>4, RenamingBefore
<1>6. PICK v : Predicts(v) /\ Rest(v)
  BY <1>5
<1>7. /\ p \in PathLike /\ Name(p) \in DirNames /\ q \in PathLike /\ Name(q) \in DirNames
      /\ Parent(q) = Parent(p) /\ q \notin dirs
  BY <1>1, <1>2, <1>5, DirIsPath, FsPathIsPath DEF Free
<1>8. Mirrors(v, {}) /\ RawUnseen /\ NoSkips /\ DOMAIN v = Seen
  BY <1>6 DEF Rest, Mirrors
<1>9. /\ UnseenOK' /\ p \notin dirs' /\ q \in dirs' /\ (q \in Seen' <=> p \in Seen) /\ RawUnseen'
  BY <1>1, <1>5, <1>7, <1>8, MoveDirFacts
<1>10. /\ p \in Seen => Mirrors(MoveEntry(v, p, q), {})'
       /\ p \notin Seen => Mirrors(v, {})'
  BY <1>1, <1>5, <1>7, <1>8, MirrorsMove
<1>11. PICK x : x = [kind |-> "both", from |-> p, to |-> q]
  OBVIOUS
<1>12. x.kind = "both" /\ x.from = p /\ x.to = q
  BY <1>11
<1>13. PICK more : more = Renamed(p, q)
  OBVIOUS
<1>14. /\ DOMAIN more = {1, 2} /\ more[1].kind = "from" /\ more[2] = x
       /\ \A i \in DOMAIN more : more[i].kind \in RenamingKinds
       /\ \E i \in DOMAIN more : more[i] = x
  BY <1>11, <1>13 DEF Renamed, Event, RenamingKinds
<1>15. events' = more
  BY <1>1, <1>5, <1>13 DEF Notify, Renamed
<1>16. NoSkips'
  BY <1>5, <1>8 DEF NoSkips
<1>17. CASE p \in Seen
  <2>1. ~Unseen(p)
    BY <1>17 DEF Seen
  <2>2. Norm[Name(q)] = Empty => Name(p) \in Names
    BY <1>2, <1>5, <1>7, <2>1 DEF DirNames
  <2>3. q \notin DOMAIN v
    BY <1>7, <1>8 DEF Seen
  <2>4. Effective(v, x)'
    BY <1>7, <1>8, <1>9, <1>10, <1>12, <1>16, <1>17, <2>2, <2>3 DEF Effective
  <2>. QED BY <1>1, <1>4, <1>6, <1>9, <1>14, <1>15, <2>4, RenamingAct
<1>18. CASE p \notin Seen
  <2>1. Len(p) = 1
    BY <1>2, <1>5, <1>7, <1>18, LengthOne DEF Seen
  <2>2. Len(q) = 1
    <3>1. Len(Parent(p)) = Len(p) - 1 /\ Len(Parent(q)) = Len(q) - 1 /\ Len(q) \in Nat
      BY <1>7, PathParts
    <3>. QED BY <1>7, <2>1, <3>1
  <2>3. Harmless(x)'
    <3>1. p \notin Seen'
      BY <1>9 DEF Seen
    <3>2. q \notin Seen'
      BY <1>9, <1>18
    <3>. QED BY <1>9, <1>12, <2>2, <3>1, <3>2 DEF Harmless
  <2>4. \A i \in DOMAIN more : /\ more[i].kind = "both" => more[i] = x
                               /\ more[i].kind # "create_folder"
    BY <1>12, <1>14
  <2>5. ASSUME NEW i \in DOMAIN more
        PROVE  /\ more[i].kind = "both" => Harmless(more[i])'
               /\ more[i].kind # "create_folder"
    BY <2>3, <2>4
  <2>6. \A s \in skips' : Name(s[2]) \notin Names
    BY <1>5, <1>8 DEF NoSkips
  <2>7. Settled(v)'
    BY <1>10, <1>15, <1>18, <2>5, <2>6 DEF Settled
  <2>. QED BY <1>1, <1>4, <1>6, <1>9, <1>14, <1>15, <2>7, RenamingAct
<1>. QED BY <1>17, <1>18

LEMMA FollowUser ==
    ASSUME IndInv, CourseInv, FollowInv, User
    PROVE  FollowInv'
<1>1. ASSUME NEW p \in FsPaths, CreateFolder(p) PROVE FollowInv'
  BY <1>1, FollowCreateFolder
<1>2. ASSUME NEW d \in dirs \cup {<<>>}, NEW f \in AllFiles, CreateFile(d, f)
      PROVE  FollowInv'
  BY <1>2, FollowCreateFile
<1>3. ASSUME NEW x \in files, NEW c \in dirs \cup {<<>>}, NEW g \in AllFiles,
             RenameFile(x[1], x[2], c, g)
      PROVE  FollowInv'
  BY <1>3, FollowRenameFile
<1>4. ASSUME NEW p \in dirs, NEW q \in FsPaths, RenameFolder(p, q) PROVE FollowInv'
  BY <1>4, FollowRenameFolder
<1>5. ASSUME NEW p \in dirs, DeleteFolder(p) PROVE FollowInv'
  BY <1>5, FollowDeleteFolder
<1>6. ASSUME NEW x \in files, DeleteFile(x[1], x[2]) PROVE FollowInv'
  <2>1. Act("delete_file") /\ "delete_file" \in NotFollowed
    BY <1>6 DEF DeleteFile, NotFollowed
  <2>. QED BY <2>1, FollowLost
<1>7. ASSUME NEW p, MoveOut(p) PROVE FollowInv'
  <2>1. Act("move_out") /\ "move_out" \in NotFollowed
    BY <1>7 DEF MoveOut, NotFollowed
  <2>. QED BY <2>1, FollowLost
<1>8. ASSUME NEW p \in FsPaths \cup FilePaths, MoveIn(p) PROVE FollowInv'
  BY <1>8, FollowMoveIn
<1>. QED BY <1>1, <1>2, <1>3, <1>4, <1>5, <1>6, <1>7, <1>8 DEF User

-----------------------------------------------------------------------------
(***************************************************************************)
(* The steps of the service while a directory is renamed.                  *)
(***************************************************************************)
\* The event that renames is the only one, and what the index has yet to follow.
LEMMA RenamingHead ==
    ASSUME NEW v, Predicts(v), course = "renaming", NEW kind, Handles(kind)
    PROVE  /\ events \in Seq(Events) /\ events # <<>> /\ e = events[1]
           /\ events[1] \in Events /\ events[1].kind = kind /\ kind \in RenamingKinds
           /\ FsOK /\ UnseenOK /\ Good(v) /\ watching /\ SkipsOK /\ RawUnseen
           /\ Distinct(dirs, files)
           /\ RenamingEvent(events[1])
           /\ \A s \in skips : s[1] # "object"
           /\ kind = "both" => BackFree(dirs, events[1])
           /\ Moves(events[1]) =>
                 /\ Settled(v) \/ Effective(v, events[1]) \/ Creation(v, events[1])
                 /\ \A i \in DOMAIN Tail(events) : ~Moves(Tail(events)[i])
<1>1. /\ events \in Seq(Events) /\ events # <<>> /\ e = events[1]
      /\ events[1] \in Events /\ events[1].kind = kind
      /\ FsOK /\ UnseenOK /\ Good(v) /\ watching /\ SkipsOK /\ Distinct(dirs, files)
  BY EvenAtHand
<1>2. RenamingFrom(v) /\ Renaming(dirs, events)
  BY DEF Predicts, From, CourseInv
<1>3. 1 \in DOMAIN events
  BY <1>1, EventOne
<1>4. /\ kind \in RenamingKinds /\ RawUnseen /\ RenamingEvent(events[1])
      /\ \A s \in skips : s[1] # "object"
      /\ kind = "both" => BackFree(dirs, events[1])
  BY <1>1, <1>2, <1>3 DEF RenamingFrom, Renaming
<1>5. ASSUME Moves(events[1])
      PROVE  /\ Settled(v) \/ Effective(v, events[1]) \/ Creation(v, events[1])
             /\ \A i \in DOMAIN Tail(events) : ~Moves(Tail(events)[i])
  <2>1. \A i \in DOMAIN events : Moves(events[i]) => i = 1
    BY <1>2, <1>3, <1>5 DEF Renaming
  <2>2. \A i \in DOMAIN events :
           Effective(v, events[i]) \/ Creation(v, events[i]) => Moves(events[i])
    BY DEF Effective, Creation, Moves
  <2>3. \A i \in DOMAIN Tail(events) :
           i + 1 \in DOMAIN events /\ Tail(events)[i] = events[i + 1] /\ i + 1 # 1
    BY <1>1, EventsLeft
  <2>. QED BY <1>2, <2>1, <2>2, <2>3 DEF RenamingFrom
<1>. QED BY <1>1, <1>4, <1>5

\* With the rename handled, the tree is told of all of it.
LEMMA RenamingDone ==
    ASSUME NEW v, Predicts(v), course = "renaming", NEW kind, Handles(kind), Moves(events[1]),
           NEW more \in Seq(Events), events' = Tail(events) \o more, watching' = watching,
           UnseenOK', SkipsOK', RawUnseen', \A s \in skips' : s[1] # "object",
           \A i \in DOMAIN more : /\ more[i].kind \in {"from", "both"}
                                  /\ more[i].kind = "both" => Harmless(more[i])',
           \A s \in skips' : Name(s[2]) \in Names =>
              s[1] = KindOf(s[2]) /\ \E i \in DOMAIN more : BothTo(more[i], s[2]),
           NEW w, Mirrors(w, {})',
           \/ TellNothing /\ w = v
           \/ \E c \in Messages : Tell(c) /\ ~Panics(v, c) /\ w = Do(v, c)
    PROVE  FollowInv'
<1>1. /\ events \in Seq(Events) /\ events # <<>> /\ watching
      /\ \A i \in DOMAIN Tail(events) : ~Moves(Tail(events)[i])
  BY RenamingHead
<1>2. PICK t : t = Tail(events)
  OBVIOUS
<1>3. /\ t \in Seq(Events) /\ events' = t \o more
      /\ \A i \in DOMAIN t : ~Moves(t[i])
      /\ \A i \in DOMAIN t : \E j \in DOMAIN events : t[i] = events[j]
  BY <1>1, <1>2, EventsLeft
<1>4. RenamingFrom(v)
  BY DEF Predicts, From
<1>5. \A i \in DOMAIN t : t[i].kind \in RenamingKinds \ {"both", "create_folder"}
  BY <1>3, <1>4 DEF RenamingFrom, Moves
<1>6. /\ \A i \in DOMAIN more : Len(t) + i \in DOMAIN events' /\ events'[Len(t) + i] = more[i]
      /\ \A k \in DOMAIN events' :
            \/ \E i \in DOMAIN t : events'[k] = t[i]
            \/ \E i \in DOMAIN more : events'[k] = more[i]
  <2>1. /\ \A i \in DOMAIN more : /\ Len(t) + i \in DOMAIN (t \o more)
                                  /\ (t \o more)[Len(t) + i] = more[i]
        /\ \A k \in DOMAIN (t \o more) :
              \/ k \in DOMAIN t /\ (t \o more)[k] = t[k]
              \/ \E j \in DOMAIN more : k = Len(t) + j /\ (t \o more)[k] = more[j]
    BY <1>3, JoinedParts
  <2>. DEFINE r == events'
  <2>2. /\ \A i \in DOMAIN more : Len(t) + i \in DOMAIN r /\ r[Len(t) + i] = more[i]
        /\ \A k \in DOMAIN r :
              \/ \E i \in DOMAIN t : r[k] = t[i]
              \/ \E i \in DOMAIN more : r[k] = more[i]
    <3>1. r = t \o more
      BY <1>3
    <3>. HIDE DEF r
    <3>. QED BY <2>1, <3>1
  <2>. QED BY <2>2
<1>7. ASSUME NEW x, \E k \in DOMAIN events' : events'[k] = x
      PROVE  /\ x.kind \in RenamingKinds /\ x.kind # "create_folder"
             /\ x.kind = "both" => Harmless(x)'
  <2>1. CASE \E i \in DOMAIN t : x = t[i]
    BY <1>5, <2>1
  <2>2. CASE \E i \in DOMAIN more : x = more[i]
    BY <2>2 DEF RenamingKinds
  <2>. QED BY <1>6, <1>7, <2>1, <2>2
<1>8. (\A i \in DOMAIN events : /\ events[i].kind \in RenamingKinds
                                /\ events[i].kind # "create_folder"
                                /\ events[i].kind = "both" => Harmless(events[i]))'
  BY <1>7
<1>9. ASSUME NEW s \in skips', Name(s[2]) \in Names
      PROVE  (\E k \in DOMAIN events : BothTo(events[k], s[2]) /\ s[1] = KindOf(s[2]))'
  <2>1. PICK i \in DOMAIN more : BothTo(more[i], s[2]) /\ s[1] = KindOf(s[2])
    BY <1>9
  <2>. QED BY <1>6, <2>1
<1>10. Settled(w)'
  BY <1>8, <1>9 DEF Settled
<1>11. RenamingFrom(w)'
  BY <1>8, <1>10 DEF RenamingFrom
<1>12. Good(w)
  BY DEF Mirrors
<1>13. Ends(tree, mailbox, w)' /\ alive' /\ course' = course
  BY TellDoes, TellsNothing
<1>. QED BY <1>1, <1>11, <1>12, <1>13, Followed

\* A directory can get a name beside it that is free.
LEMMA RoomFor ==
    ASSUME FsOK, NEW o \in dirs, NEW r \in PathLike, Parent(r) = Parent(o), r \notin dirs
    PROVE  CanMoveDir(o, r)
<1>1. o \in PathLike /\ o \in Seq(Segs) /\ r \in Seq(Segs) /\ r # <<>>
  BY DirIsPath, PathParts DEF PathLike
<1>2. Len(r) = Len(o)
  <2>1. /\ Len(Parent(o)) = Len(o) - 1 /\ Len(Parent(r)) = Len(r) - 1
        /\ Len(o) \in Nat /\ Len(r) \in Nat
    BY <1>1, PathParts
  <2>. QED BY <2>1
<1>3. ~Under(o, r)
  BY <1>1, <1>2, UnderOrder
<1>4. Len(r) > 1 => Parent(r) \in dirs
  BY <1>2 DEF FsOK
<1>5. \A x \in dirs : ~Under(r, x)
  BY NoneBelow
<1>6. \A x \in files : x[1] # r
  BY <1>1 DEF FsOK
<1>. QED BY <1>3, <1>4, <1>5, <1>6 DEF CanMoveDir

\* What comes to the same name is not there twice.
LEMMA SameFinal ==
    ASSUME Distinct(dirs, files), NEW o \in dirs, NEW r, r # o, Parent(r) = Parent(o),
           Final(Name(r)) = Final(Name(o))
    PROVE  r \notin dirs
BY DEF Distinct

\* A new name told of a directory that is in the tree, or that the tree knows nothing of.
LEMMA NamedDoes ==
    ASSUME NEW v, TreeOK(v), NEW p \in PathLike, NEW q \in PathLike, Parent(q) = Parent(p)
    PROVE  /\ Len(q) = 1 \/ HasKey(p, q)
           /\ p \in DOMAIN v /\ (q \notin DOMAIN v \/ q = p) =>
                 ~Panics(v, Named(p, q)) /\ Do(v, Named(p, q)) = MoveEntry(v, p, q)
           /\ p \notin DOMAIN v /\ (q \in DOMAIN v \/ Len(q) = 1) =>
                 ~Panics(v, Named(p, q)) /\ Do(v, Named(p, q)) = v
<1>1. /\ p \in Seq(Segs) /\ q \in Seq(Segs) /\ Len(p) \in Nat /\ Len(p) # 0
      /\ Len(q) \in Nat /\ Len(q) # 0 /\ Len(p) = Len(q)
      /\ q = Append(Parent(p), Name(q)) /\ p = Append(Parent(p), Name(p))
      /\ Parent(p) \in Seq(Segs) /\ Len(Parent(p)) = Len(p) - 1
      /\ Name(p) \in Segs /\ Name(q) \in Segs
  <2>1. /\ Len(Parent(p)) = Len(p) - 1 /\ Len(Parent(q)) = Len(q) - 1
        /\ Len(p) \in Nat /\ Len(q) \in Nat
    BY PathParts
  <2>. QED BY <2>1, PathParts
<1>2. CASE Len(q) = 1
  <2>1. p = <<Name(p)>> /\ q = <<Name(q)>>
    BY <1>1, <1>2, LengthOne
  <2>2. Named(p, q) = [type |-> "name_bucket", from |-> Name(p), to |-> Name(q)]
    BY <1>2 DEF Named
  <2>3. Do(v, Named(p, q)) = IF p \in DOMAIN v THEN MoveEntry(v, p, q) ELSE v
    BY <2>1, <2>2 DEF Do, Apply, TreeNameBucket
  <2>4. ~Panics(v, Named(p, q))
    BY <2>2 DEF Panics
  <2>. QED BY <1>2, <2>3, <2>4
<1>3. CASE Len(q) # 1
  <2>1. Len(p) > 1 /\ Len(Parent(p)) \in Nat /\ Len(Parent(p)) # 0
    <3>1. \A n \in Nat : n # 0 /\ n # 1 => n > 1 /\ n - 1 \in Nat /\ n - 1 # 0
      OBVIOUS
    <3>. QED BY <1>1, <1>3, <3>1
  <2>2. 1 \in DOMAIN p /\ p[1] = q[1]
    <3>1. \A i \in 1 .. Len(Parent(p)) : p[i] = Parent(p)[i] /\ q[i] = Parent(p)[i]
      <4>1. \A n \in Segs : \A i \in 1 .. Len(Parent(p)) : Append(Parent(p), n)[i] = Parent(p)[i]
        BY <1>1, AppendParts
      <4>. QED BY <1>1, <4>1
    <3>2. 1 \in 1 .. Len(Parent(p)) /\ 1 \in 1 .. Len(p)
      BY <1>1, <2>1
    <3>. QED BY <1>1, <3>1, <3>2
  <2>3. KeyAfter(q[1], p) = p
    <3>. DEFINE P(i) == p[i] = q[1] /\ \A j \in 1 .. i - 1 : p[j] # q[1]
                k == CHOOSE i \in DOMAIN p : P(i)
    <3>1. P(1) /\ \A i \in DOMAIN p : P(i) => i = 1
      <4>1. \A i \in 1 .. Len(p) : i # 1 => 1 \in 1 .. i - 1
        OBVIOUS
      <4>. QED BY <1>1, <2>2, <4>1
    <3>. HIDE DEF P
    <3>2. k = 1
      BY <2>2, <3>1
    <3>. HIDE DEF k
    <3>3. KeyAfter(q[1], p) =
             <<q[1]>> \o (IF SubSeq(p, k + 1, Len(p)) = <<>> THEN <<Dot>>
                          ELSE SubSeq(p, k + 1, Len(p)))
      BY DEF KeyAfter, k, P
    <3>4. SubSeq(p, 2, Len(p)) # <<>> /\ <<p[1]>> \o SubSeq(p, 2, Len(p)) = p
      BY <1>1, <2>1
    <3>. QED BY <2>2, <3>2, <3>3, <3>4
  <2>4. Named(p, q) = [type |-> "name_key", at |-> p, to |-> Name(q)]
    BY <1>3, <2>3 DEF Named
  <2>5. Do(v, Named(p, q)) = TreeNameKey(v, p, Name(q))
    BY <2>4 DEF Do, Apply
  <2>6. p \in DOMAIN v \/ q \in DOMAIN v => Parent(p) \in DOMAIN v /\ v[Parent(p)].keys
    BY <1>1, <2>1 DEF TreeOK, Hung
  <2>7. (p \in DOMAIN v \/ q \in DOMAIN v) => ~Panics(v, Named(p, q))
    BY <2>4, <2>6 DEF Panics
  <2>8. HasKey(p, q)
    BY <2>2 DEF HasKey
  <2>9. p \in DOMAIN v => MoveEntry(v, p, p) = v
    BY MoveNowhere
  <2>10. TreeNameKey(v, p, Name(q)) =
            IF Parent(p) \notin DOMAIN v \/ q \in DOMAIN v THEN v
            ELSE IF p \in DOMAIN v THEN MoveEntry(v, p, q) ELSE OrDefault(v, q)
    BY <1>1 DEF TreeNameKey
  <2>. QED BY <1>3, <2>5, <2>6, <2>7, <2>8, <2>9, <2>10
<1>. QED BY <1>2, <1>3

\* A directory the service renames while handling what renamed it.
LEMMA RenamingMoves ==
    ASSUME NEW v, Predicts(v), course = "renaming", NEW kind, Handles(kind), Moves(events[1]),
           NEW o \in dirs, o \notin Seen => Len(o) = 1,
           NEW r \in PathLike, r \notin dirs, Parent(r) = Parent(o), Name(r) \in DirNames,
           o \in Seen => Name(r) \in Names,
           MoveDir(o, r), Done(Renamed(o, r)),
           SkipsOK', \A s \in skips' : s[1] # "object",
           \A s \in skips' : Name(s[2]) \in Names => s = <<KindOf(r), r>>,
           NEW w, Mirrors(w, {})',
           \/ TellNothing /\ w = v
           \/ \E c \in Messages : Tell(c) /\ ~Panics(v, c) /\ w = Do(v, c)
    PROVE  FollowInv'
<1>1. FsOK /\ UnseenOK /\ RawUnseen
  BY RenamingHead
<1>2. o \in PathLike /\ Name(o) \in DirNames /\ Len(o) = Len(r)
  <2>1. o \in PathLike /\ Name(o) \in DirNames
    BY <1>1, DirIsPath
  <2>2. /\ Len(Parent(o)) = Len(o) - 1 /\ Len(Parent(r)) = Len(r) - 1
        /\ Len(o) \in Nat /\ Len(r) \in Nat
    BY <2>1, PathParts
  <2>. QED BY <2>1, <2>2
<1>3. /\ UnseenOK' /\ o \notin dirs' /\ r \in dirs' /\ (r \in Seen' <=> o \in Seen) /\ RawUnseen'
  BY <1>1, MoveDirFacts
<1>4. PICK x : x = [kind |-> "both", from |-> o, to |-> r]
  OBVIOUS
<1>5. x.kind = "both" /\ x.from = o /\ x.to = r
  BY <1>4
<1>6. Harmless(x)'
  <2>1. o \notin Seen'
    BY <1>3 DEF Seen
  <2>2. IF r \in Seen' THEN Name(r) \in Names ELSE Len(r) = 1
    BY <1>2, <1>3
  <2>. QED BY <1>3, <1>5, <2>1, <2>2 DEF Harmless
<1>7. PICK more : more = Renamed(o, r)
  OBVIOUS
<1>8. /\ more \in Seq(Events) /\ DOMAIN more = {1, 2} /\ more[1].kind = "from" /\ more[2] = x
  <2>1. more \in Seq(Events)
    BY <1>2, <1>7, RenamedIsEvents
  <2>. QED BY <1>4, <1>7, <2>1 DEF Renamed, Event
<1>9. events' = Tail(events) \o more /\ watching' = watching
  BY <1>7 DEF Done
<1>10. ASSUME NEW i \in DOMAIN more
       PROVE  /\ more[i].kind \in {"from", "both"}
              /\ more[i].kind = "both" => Harmless(more[i])'
  <2>1. CASE i = 1
    BY <1>8, <2>1
  <2>2. CASE i = 2
    BY <1>5, <1>6, <1>8, <2>2
  <2>. QED BY <1>8, <2>1, <2>2
<1>11. ASSUME NEW s \in skips', Name(s[2]) \in Names
       PROVE  s[1] = KindOf(s[2]) /\ \E i \in DOMAIN more : BothTo(more[i], s[2])
  <2>1. s[1] = KindOf(r) /\ s[2] = r
    BY <1>11
  <2>2. BothTo(more[2], r)
    BY <1>5, <1>8 DEF BothTo
  <2>. QED BY <1>8, <2>1, <2>2
<1>. QED BY <1>3, <1>8, <1>9, <1>10, <1>11, RenamingDone

\* One whose rename is only told of, or skipped.
LEMMA RenamingTold ==
    ASSUME NEW v, Predicts(v), course = "renaming", NEW kind, Handles(kind), Moves(events[1]),
           UNCHANGED fs, Done(<<>>),
           skips' \subseteq skips, \A s \in skips' : Name(s[2]) \notin Names,
           NEW w, Mirrors(w, {}),
           \/ TellNothing /\ w = v
           \/ \E c \in Messages : Tell(c) /\ ~Panics(v, c) /\ w = Do(v, c)
    PROVE  FollowInv'
<1>1. UnseenOK /\ RawUnseen /\ SkipsOK /\ \A s \in skips : s[1] # "object"
  BY RenamingHead
<1>2. UnseenOK' /\ Mirrors(w, {})'
  BY <1>1, FsSame
<1>3. RawUnseen'
  BY <1>1 DEF RawUnseen, fs, Unseen
<1>4. SkipsOK' /\ \A s \in skips' : s[1] # "object"
  BY <1>1 DEF SkipsOK
<1>5. PICK more : more = <<>>
  OBVIOUS
<1>6. more \in Seq(Events) /\ DOMAIN more = {} /\ events' = Tail(events) \o more
      /\ watching' = watching
  BY <1>5 DEF Done
<1>. QED BY <1>2, <1>3, <1>4, <1>6, RenamingDone

\* The rename of a directory, as it is handled.
BothAtHand(v, p, o, q) ==
    /\ Predicts(v) /\ course = "renaming" /\ Handles("both") /\ o \in dirs
    /\ p = events[1].from /\ o = events[1].to /\ q = Normal(o)

LEMMA BothParts ==
    ASSUME NEW v, NEW p, NEW o, NEW q, BothAtHand(v, p, o, q)
    PROVE  /\ p \in PathLike /\ o \in PathLike /\ q \in PathLike
           /\ Parent(p) = Parent(o) /\ Parent(q) = Parent(o)
           /\ Len(p) = Len(o) /\ Len(q) = Len(o)
           /\ Name(p) \in DirNames /\ Name(o) \in DirNames /\ Name(q) = Norm[Name(o)]
           /\ q = o <=> Name(o) \in Names
           /\ Name(q) # Empty => Name(q) \in Names
           /\ p # o => p \notin dirs
           /\ q # o /\ Name(q) # Empty => q \notin dirs
           /\ Moves(events[1]) /\ FsOK /\ UnseenOK /\ TreeOK(v) /\ SkipsOK
           /\ \A s \in skips : s[1] # "object"
           /\ (Settled(v) /\ Harmless(events[1])) \/ Effective(v, events[1])
<1>1. /\ events[1] \in Events /\ events[1].kind = "both"
      /\ FsOK /\ UnseenOK /\ Good(v) /\ SkipsOK /\ Distinct(dirs, files)
      /\ RenamingEvent(events[1]) /\ BackFree(dirs, events[1])
      /\ \A s \in skips : s[1] # "object"
      /\ Moves(events[1]) =>
            Settled(v) \/ Effective(v, events[1]) \/ Creation(v, events[1])
      /\ events \in Seq(Events) /\ events # <<>>
  BY RenamingHead DEF BothAtHand
<1>2. /\ p = events[1].from /\ o = events[1].to /\ q = Normal(o) /\ o \in dirs
  BY DEF BothAtHand
<1>3. /\ p \in PathLike /\ o \in PathLike /\ Parent(p) = Parent(o)
      /\ Name(p) \in DirNames /\ Name(o) \in DirNames
  BY <1>1, <1>2, EventFacts DEF RenamingEvent
<1>4. Moves(events[1])
  BY <1>1 DEF Moves
<1>5. /\ Norm[Name(o)] \in Names \cup {Empty} /\ Norm[Name(o)] \in Segs
      /\ Norm[Name(o)] = Name(o) <=> Name(o) \in Names
      /\ Names \cap {Empty} = {}
  <2>1. Norm[Name(o)] \in Names \cup {Empty}
    BY <1>3, NormAssumption DEF DirNames
  <2>2. Norm[Name(o)] = Name(o) <=> Name(o) \in Names
    BY <1>3, NormAssumption DEF DirNames
  <2>. QED BY <2>1, <2>2, KindsAssumption DEF Segs, DirNames
<1>6. /\ q \in PathLike /\ Parent(q) = Parent(o) /\ Name(q) = Norm[Name(o)] /\ Len(q) = Len(o)
  BY <1>2, <1>3, <1>5, RenamedParts DEF Normal
<1>7. q = o <=> Name(o) \in Names
  BY <1>3, <1>5, <1>6, PathParts
<1>8. Len(p) = Len(o)
  <2>1. /\ Len(Parent(o)) = Len(o) - 1 /\ Len(Parent(p)) = Len(p) - 1
        /\ Len(o) \in Nat /\ Len(p) \in Nat
    BY <1>3, PathParts
  <2>. QED BY <1>3, <2>1
<1>9. p # o => p \notin dirs
  BY <1>1, <1>2 DEF BackFree
<1>10. q # o /\ Name(q) # Empty => q \notin dirs
  <2>1. Name(q) # Empty => Final(Name(q)) = Final(Name(o))
    BY <1>3, <1>6, FinalFacts
  <2>. QED BY <1>1, <1>2, <1>6, <2>1, SameFinal
<1>11. (Settled(v) /\ Harmless(events[1])) \/ Effective(v, events[1])
  <2>1. 1 \in DOMAIN events
    BY <1>1, EventOne
  <2>2. Settled(v) => Harmless(events[1])
    BY <1>1, <2>1 DEF Settled
  <2>3. ~Creation(v, events[1])
    BY <1>1 DEF Creation
  <2>. QED BY <1>1, <1>4, <2>2, <2>3
<1>. QED BY <1>1, <1>3, <1>4, <1>5, <1>6, <1>7, <1>8, <1>9, <1>10, <1>11 DEF Good

\* The rename to be skipped is the one at hand.
LEMMA SettledSkips ==
    ASSUME NEW v, NEW p, NEW o, NEW q, BothAtHand(v, p, o, q), Settled(v),
           NEW s \in skips, Name(s[2]) \in Names
    PROVE  s = <<KindOf(o), o>>
<1>1. PICK i \in DOMAIN events : BothTo(events[i], s[2]) /\ s[1] = KindOf(s[2])
  BY DEF Settled
<1>2. /\ events \in Seq(Events) /\ events # <<>> /\ Moves(events[1])
      /\ \A k \in DOMAIN Tail(events) : ~Moves(Tail(events)[k])
      /\ o = events[1].to /\ SkipsOK
  <2>1. Moves(events[1])
    BY BothParts
  <2>. QED BY <2>1, RenamingHead DEF BothAtHand
<1>3. PICK t : t = Tail(events)
  OBVIOUS
<1>4. i = 1
  <2>1. i # 1 => i - 1 \in DOMAIN t /\ t[i - 1] = events[i]
    BY <1>2, <1>3, TailParts
  <2>. QED BY <1>1, <1>2, <1>3, <2>1 DEF BothTo, Moves
<1>5. s[2] = o /\ s[1] = KindOf(o)
  BY <1>1, <1>2, <1>4 DEF BothTo
<1>. QED BY <1>2, <1>5 DEF SkipsOK

\* A rename of the service's own comes back and is skipped.
LEMMA BothSkipped ==
    ASSUME NEW v, NEW p, NEW o, NEW q, BothAtHand(v, p, o, q), q = o,
           Skipped(KindOf(q), q), Done(<<>>), UNCHANGED fs, TellNothing
    PROVE  FollowInv'
<1>1. /\ Moves(events[1]) /\ (q = o <=> Name(o) \in Names)
      /\ (Settled(v) /\ Harmless(events[1])) \/ Effective(v, events[1])
  BY BothParts
<1>2. <<KindOf(o), o>> \in skips /\ skips' = skips \ {<<KindOf(o), o>>}
  BY DEF Skipped
<1>3. ~Effective(v, events[1])
  <2>. DEFINE z == <<KindOf(o), o>>
  <2>1. z[2] = o /\ z \in skips
    BY <1>2
  <2>. HIDE DEF z
  <2>. QED BY <1>1, <2>1 DEF Effective, NoSkips
<1>4. Settled(v) /\ Mirrors(v, {})
  BY <1>1, <1>3 DEF Settled
<1>5. \A s \in skips' : Name(s[2]) \notin Names
  BY <1>2, <1>4, SettledSkips
<1>6. Predicts(v) /\ course = "renaming" /\ Handles("both")
  BY DEF BothAtHand
<1>. QED BY <1>1, <1>2, <1>4, <1>5, <1>6, RenamingTold

\* The paths of a tree with an entry moved to a free place.
LEMMA MovedPaths ==
    ASSUME NEW v, TreeOK(v), NEW p \in DOMAIN v, NEW o \in PathLike, o \notin DOMAIN v,
           Parent(p) = Parent(o)
    PROVE  \A x \in DOMAIN v : Moved(x, p, o) \in DOMAIN MoveEntry(v, p, o)
<1>1. Parent(o) = Parent(p)
  OBVIOUS
<1>2. DOMAIN MoveEntry(v, p, o) = {Moved(x, p, o) : x \in DOMAIN v}
  BY <1>1, MoveFacts
<1>. QED BY <1>2

\* What telling the new name q of p does, when the directory o was p.
LEMMA NamedTold ==
    ASSUME NEW v, NEW p, NEW o, NEW q, BothAtHand(v, p, o, q), Name(q) # Empty
    PROVE  /\ Named(p, q) \in Messages /\ ~Panics(v, Named(p, q))
           /\ Settled(v) /\ Harmless(events[1]) => Do(v, Named(p, q)) = v
           /\ Effective(v, events[1]) => Do(v, Named(p, q)) = MoveEntry(v, p, q)
           /\ Effective(v, events[1]) => q \notin DOMAIN v \/ q = p
<1>1. /\ p \in PathLike /\ o \in PathLike /\ q \in PathLike
      /\ Parent(p) = Parent(o) /\ Parent(q) = Parent(o)
      /\ Len(p) = Len(o) /\ Len(q) = Len(o) /\ TreeOK(v)
      /\ Moves(events[1])
      /\ (q = o <=> Name(o) \in Names)
      /\ (q # o => q \notin dirs)
      /\ (Settled(v) /\ Harmless(events[1])) \/ Effective(v, events[1])
  BY BothParts
<1>2. /\ Len(q) = 1 \/ HasKey(p, q)
      /\ p \in DOMAIN v /\ (q \notin DOMAIN v \/ q = p) =>
            ~Panics(v, Named(p, q)) /\ Do(v, Named(p, q)) = MoveEntry(v, p, q)
      /\ p \notin DOMAIN v /\ (q \in DOMAIN v \/ Len(q) = 1) =>
            ~Panics(v, Named(p, q)) /\ Do(v, Named(p, q)) = v
  BY <1>1, NamedDoes
<1>3. Named(p, q) \in Messages
  <2>1. p \in PathLike /\ q \in PathLike /\ (Len(q) = 1 \/ HasKey(p, q))
    BY <1>1, <1>2
  <2>. QED BY <2>1, NamedIsMessage
<1>4. p = events[1].from /\ o = events[1].to
  BY DEF BothAtHand
<1>5. ASSUME Settled(v), Harmless(events[1])
      PROVE  ~Panics(v, Named(p, q)) /\ Do(v, Named(p, q)) = v
  <2>1. p \notin DOMAIN v /\ DOMAIN v = Seen
    BY <1>4, <1>5 DEF Settled, Mirrors, Harmless
  <2>2. q \in DOMAIN v \/ Len(q) = 1
    BY <1>1, <1>4, <1>5, <2>1 DEF Harmless
  <2>. QED BY <1>2, <2>1, <2>2
<1>6. ASSUME Effective(v, events[1])
      PROVE  /\ ~Panics(v, Named(p, q)) /\ Do(v, Named(p, q)) = MoveEntry(v, p, q)
             /\ (q \notin DOMAIN v \/ q = p) /\ p \in DOMAIN v
  <2>1. p \in DOMAIN v /\ o \notin DOMAIN v /\ Mirrors(MoveEntry(v, p, o), {})
    BY <1>4, <1>6 DEF Effective
  <2>2. ASSUME q \in DOMAIN v, q # p PROVE FALSE
    <3>1. Moved(q, p, o) \in DOMAIN MoveEntry(v, p, o)
      BY <1>1, <2>1, <2>2, MovedPaths
    <3>2. q \in Seq(Segs) /\ p \in Seq(Segs)
      BY <1>1, PathParts DEF PathLike
    <3>3. ~Under(p, q)
      BY <1>1, <2>2, <3>2, UnderOrder
    <3>4. Moved(q, p, o) = q
      BY <3>3 DEF Moved
    <3>5. q \in dirs
      BY <2>1, <3>1, <3>4 DEF Mirrors, Seen
    <3>6. q = o
      BY <1>1, <3>5
    <3>. QED BY <2>1, <2>2, <3>6
  <2>. QED BY <1>2, <2>1, <2>2
<1>. QED BY <1>1, <1>3, <1>5, <1>6

\* The directory that is moved itself.
LEMMA MovedSelf ==
    ASSUME NEW p \in PathLike, NEW q \in PathLike
    PROVE  Moved(p, p, q) = q
<1>1. p \in Seq(Segs) /\ q \in Seq(Segs)
  BY DEF PathLike
<1>. QED BY <1>1, RebaseSelf, UnderOrder DEF Moved


\* A rename by a user to a name that is allowed is told.
LEMMA BothKept ==
    ASSUME NEW v, NEW p, NEW o, NEW q, BothAtHand(v, p, o, q), q = o,
           <<KindOf(q), q>> \notin skips,
           Done(<<>>), UNCHANGED <<fs, skips>>, Tell(Named(p, q))
    PROVE  FollowInv'
<1>1. /\ Moves(events[1]) /\ (q = o <=> Name(o) \in Names)
      /\ (Settled(v) /\ Harmless(events[1])) \/ Effective(v, events[1])
      /\ Names \cap {Empty} = {}
  BY BothParts, KindsAssumption
<1>2. /\ Named(p, q) \in Messages /\ ~Panics(v, Named(p, q))
      /\ Settled(v) /\ Harmless(events[1]) => Do(v, Named(p, q)) = v
      /\ Effective(v, events[1]) => Do(v, Named(p, q)) = MoveEntry(v, p, q)
  BY <1>1, NamedTold
<1>3. Predicts(v) /\ course = "renaming" /\ Handles("both")
      /\ p = events[1].from /\ o = events[1].to
  BY DEF BothAtHand
<1>4. ASSUME Settled(v), Harmless(events[1]) PROVE FollowInv'
  <2>1. Mirrors(v, {}) /\ Do(v, Named(p, q)) = v
    BY <1>2, <1>4 DEF Settled
  <2>2. \A s \in skips : Name(s[2]) \in Names => s = <<KindOf(o), o>>
    BY <1>4, SettledSkips
  <2>3. \A s \in skips' : Name(s[2]) \notin Names
    BY <2>2
  <2>. QED BY <1>1, <1>2, <1>3, <2>1, <2>3, RenamingTold
<1>5. ASSUME Effective(v, events[1]) PROVE FollowInv'
  <2>1. PICK w : w = MoveEntry(v, p, q)
    OBVIOUS
  <2>2. Mirrors(w, {}) /\ NoSkips /\ Do(v, Named(p, q)) = w
    BY <1>2, <1>3, <1>5, <2>1 DEF Effective
  <2>3. \A s \in skips' : Name(s[2]) \notin Names
    BY <2>2 DEF NoSkips
  <2>. QED BY <1>1, <1>2, <1>3, <2>2, <2>3, RenamingTold
<1>. QED BY <1>1, <1>4, <1>5

\* A directory that would get an empty name is called as it was.
LEMMA BothRestored ==
    ASSUME NEW v, NEW p, NEW o, NEW q, BothAtHand(v, p, o, q), Name(q) = Empty,
           IF CanMoveDir(o, p) THEN MoveDir(o, p) /\ Done(Renamed(o, p))
           ELSE Done(<<>>) /\ UNCHANGED fs,
           UNCHANGED skips, TellNothing
    PROVE  FollowInv'
<1>1. /\ p \in PathLike /\ o \in PathLike
      /\ Parent(p) = Parent(o) /\ Len(p) = Len(o)
      /\ Name(p) \in DirNames /\ Name(q) = Norm[Name(o)]
      /\ (q = o <=> Name(o) \in Names) /\ (p # o => p \notin dirs)
      /\ Moves(events[1]) /\ FsOK /\ UnseenOK /\ TreeOK(v) /\ SkipsOK
      /\ \A s \in skips : s[1] # "object"
  BY BothParts
<1>2. (Settled(v) /\ Harmless(events[1])) \/ Effective(v, events[1])
  BY BothParts
<1>3. Predicts(v) /\ course = "renaming" /\ Handles("both")
      /\ p = events[1].from /\ o = events[1].to /\ o \in dirs
  BY DEF BothAtHand
<1>4. Name(o) \notin Names
  <2>1. Name(o) \in Names => Norm[Name(o)] = Name(o) /\ Name(o) # Empty
    BY NormAssumption, KindsAssumption
  <2>. QED BY <1>1, <2>1
<1>5. p = o => ~CanMoveDir(o, p)
  BY <1>1, PathParts, UnderOrder DEF CanMoveDir
<1>6. SkipsOK' /\ \A s \in skips' : s[1] # "object"
  BY <1>1 DEF SkipsOK
<1>7. ASSUME Settled(v), Harmless(events[1]) PROVE FollowInv'
  <2>1. Mirrors(v, {})
    BY <1>7 DEF Settled
  <2>2. o \notin Seen /\ Len(o) = 1
    BY <1>3, <1>4, <1>7 DEF Harmless
  <2>3. ASSUME NEW s \in skips PROVE Name(s[2]) \notin Names
    <3>1. ASSUME Name(s[2]) \in Names PROVE FALSE
      <4>1. s = <<KindOf(o), o>>
        BY <1>7, <3>1, SettledSkips
      <4>2. s[2] = o
        BY <4>1
      <4>. QED BY <1>4, <3>1, <4>2
    <3>. QED BY <3>1
  <2>4. \A s \in skips' : Name(s[2]) \notin Names
    BY <2>3
  <2>5. CASE CanMoveDir(o, p)
    <3>1. p \notin dirs /\ MoveDir(o, p) /\ Done(Renamed(o, p))
      BY <1>1, <1>5, <2>5
    <3>2. Mirrors(v, {})'
      BY <1>1, <1>3, <2>1, <2>2, <3>1, MirrorsMove
    <3>3. o \in Seen => Name(p) \in Names
      BY <2>2
    <3>. QED BY <1>1, <1>3, <1>6, <2>2, <2>4, <3>1, <3>2, <3>3, RenamingMoves
  <2>6. CASE ~CanMoveDir(o, p)
    <3>1. Done(<<>>) /\ UNCHANGED fs
      BY <2>6
    <3>. QED BY <1>1, <1>3, <2>1, <2>4, <3>1, RenamingTold
  <2>. QED BY <2>5, <2>6
<1>8. ASSUME Effective(v, events[1]) PROVE FollowInv'
  <2>1. PICK t : t = MoveEntry(v, p, o)
    OBVIOUS
  <2>2. /\ p \in DOMAIN v /\ o \notin DOMAIN v /\ Name(p) \in Names
        /\ Mirrors(t, {}) /\ NoSkips
    BY <1>1, <1>3, <1>8, <2>1 DEF Effective
  <2>3. p # o /\ p \notin dirs
    BY <1>1, <2>2
  <2>4. CanMoveDir(o, p)
    BY <1>1, <1>3, <2>3, RoomFor
  <2>5. MoveDir(o, p) /\ Done(Renamed(o, p))
    BY <2>4
  <2>6. o \in Seen
    <3>1. Moved(p, p, o) \in DOMAIN t
      BY <1>1, <2>1, <2>2, MovedPaths
    <3>2. Moved(p, p, o) = o
      BY <1>1, MovedSelf
    <3>. QED BY <2>2, <3>1, <3>2 DEF Mirrors
  <2>7. MoveEntry(t, o, p) = v
    <3>1. MoveEntry(t, o, p) = MoveEntry(v, p, p)
      BY <1>1, <2>1, <2>2, <2>3, MoveTwice
    <3>. QED BY <1>1, <2>2, <3>1, MoveNowhere
  <2>8. Mirrors(v, {})'
    <3>1. PICK w : w = MoveEntry(t, o, p)
      OBVIOUS
    <3>2. Mirrors(w, {})'
      BY <1>1, <1>3, <2>2, <2>3, <2>5, <2>6, <3>1, MirrorsMove
    <3>. QED BY <2>7, <3>1, <3>2
  <2>9. \A s \in skips' : Name(s[2]) \notin Names
    BY <2>2 DEF NoSkips
  <2>. QED BY <1>1, <1>3, <1>6, <2>2, <2>3, <2>5, <2>6, <2>8, <2>9, RenamingMoves
<1>. QED BY <1>2, <1>7, <1>8

\* A rename by a user is told, and the directory gets the name that is allowed.
LEMMA BothRenamed ==
    ASSUME NEW v, NEW p, NEW o, NEW q, BothAtHand(v, p, o, q), q # o, Name(q) # Empty,
           IF CanMoveDir(o, q) THEN MoveDir(o, q) /\ Done(Renamed(o, q))
           ELSE Done(<<>>) /\ UNCHANGED fs,
           skips' = skips \cup {<<KindOf(q), IF Len(q) = 1 THEN q ELSE o>>},
           Tell(Named(p, q))
    PROVE  FollowInv'
<1>1. /\ p \in PathLike /\ o \in PathLike /\ q \in PathLike
      /\ Parent(p) = Parent(o) /\ Parent(q) = Parent(o)
      /\ Len(p) = Len(o) /\ Len(q) = Len(o)
      /\ (q = o <=> Name(o) \in Names) /\ q \notin dirs /\ Name(q) \in Names
      /\ Moves(events[1]) /\ FsOK /\ UnseenOK /\ TreeOK(v) /\ SkipsOK
      /\ \A s \in skips : s[1] # "object"
  BY BothParts
<1>2. (Settled(v) /\ Harmless(events[1])) \/ Effective(v, events[1])
  BY BothParts
<1>3. Predicts(v) /\ course = "renaming" /\ Handles("both")
      /\ p = events[1].from /\ o = events[1].to /\ o \in dirs
  BY DEF BothAtHand
<1>4. /\ Named(p, q) \in Messages /\ ~Panics(v, Named(p, q))
      /\ Settled(v) /\ Harmless(events[1]) => Do(v, Named(p, q)) = v
      /\ Effective(v, events[1]) => Do(v, Named(p, q)) = MoveEntry(v, p, q)
  BY NamedTold
<1>40. Effective(v, events[1]) => q \notin DOMAIN v \/ q = p
  BY NamedTold
<1>5. MoveDir(o, q) /\ Done(Renamed(o, q)) /\ Name(q) \in DirNames
  <2>1. CanMoveDir(o, q)
    BY <1>1, <1>3, RoomFor
  <2>. QED BY <1>1, <2>1 DEF DirNames
<1>6. PICK x : x = <<KindOf(q), IF Len(q) = 1 THEN q ELSE o>>
  OBVIOUS
<1>7. /\ x = <<x[1], x[2]>> /\ x[1] # "object"
      /\ Name(x[2]) \in Names => x = <<KindOf(q), q>>
  <2>1. KindOf(q) # "object"
    BY DEF KindOf
  <2>. QED BY <1>1, <1>6, <2>1
<1>8. skips' = skips \cup {x}
  BY <1>6
<1>9. SkipsOK' /\ \A s \in skips' : s[1] # "object"
  BY <1>1, <1>7, <1>8 DEF SkipsOK
<1>10. ASSUME \A s \in skips : Name(s[2]) \notin Names
       PROVE  \A s \in skips' : Name(s[2]) \in Names => s = <<KindOf(q), q>>
  BY <1>7, <1>8, <1>10
<1>11. ASSUME Settled(v), Harmless(events[1]) PROVE FollowInv'
  <2>1. Mirrors(v, {}) /\ Do(v, Named(p, q)) = v
    BY <1>4, <1>11 DEF Settled
  <2>2. o \notin Seen /\ Len(o) = 1
    BY <1>1, <1>3, <1>11 DEF Harmless
  <2>3. ASSUME NEW s \in skips PROVE Name(s[2]) \notin Names
    <3>1. ASSUME Name(s[2]) \in Names PROVE FALSE
      <4>1. s = <<KindOf(o), o>>
        BY <1>11, <3>1, SettledSkips
      <4>2. s[2] = o
        BY <4>1
      <4>. QED BY <1>1, <3>1, <4>2
    <3>. QED BY <3>1
  <2>4. \A s \in skips' : Name(s[2]) \in Names => s = <<KindOf(q), q>>
    BY <1>10, <2>3
  <2>5. Mirrors(v, {})'
    BY <1>1, <1>3, <1>5, <2>1, <2>2, MirrorsMove
  <2>. QED BY <1>1, <1>3, <1>4, <1>5, <1>9, <2>1, <2>2, <2>4, <2>5, RenamingMoves
<1>12. ASSUME Effective(v, events[1]) PROVE FollowInv'
  <2>1. PICK t : t = MoveEntry(v, p, o)
    OBVIOUS
  <2>2. p \in DOMAIN v /\ o \notin DOMAIN v /\ Mirrors(t, {}) /\ NoSkips
    BY <1>3, <1>12, <2>1 DEF Effective
  <2>3. q \notin DOMAIN v \/ q = p
    BY <1>12, <1>40
  <2>4. o \in Seen
    <3>1. Moved(p, p, o) \in DOMAIN t
      BY <1>1, <2>1, <2>2, MovedPaths
    <3>2. Moved(p, p, o) = o
      BY <1>1, MovedSelf
    <3>. QED BY <2>2, <3>1, <3>2 DEF Mirrors
  <2>5. PICK w : w = MoveEntry(t, o, q)
    OBVIOUS
  <2>6. w = MoveEntry(v, p, q)
    BY <1>1, <2>1, <2>2, <2>3, <2>5, MoveTwice
  <2>7. Mirrors(w, {})'
    BY <1>1, <1>3, <1>5, <2>2, <2>4, <2>5, MirrorsMove
  <2>8. Do(v, Named(p, q)) = w
    BY <1>4, <1>12, <2>6
  <2>9. \A s \in skips' : Name(s[2]) \in Names => s = <<KindOf(q), q>>
    BY <1>10, <2>2 DEF NoSkips
  <2>. QED BY <1>1, <1>3, <1>4, <1>5, <1>9, <2>4, <2>7, <2>8, <2>9, RenamingMoves
<1>. QED BY <1>2, <1>11, <1>12

LEMMA RenamingBothDir ==
    ASSUME NEW v, Predicts(v), course = "renaming", HandleBothDir
    PROVE  FollowInv'
<1>1. PICK p, o, q : p = events[1].from /\ o = events[1].to /\ q = Normal(o)
  OBVIOUS
<1>2. Handles("both") /\ e = events[1] /\ o \in dirs
  <2>1. Handles("both") /\ IsDir(e.to)
    BY DEF HandleBothDir
  <2>. QED BY <1>1, <2>1, RenamingHead DEF IsDir
<1>3. BothAtHand(v, p, o, q)
  BY <1>1, <1>2 DEF BothAtHand
<1>4. Len(q) = 1 \/ HasKey(p, q)
  <2>1. /\ TreeOK(v) /\ p \in PathLike /\ q \in PathLike /\ Parent(q) = Parent(p)
    BY <1>3, BothParts
  <2>. QED BY <2>1, NamedDoes
<1>5. KindOf(q) = IF Len(q) = 1 THEN "bucket" ELSE "key"
  BY DEF KindOf
<1>6. \/ q = o /\ Skipped(KindOf(q), q) /\ Done(<<>>) /\ UNCHANGED fs /\ TellNothing
      \/ /\ q = o /\ <<KindOf(q), q>> \notin skips
         /\ Done(<<>>) /\ UNCHANGED <<fs, skips>> /\ Tell(Named(p, q))
      \/ /\ Name(q) = Empty
         /\ IF CanMoveDir(o, p) THEN MoveDir(o, p) /\ Done(Renamed(o, p))
            ELSE Done(<<>>) /\ UNCHANGED fs
         /\ UNCHANGED skips /\ TellNothing
      \/ /\ q # o /\ Name(q) # Empty
         /\ IF CanMoveDir(o, q) THEN MoveDir(o, q) /\ Done(Renamed(o, q))
            ELSE Done(<<>>) /\ UNCHANGED fs
         /\ skips' = skips \cup {<<KindOf(q), IF Len(q) = 1 THEN q ELSE o>>}
         /\ Tell(Named(p, q))
  BY <1>1, <1>2, <1>4, <1>5 DEF HandleBothDir
<1>. QED BY <1>3, <1>6, BothSkipped, BothKept, BothRestored, BothRenamed

\* A new bucket that is moved at once is a new bucket.
LEMMA MovedNew ==
    ASSUME NEW v, TreeOK(v), NEW p \in PathLike, NEW q \in PathLike, Parent(q) = Parent(p),
           Len(p) = 1, p \notin DOMAIN v, q \notin DOMAIN v, q # p
    PROVE  MoveEntry(OrDefault(v, p), p, q) = OrDefault(v, q)
<1>. DEFINE t == OrDefault(v, p)
            w == MoveEntry(t, p, q)
            u == OrDefault(v, q)
<1>1. /\ DOMAIN t = DOMAIN v \cup {p} /\ t[p] = EmptyEntry
      /\ \A x \in DOMAIN v : t[x] = v[x]
      /\ DOMAIN u = DOMAIN v \cup {q} /\ u[q] = EmptyEntry
      /\ \A x \in DOMAIN v : u[x] = v[x]
  BY DEF OrDefault
<1>2. w = [x \in DOMAIN w |-> w[x]] /\ u = [x \in DOMAIN u |-> u[x]]
  BY DEF MoveEntry, OrDefault
<1>3. TreeOK(t)
  <2>1. ~(Len(p) > 1)
    BY LengthOne
  <2>. QED BY <2>1, OrDefaultKeeps
<1>. HIDE DEF t, u
<1>4. /\ DOMAIN w = {Moved(x, p, q) : x \in DOMAIN t}
      /\ \A x \in DOMAIN t : w[Moved(x, p, q)] = t[x]
  <2>1. p \in DOMAIN t /\ q \notin DOMAIN t
    BY <1>1
  <2>. QED BY <1>3, <2>1, MoveFacts
<1>. HIDE DEF w
<1>5. Moved(p, p, q) = q
  BY MovedSelf
<1>6. ASSUME NEW x \in DOMAIN v PROVE Moved(x, p, q) = x
  <2>1. ASSUME Under(p, x) PROVE FALSE
    <3>1. x \in PathLike /\ x \in Seq(Segs) /\ Len(x) \in Nat /\ Len(x) # 0 /\ Nested(v) /\ x # p
      BY PathParts, HungIsNested DEF TreeOK, Hung
    <3>2. SubSeq(x, 1, Len(p)) = p /\ Len(p) <= Len(x)
      BY <2>1 DEF Under
    <3>3. p \in Seq(Segs)
      BY PathParts
    <3>4. Len(x) # 1
      BY <2>1, <3>1, <3>3, UnderOrder
    <3>5. 1 \in 1 .. Len(x) - 1
      <4>1. \A n \in Nat : n # 0 /\ n # 1 => 1 \in 1 .. n - 1
        OBVIOUS
      <4>. QED BY <3>1, <3>4, <4>1
    <3>. QED BY <3>1, <3>2, <3>5 DEF Nested
  <2>. QED BY <2>1 DEF Moved
<1>7. DOMAIN w = DOMAIN u
  <2>1. ASSUME NEW z \in DOMAIN w PROVE z \in DOMAIN u
    <3>1. PICK x \in DOMAIN t : z = Moved(x, p, q)
      BY <1>4, <2>1
    <3>. QED BY <1>1, <1>5, <1>6, <3>1
  <2>2. ASSUME NEW z \in DOMAIN u PROVE z \in DOMAIN w
    <3>1. CASE z = q
      BY <1>1, <1>4, <1>5, <3>1
    <3>2. CASE z \in DOMAIN v
      BY <1>1, <1>4, <1>6, <3>2
    <3>. QED BY <1>1, <3>1, <3>2
  <2>. QED BY <2>1, <2>2
<1>8. ASSUME NEW z \in DOMAIN u PROVE w[z] = u[z]
  <2>1. CASE z = q
    BY <1>1, <1>4, <1>5, <2>1
  <2>2. CASE z \in DOMAIN v
    <3>1. w[Moved(z, p, q)] = t[z]
      BY <1>1, <1>4, <2>2
    <3>. QED BY <1>1, <1>6, <2>2, <3>1
  <2>. QED BY <1>1, <2>1, <2>2
<1>9. w = u
  BY <1>2, <1>7, <1>8
<1>. QED BY <1>9 DEF w, t, u

\* A new bucket whose name is not allowed is told under the one it gets.
LEMMA RenamingCreateFolder ==
    ASSUME NEW v, Predicts(v), course = "renaming", HandleCreateFolder
    PROVE  FollowInv'
<1>1. /\ events \in Seq(Events) /\ events # <<>> /\ e = events[1]
      /\ events[1].kind = "create_folder" /\ Handles("create_folder")
      /\ FsOK /\ UnseenOK /\ TreeOK(v) /\ SkipsOK /\ Distinct(dirs, files)
      /\ \A s \in skips : s[1] # "object"
  <2>1. Handles("create_folder")
    BY DEF HandleCreateFolder
  <2>. QED BY <2>1, RenamingHead DEF Good
<1>2. Moves(events[1])
  BY <1>1 DEF Moves
<1>3. Creation(v, events[1])
  <2>1. 1 \in DOMAIN events
    BY <1>1, EventOne
  <2>2. ~Settled(v) /\ ~Effective(v, events[1])
    BY <1>1, <2>1 DEF Settled, Effective
  <2>. QED BY <1>1, <1>2, <2>2, RenamingHead
<1>4. PICK p, q, t : p = events[1].path /\ q = NormalNew(p) /\ t = OrDefault(v, p)
  OBVIOUS
<1>5. /\ Len(p) = 1 /\ p \in dirs /\ p \notin DOMAIN v
      /\ Name(p) \in RawNames /\ Norm[Name(p)] # Empty
      /\ Mirrors(t, {}) /\ NoSkips
  BY <1>3, <1>4 DEF Creation
<1>6. p \in PathLike /\ Name(p) \in DirNames
  BY <1>1, <1>5, DirIsPath
<1>7. Norm[Name(p)] \in Names /\ Norm[Name(p)] # Name(p) /\ Norm[Name(p)] \in Segs
  BY <1>5, <1>6, NormAssumption DEF DirNames, Segs
<1>8. /\ q \in PathLike /\ Parent(q) = Parent(p) /\ Name(q) = Norm[Name(p)] /\ Len(q) = Len(p)
  <2>1. q = Append(Parent(p), Norm[Name(p)])
    BY <1>4, <1>5 DEF NormalNew, Normal
  <2>. QED BY <1>6, <1>7, <2>1, RenamedParts
<1>9. q # p /\ q \notin dirs
  <2>1. Final(Name(q)) = Final(Name(p))
    BY <1>5, <1>6, <1>8, FinalFacts
  <2>. QED BY <1>1, <1>5, <1>7, <1>8, <2>1, SameFinal
<1>10. DOMAIN t = DOMAIN v \cup {p}
  BY <1>4 DEF OrDefault
<1>11. p \in Seen /\ q \notin DOMAIN v
  BY <1>5, <1>9, <1>10 DEF Mirrors, Seen
<1>12. CanMoveDir(p, q)
  BY <1>1, <1>5, <1>8, <1>9, RoomFor
<1>13. PICK c : c = NewFolder(q)
  OBVIOUS
<1>14. /\ MoveDir(p, q) /\ Done(Renamed(p, q)) /\ Tell(c)
       /\ skips' = skips \cup {<<"bucket", q>>}
  BY <1>1, <1>4, <1>5, <1>9, <1>12, <1>13 DEF HandleCreateFolder
<1>15. PICK w : w = MoveEntry(t, p, q)
  OBVIOUS
<1>16. w = OrDefault(v, q)
  BY <1>1, <1>4, <1>5, <1>6, <1>8, <1>9, <1>11, <1>15, MovedNew
<1>17. Name(q) \in DirNames
  BY <1>7, <1>8 DEF DirNames
<1>18. Mirrors(w, {})'
  BY <1>1, <1>5, <1>8, <1>9, <1>11, <1>14, <1>15, <1>17, MirrorsMove
<1>19. c \in Messages /\ ~Panics(v, c) /\ w = Do(v, c)
  <2>1. c = [type |-> "new_bucket", bucket |-> q[1]] /\ <<q[1]>> = q
    BY <1>5, <1>8, <1>13, LengthOne DEF NewFolder
  <2>2. Do(v, c) = OrDefault(v, q)
    BY <2>1 DEF Do, Apply, TreeNewBucket
  <2>3. ~Panics(v, c)
    BY <2>1 DEF Panics
  <2>. QED BY <1>8, <1>13, <1>16, <2>2, <2>3, NewFolderIsMessage
<1>20. PICK x : x = <<"bucket", q>>
  OBVIOUS
<1>21. x = <<x[1], x[2]>> /\ x[1] # "object" /\ x = <<KindOf(q), q>>
  BY <1>5, <1>8, <1>20 DEF KindOf
<1>22. skips' = skips \cup {x}
  BY <1>14, <1>20
<1>23. SkipsOK' /\ \A s \in skips' : s[1] # "object"
  BY <1>1, <1>21, <1>22 DEF SkipsOK
<1>24. \A s \in skips' : Name(s[2]) \in Names => s = <<KindOf(q), q>>
  BY <1>5, <1>21, <1>22 DEF NoSkips
<1>25. Name(q) \in Names
  BY <1>7, <1>8
<1>. QED BY <1>1, <1>2, <1>5, <1>8, <1>9, <1>11, <1>14, <1>17, <1>18, <1>19, <1>23, <1>24,
            <1>25, RenamingMoves

\* What does not happen while a directory is renamed.
LEMMA RenamingOthers ==
    ASSUME NEW v, Predicts(v), course = "renaming",
           HandleCreateFile \/ HandleBothObject \/ HandleRemoveFolder \/ HandleRemoveFile
    PROVE  FALSE
<1>1. CASE HandleCreateFile
  <2>1. Handles("create_file")
    BY <1>1 DEF HandleCreateFile
  <2>. QED BY <2>1, RenamingHead DEF RenamingKinds
<1>2. CASE HandleRemoveFolder
  <2>1. Handles("remove_folder")
    BY <1>2 DEF HandleRemoveFolder
  <2>. QED BY <2>1, RenamingHead DEF RenamingKinds
<1>3. CASE HandleRemoveFile
  <2>1. Handles("remove_file")
    BY <1>3 DEF HandleRemoveFile
  <2>. QED BY <2>1, RenamingHead DEF RenamingKinds
<1>4. CASE HandleBothObject
  <2>1. Handles("both") /\ e.to \notin dirs
    BY <1>4 DEF HandleBothObject, IsDir
  <2>2. events[1].kind = "both" /\ e = events[1]
    BY <2>1, RenamingHead
  <2>3. Moves(events[1])
    BY <2>2 DEF Moves
  <2>4. \/ Settled(v) \/ Effective(v, events[1]) \/ Creation(v, events[1])
    BY <2>1, <2>3, RenamingHead
  <2>5. 1 \in DOMAIN events
    BY <2>1, RenamingHead, EventOne
  <2>. QED BY <2>1, <2>2, <2>4, <2>5 DEF Settled, Effective, Creation, Harmless
<1>. QED BY <1>1, <1>2, <1>3, <1>4

-----------------------------------------------------------------------------
(***************************************************************************)
(* The invariant holds from the start, and every step keeps it.            *)
(***************************************************************************)
LEMMA FollowWatcher ==
    ASSUME NEW v, Predicts(v), Watcher
    PROVE  FollowInv'
<1>1. CASE HandleFrom \/ HandlePathless \/ HandleRemoveAny
  BY <1>1, FollowFrom, FollowPathless, FollowRemoveAny
<1>2. SUFFICES ASSUME \/ HandleCreateFolder \/ HandleCreateFile \/ HandleBothDir
                      \/ HandleBothObject \/ HandleRemoveFolder \/ HandleRemoveFile
               PROVE  FollowInv'
  BY <1>1 DEF Watcher
<1>3. course = "even" \/ course = "renaming"
  BY DEF Predicts, IndInv, UsersOK
<1>4. CASE course = "even"
  BY <1>2, <1>4, EvenCreateFolder, EvenCreateFile, EvenBothDir, EvenBothObject,
     EvenRemoveFolder, EvenRemoveFile
<1>5. CASE course = "renaming"
  BY <1>2, <1>5, RenamingCreateFolder, RenamingBothDir, RenamingOthers
<1>. QED BY <1>3, <1>4, <1>5

LEMMA FollowStutter ==
    ASSUME NEW v, Predicts(v), UNCHANGED vars
    PROVE  FollowInv'
<1>1. /\ UNCHANGED fs /\ skips' = skips /\ events' = events /\ watching' = watching
      /\ mailbox' = mailbox /\ tree' = tree /\ alive' = alive /\ course' = course
  BY DEF vars, watcher, manager, users
<1>2. /\ watching /\ alive /\ UnseenOK /\ SkipsOK /\ Good(v) /\ Ends(tree, mailbox, v)
      /\ events \in Seq(Events)
  BY DEF Predicts, From, IndInv, EventsOK
<1>3. PICK more : more = <<>>
  OBVIOUS
<1>4. more \in Seq(Events) /\ DOMAIN more = {} /\ events' = events \o more
  BY <1>1, <1>2, <1>3
<1>5. /\ course = "even" => EvenFrom(v)'
      /\ course = "renaming" => RenamingFrom(v)'
  BY <1>1, <1>4, IdleAdded
<1>6. UnseenOK' /\ SkipsOK'
  BY <1>1, <1>2, FsSame DEF SkipsOK
<1>7. Ends(tree, mailbox, v)'
  BY <1>1, <1>2
<1>. QED BY <1>1, <1>2, <1>5, <1>6, <1>7, Followed

LEMMA FollowNext ==
    ASSUME IndInv, CourseInv, FollowInv, [Next]_vars
    PROVE  FollowInv'
<1>1. CASE User
  BY <1>1, FollowUser
<1>2. CASE System \/ UNCHANGED vars
  <2>1. CASE course = "lost"
    <3>1. course' = course
      <4>1. CASE Watcher
        <5>1. Handled
          BY <4>1, WatcherHandled DEF IndInv
        <5>. QED BY <5>1 DEF Handled, TellNothing, Tell, users
      <4>2. CASE ~Watcher
        BY <1>2, <4>2 DEF System, Report, ManagerChange, ManagerPanics, ManagerAnswers,
           users, vars
      <4>. QED BY <4>1, <4>2
    <3>. QED BY <2>1, <3>1 DEF FollowInv
  <2>2. CASE course # "lost"
    <3>1. PICK v : Predicts(v)
      BY <2>2 DEF FollowInv, Predicts
    <3>2. CASE System
      BY <3>1, <3>2, FollowWatcher, FollowReport, FollowChange, FollowPanics, FollowAnswers
         DEF System
    <3>3. CASE UNCHANGED vars
      BY <3>1, <3>3, FollowStutter
    <3>. QED BY <1>2, <3>2, <3>3
  <2>. QED BY <2>1, <2>2
<1>. QED BY <1>1, <1>2 DEF Next

Writes(s, Y) == {s[i] : i \in DOMAIN s} = Y

\* The names of the files of one directory can be written down once each.
LEMMA Listing ==
    ASSUME NEW X, IsFiniteSet(X), \A x, y \in X : x[2] = y[2] => x = y,
           NEW Y, \A y : y \in Y <=> \E x \in X : y = x[2], NEW n, n = Cardinality(X)
    PROVE  /\ n \in Nat
           /\ \E s \in [1 .. n -> Y] : Writes(s, Y)
           /\ \A s \in [1 .. n -> Y] : Writes(s, Y) => NoDuplicates(s)
<1>1. IsFiniteSet(X) /\ n \in Nat
  BY FS_CardinalityType
<1>2. PICK m \in Nat : ExistsBijection(1 .. m, X)
  BY <1>1, FS_NatBijection
<1>3. m = n
  BY <1>2, FS_CountingElements
<1>4. PICK f : f \in Bijection(1 .. n, X)
  BY <1>2, <1>3 DEF ExistsBijection
<1>5. /\ f \in [1 .. n -> X]
      /\ \A x \in X : \E i \in 1 .. n : f[i] = x
      /\ \A i, j \in 1 .. n : f[i] = f[j] => i = j
  BY <1>4 DEF Bijection, Injection, Surjection, IsInjective
<1>6. PICK s : s = [i \in 1 .. n |-> f[i][2]]
  OBVIOUS
<1>7. DOMAIN s = 1 .. n /\ \A i \in 1 .. n : s[i] = f[i][2] /\ s[i] \in Y
  BY <1>5, <1>6
<1>8. s \in [1 .. n -> Y]
  BY <1>6, <1>7
<1>9. \A y : y \in Y <=> \E i \in 1 .. n : y = s[i]
  BY <1>5, <1>7
<1>10. Writes(s, Y)
  BY <1>7, <1>9 DEF Writes
<1>11. s \in Bijection(1 .. n, Y)
  <2>1. \A i, j \in 1 .. n : s[i] = s[j] => i = j
    BY <1>5, <1>7
  <2>. QED BY <1>8, <1>9, <2>1 DEF Bijection, Injection, Surjection, IsInjective
<1>12. Cardinality(Y) = n
  BY <1>1, <1>11, FS_CountingElements DEF ExistsBijection
<1>13. ASSUME NEW t \in [1 .. n -> Y], Writes(t, Y)
       PROVE  NoDuplicates(t)
  <2>1. DOMAIN t = 1 .. n
    OBVIOUS
  <2>3. t \in Surjection(1 .. n, Y)
    BY <1>13, <2>1 DEF Surjection, Writes
  <2>4. IsFiniteSet(1 .. n) /\ Cardinality(1 .. n) = n
    BY <1>1, FS_Interval
  <2>5. t \in Injection(1 .. n, Y)
    BY <1>12, <2>3, <2>4, FS_SurjSameCardinalityImpliesInj
  <2>. QED BY <2>1, <2>5 DEF NoDuplicates, Injection, IsInjective
<1>. QED BY <1>1, <1>8, <1>10, <1>13

\* What build makes of the directories mirrors them.
LEMMA BuiltMirrors ==
    ASSUME Init
    PROVE  Mirrors(tree, {})
<1>1. dirs = InitialDirs /\ files = InitialFiles /\ unseen = {}
      /\ tree = Built(InitialDirs, InitialFiles)
  BY DEF Init
<1>2. FsOK /\ TreeOK(tree)
  BY InitInv DEF IndInv
<1>3. Seen = InitialDirs /\ DOMAIN tree = InitialDirs /\ \A q : ~Unseen(q)
  BY <1>1 DEF Seen, Unseen, Built
<1>4. /\ \A y \in files : y = <<y[1], y[2]>> /\ y[2] \in FileNames
      /\ IsFiniteSet(files) /\ FileNames \subseteq AllFiles
  BY <1>1, LayoutAssumption DEF AllFiles
<1>5. ASSUME NEW d \in InitialDirs
      PROVE  tree[d].objects \in Seq(FileNames) /\ Lists(tree[d].objects, Shown(d, {}))
  <2>1. PICK X : X = {x \in files : x[1] = d}
    OBVIOUS
  <2>2. PICK Y, n : Y = {x[2] : x \in X} /\ n = Cardinality(X)
    OBVIOUS
  <2>3. \A x \in X : x = <<d, x[2]>> /\ x[2] \in AllFiles
    BY <1>4, <2>1
  <2>4. /\ n \in Nat
        /\ \E s \in [1 .. n -> Y] : Writes(s, Y)
        /\ \A s \in [1 .. n -> Y] : Writes(s, Y) => NoDuplicates(s)
    <3>1. IsFiniteSet(X)
      BY <1>4, <2>1, FS_Subset
    <3>2. \A y : y \in Y <=> \E x \in X : y = x[2]
      BY <2>2
    <3>3. n = Cardinality(X)
      BY <2>2
    <3>4. \A x, y \in X : x[2] = y[2] => x = y
      BY <2>3
    <3>. QED BY <3>1, <3>2, <3>3, <3>4, Listing
  <2>5. PICK s : s = CHOOSE t \in [1 .. n -> AllFiles] : Writes(t, Y)
    OBVIOUS
  <2>6. s \in [1 .. n -> Y] /\ Writes(s, Y)
    <3>1. Y \subseteq AllFiles
      BY <2>2, <2>3
    <3>2. PICK t : t \in [1 .. n -> Y] /\ Writes(t, Y)
      BY <2>4
    <3>3. t \in [1 .. n -> AllFiles]
      BY <3>1, <3>2
    <3>4. s \in [1 .. n -> AllFiles] /\ Writes(s, Y)
      BY <2>5, <3>2, <3>3
    <3>5. \A i \in 1 .. n : s[i] \in Y
      BY <3>4 DEF Writes
    <3>. QED BY <3>4, <3>5
  <2>7. tree[d].objects = s
    <3>1. tree[d].objects =
             CHOOSE t \in [1 .. Cardinality({x \in InitialFiles : x[1] = d}) -> AllFiles] :
                {t[i] : i \in DOMAIN t} = {x[2] : x \in {y \in InitialFiles : y[1] = d}}
      BY <1>1 DEF Built
    <3>. QED BY <1>1, <2>1, <2>2, <2>5, <3>1 DEF Writes
  <2>8. Y \subseteq FileNames
    BY <1>4, <2>1, <2>2
  <2>9. DOMAIN s = 1 .. n /\ \A i \in 1 .. n : s[i] \in Y
    BY <2>6 DEF Writes
  <2>10. s \in Seq(FileNames)
    <3>1. s \in [1 .. n -> FileNames]
      BY <2>6, <2>8, <2>9
    <3>. QED BY <2>4, <3>1
  <2>11. Y = Shown(d, {})
    <3>1. ASSUME NEW f PROVE f \in Y <=> f \in Shown(d, {})
      <4>1. f \in Y <=> \E y \in files : y[1] = d /\ f = y[2]
        BY <2>1, <2>2
      <4>2. f \in Shown(d, {}) <=> \E y \in files : y[1] = d /\ f = Norm[y[2]]
        BY <1>3, ShownIs
      <4>3. \A y \in files : Norm[y[2]] = y[2]
        BY <1>4, NormAssumption
      <4>. QED BY <4>1, <4>2, <4>3
    <3>. QED BY <3>1, SetExtensionality
  <2>12. NoDuplicates(s)
    BY <2>4, <2>6
  <2>13. {s[i] : i \in DOMAIN s} = Shown(d, {})
    BY <2>6, <2>11 DEF Writes
  <2>14. Lists(s, Shown(d, {}))
    BY <2>12, <2>13 DEF Lists
  <2>. QED BY <2>7, <2>10, <2>14
<1>. QED BY <1>2, <1>3, <1>5 DEF Mirrors, Good

LEMMA InitFollow ==
    ASSUME Init
    PROVE  FollowInv
<1>1. /\ watching = TRUE /\ alive = TRUE /\ unseen = {} /\ skips = {} /\ mailbox = <<>>
      /\ events = <<>> /\ course = "even" /\ files = InitialFiles
  BY DEF Init
<1>2. Mirrors(tree, {}) /\ Good(tree)
  BY BuiltMirrors DEF Mirrors
<1>3. RawUnseen
  <2>1. \A y \in files : y[2] \in FileNames
    BY <1>1, LayoutAssumption
  <2>. QED BY <2>1, FileNamesApart DEF RawUnseen
<1>4. Rest(tree)
  BY <1>1, <1>2, <1>3 DEF Rest, NoSkips
<1>5. EvenFrom(tree)
  BY <1>1, <1>4, InitInv, RestIsEven DEF IndInv
<1>6. Ends(tree, mailbox, tree)
  BY <1>1, EndsNone
<1>7. From(tree)
  BY <1>1, <1>2, <1>5, <1>6 DEF From
<1>. QED BY <1>1, <1>7 DEF FollowInv, UnseenOK, SkipsOK

\* At rest the index is the directory.
LEMMA InvFollows ==
    ASSUME IndInv, CourseInv, FollowInv
    PROVE  IndexFollows
<1>. SUFFICES ASSUME Quiet, course # "lost"
              PROVE  /\ DOMAIN tree = {p \in dirs : ~Unseen(p)}
                     /\ Objects(tree) =
                           {x \in files : x[1] # <<>> /\ ~Unseen(Append(x[1], x[2]))}
                     /\ \A p \in DOMAIN tree : NoDuplicates(tree[p].objects)
  BY DEF IndexFollows
<1>1. PICK v : Predicts(v)
  BY DEF FollowInv, Predicts
<1>2. FsOK /\ UnseenOK /\ events = <<>> /\ Ends(tree, <<>>, v)
  BY <1>1 DEF Quiet, Predicts, From, IndInv
<1>3. Mirrors(tree, {}) /\ RawUnseen
  BY <1>1, <1>2, Rested, EndsNone DEF Rest
<1>4. DOMAIN tree = Seen /\ \A d \in Seen : Lists(tree[d].objects, Shown(d, {}))
  BY <1>3 DEF Mirrors
<1>5. DOMAIN tree = {p \in dirs : ~Unseen(p)}
  BY <1>4 DEF Seen
<1>6. \A p \in DOMAIN tree : NoDuplicates(tree[p].objects)
  BY <1>4 DEF Lists
<1>7. ASSUME NEW y \in files, y[1] # <<>>, ~Unseen(Append(y[1], y[2]))
      PROVE  Norm[y[2]] = y[2] /\ y[1] \in Seen
  <2>1. y[2] \notin RawFiles
    BY <1>3, <1>7 DEF RawUnseen
  <2>2. y[2] \in AllFiles /\ y[2] \in Segs /\ y[1] \in dirs
    BY <1>2, <1>7, FileFacts
  <2>3. ~Unseen(y[1])
    BY <1>2, <1>7, <2>2, UnseenBelow
  <2>. QED BY <2>1, <2>2, <2>3, FileNamesApart DEF Seen
<1>8. ASSUME NEW z
      PROVE  z \in Objects(tree) <=>
                z \in {x \in files : x[1] # <<>> /\ ~Unseen(Append(x[1], x[2]))}
  <2>1. z \in Objects(tree) <=>
           \E d \in Seen : \E i \in DOMAIN tree[d].objects : z = <<d, tree[d].objects[i]>>
    BY <1>4 DEF Objects
  <2>2. ASSUME NEW d \in Seen
        PROVE  \A n : n \in Shown(d, {}) <=>
                         \E i \in DOMAIN tree[d].objects : n = tree[d].objects[i]
    BY <1>4 DEF Lists
  <2>3. \A d \in Seen : d # <<>> /\ d \in dirs
    BY <1>2 DEF Seen, FsOK, PathLike
  <2>4. ASSUME z \in Objects(tree)
        PROVE  z \in files /\ z[1] # <<>> /\ ~Unseen(Append(z[1], z[2]))
    <3>1. PICK d \in Seen : \E i \in DOMAIN tree[d].objects : z = <<d, tree[d].objects[i]>>
      BY <2>1, <2>4
    <3>2. PICK n : n \in Shown(d, {}) /\ z = <<d, n>>
      BY <2>2, <3>1
    <3>3. PICK y \in files : /\ y[1] = d /\ ~Unseen(Append(d, y[2])) /\ n = Norm[y[2]]
      BY <3>2, ShownIs
    <3>4. n = y[2]
      BY <1>7, <2>3, <3>3
    <3>5. y = <<y[1], y[2]>>
      BY <1>2, FileFacts
    <3>6. z = y
      BY <3>2, <3>3, <3>4, <3>5
    <3>. QED BY <2>3, <3>3, <3>6
  <2>5. ASSUME z \in files, z[1] # <<>>, ~Unseen(Append(z[1], z[2]))
        PROVE  z \in Objects(tree)
    <3>1. Norm[z[2]] = z[2] /\ z[1] \in Seen
      BY <1>7, <2>5
    <3>2. z[2] \in Shown(z[1], {})
      BY <2>5, <3>1, ShownIs
    <3>3. PICK i \in DOMAIN tree[z[1]].objects : z[2] = tree[z[1]].objects[i]
      BY <2>2, <3>1, <3>2
    <3>4. z = <<z[1], z[2]>>
      BY <1>2, <2>5, FileFacts
    <3>. QED BY <2>1, <3>1, <3>3, <3>4
  <2>. QED BY <2>4, <2>5
<1>9. Objects(tree) = {x \in files : x[1] # <<>> /\ ~Unseen(Append(x[1], x[2]))}
  BY <1>8, SetExtensionality
<1>. QED BY <1>5, <1>6, <1>9

LEMMA SpecFollows == Spec => [](IndInv /\ CourseInv /\ FollowInv)
<1>1. Init => IndInv /\ CourseInv /\ FollowInv
  BY InitInv, InitCourse, InitFollow
<1>2. IndInv /\ CourseInv /\ FollowInv /\ [Next]_vars => IndInv' /\ CourseInv' /\ FollowInv'
  BY NextTyped, NextCourse, FollowNext
<1>. QED BY <1>1, <1>2, PTL DEF Spec

\* Whatever users do that the index may follow, no unwrap fails in a handler of the
\* watcher (event_watcher/mod.rs, manager/utils/mod.rs) or of the manager
\* (bucket_map.rs): both tasks are there to handle the next event.
THEOREM TasksStay == Spec => []FollowersLive
<1>1. FollowInv => FollowersLive
  BY DEF FollowInv, FollowersLive
<1>. QED BY <1>1, SpecFollows, PTL

\* When nothing is left to handle the index (bucket_map.rs) has an entry for each
\* directory, and in it each of its files once, and nothing else, whatever users did
\* that it may follow and in whatever order the tasks got to handle it; it lacks what
\* was moved in from outside.
THEOREM IndexFollowsDirectory == Spec => []IndexFollows
<1>1. IndInv /\ CourseInv /\ FollowInv => IndexFollows
  BY InvFollows
<1>. QED BY <1>1, SpecFollows, PTL

=============================================================================
