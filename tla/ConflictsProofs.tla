--------------------------- MODULE ConflictsProofs ---------------------------
(***************************************************************************)
(* Proofs about Conflicts: type correctness, every collision reported, and *)
(* whole decisions; and about ThreeWayMerge: correct merges.               *)
(*                                                                         *)
(* The invariant of Conflicts adds what the properties rest on: a library  *)
(* call holds a decision a library call may make (CallersOK); the newest   *)
(* change of a file in a log tells whether the side still has the file     *)
(* (LogOK); and a collision is queued, lost or still to be persisted       *)
(* (QueueOK).                                                              *)
(*                                                                         *)
(* The invariant of ThreeWayMerge, MergeInv, follows the marker loop: the  *)
(* positions of the output that belong to a side hold the lines of that    *)
(* side's file before the loop's line, in order and without others, until  *)
(* the file ends (Reads, Reading, BothRead).                               *)
(***************************************************************************)
EXTENDS Conflicts, ThreeWayMerge, FiniteSetTheorems, WellFoundedInduction, TLAPS

Row == [path : Paths, type : {"content"},
        status : {"detected", "resolved", "deferred"},
        resolution : Accepts \cup {"deferred", None},
        by : Deciding \cup {None},
        merged : Callers \cup {None}]

CallersOK ==
    \A c \in Callers :
        caller[c].at # "idle" =>
            /\ caller[c].row \in 1..Len(rows)
            /\ caller[c].resolution \in {"accept_svn", "accept_git", "accept_merged"}

\* The k-th change of a log is the newest one of its path.
Newest(log, k) == \A l \in (k + 1)..Len(log) : log[l].path # log[k].path

LogOK(log, tree) ==
    \A p \in Touched(log) :
        \E k \in 1..Len(log) :
            /\ log[k].path = p /\ Newest(log, k)
            /\ p \in tree <=> Kind(log[k]) # "deleted"

Reported(p) == \E n \in (first + 1)..Len(rows) : rows[n].path = p

QueueOK ==
    /\ pc = "queue" =>
          \A p \in Paths \ missed :
              Collides(p) => Reported(p) \/ \E k \in todo : svnLog[k].path = p
    /\ pc = "apply" => \A p \in Paths \ missed : Collides(p) => Reported(p)
    /\ pc # "queue" => todo = {}

ChangeRec == [action : Actions, path : Paths]

IInv ==
    /\ TypeOK /\ CallersOK /\ DecisionsAreWhole
    /\ LogOK(svnLog, svnTree) /\ LogOK(gitLog, gitTree)
    /\ QueueOK

-----------------------------------------------------------------------------
(* The comparison.                                                         *)

\* The newest change of a path is the one LastChange chooses.
LEMMA NewestIsLast ==
    ASSUME NEW log \in Seq(ChangeRec), NEW k \in 1..Len(log), Newest(log, k)
    PROVE  LastChange(log, log[k].path) = log[k]
<1> DEFINE P(j) == /\ log[j].path = log[k].path
                   /\ \A l \in (j + 1)..Len(log) : log[l].path # log[k].path
<1>1. P(k) BY DEF Newest
<1>2. ASSUME NEW j \in 1..Len(log), P(j) PROVE j = k
  BY <1>1, <1>2 DEF Newest
<1>3. (CHOOSE j \in 1..Len(log) : P(j)) = k
  BY <1>1, <1>2
<1> QED BY <1>3 DEF LastChange

\* Two changes that are not both deletions are in conflict.
LEMMA OneStillHasIt ==
    ASSUME NEW svn, NEW git, Kind(svn) # "deleted" \/ Kind(git) # "deleted"
    PROVE  ClassifyConflict(svn, git) # None
<1> DEFINE deleted == {s \in {"svn", "git"} :
                          Kind(IF s = "svn" THEN svn ELSE git) = "deleted"}
<1>1. deleted # {"svn", "git"}
  <2>1. CASE Kind(svn) # "deleted"
    <3>1. "svn" \notin deleted BY <2>1
    <3> QED BY <3>1
  <2>2. CASE Kind(git) # "deleted"
    <3>1. "git" \notin deleted BY <2>2
    <3> QED BY <3>1
  <2> QED BY <2>1, <2>2
<1> HIDE DEF deleted
<1>2. (CASE deleted = {"svn", "git"} -> None
         [] deleted = {} -> "content"
         [] OTHER -> "edit_delete") # None
  BY <1>1, ConflictsAssumption
<1> QED BY <1>2 DEF ClassifyConflict, deleted

\* A new commit's changes say of every file they touch what became of it.
Turns(new, tree, after) ==
    /\ \A p \in Touched(new) :
          \E k \in 1..Len(new) :
              /\ new[k].path = p /\ Newest(new, k)
              /\ p \in after <=> Kind(new[k]) # "deleted"
    /\ \A p \in Paths \ Touched(new) : p \in tree <=> p \in after

LEMMA LogGrows ==
    ASSUME NEW log \in Seq(ChangeRec), NEW new \in Seq(ChangeRec),
           NEW tree, NEW after, LogOK(log, tree), Turns(new, tree, after)
    PROVE  LogOK(log \o new, after)
<1> DEFINE all == log \o new
<1>1. /\ all \in Seq(ChangeRec) /\ Len(all) = Len(log) + Len(new)
      /\ \A j \in 1..Len(log) : all[j] = log[j]
      /\ \A j \in 1..Len(new) : all[Len(log) + j] = new[j]
  OBVIOUS
<1>2. \A j \in (Len(log) + 1)..Len(all) :
          j - Len(log) \in 1..Len(new) /\ all[j] = new[j - Len(log)]
  <2> TAKE j \in (Len(log) + 1)..Len(all)
  <2>1. j - Len(log) \in 1..Len(new) BY <1>1
  <2>2. Len(log) + (j - Len(log)) = j BY <1>1
  <2> QED BY <1>1, <2>1, <2>2
<1> HIDE DEF all
<1>6. \A l \in 1..Len(all) : l \in 1..Len(log) \/ all[l].path \in Touched(new)
  <2> TAKE l \in 1..Len(all)
  <2>1. CASE l > Len(log)
    <3>1. l \in (Len(log) + 1)..Len(all) BY <1>1, <2>1
    <3> QED BY <1>2, <3>1 DEF Touched
  <2> QED BY <1>1, <2>1
<1>3. SUFFICES ASSUME NEW p \in Touched(all)
               PROVE  \E k \in 1..Len(all) :
                          /\ all[k].path = p /\ Newest(all, k)
                          /\ p \in after <=> Kind(all[k]) # "deleted"
  BY DEF LogOK, all
<1>4. CASE p \in Touched(new)
  <2>1. PICK k \in 1..Len(new) : /\ new[k].path = p /\ Newest(new, k)
                                 /\ p \in after <=> Kind(new[k]) # "deleted"
    BY <1>4 DEF Turns
  <2>2. Newest(all, Len(log) + k)
    <3> SUFFICES ASSUME NEW l \in (Len(log) + k + 1)..Len(all)
                 PROVE  all[l].path # all[Len(log) + k].path
      BY DEF Newest
    <3>1. l - Len(log) \in (k + 1)..Len(new) /\ all[l] = new[l - Len(log)]
      BY <1>1, <1>2
    <3> QED BY <2>1, <3>1, <1>1 DEF Newest
  <2> QED BY <1>1, <2>1, <2>2
<1>5. CASE p \notin Touched(new)
  <2>1. PICK j \in 1..Len(all) : all[j].path = p BY <1>3 DEF Touched
  <2>2. j \in 1..Len(log) BY <2>1, <1>6, <1>5
  <2>3. p \in Touched(log) BY <2>1, <2>2, <1>1 DEF Touched
  <2>4. PICK k \in 1..Len(log) : /\ log[k].path = p /\ Newest(log, k)
                                 /\ p \in tree <=> Kind(log[k]) # "deleted"
    BY <2>3 DEF LogOK
  <2>5. Newest(all, k)
    <3> SUFFICES ASSUME NEW l \in (k + 1)..Len(all) PROVE all[l].path # all[k].path
      BY DEF Newest
    <3>1. CASE l <= Len(log) BY <3>1, <2>4, <1>1 DEF Newest
    <3>2. CASE l > Len(log)
      <4>1. l \in 1..Len(all) /\ l \notin 1..Len(log) BY <3>2, <1>1
      <4>2. all[l].path \in Touched(new) BY <4>1, <1>6
      <4>3. all[k].path = p BY <2>4, <1>1
      <4> QED BY <4>2, <4>3, <1>5
    <3> QED BY <3>1, <3>2, <1>1
  <2>6. p \in Paths
    <3>1. log[k] \in ChangeRec OBVIOUS
    <3> QED BY <3>1, <2>4 DEF ChangeRec
  <2> QED BY <1>1, <1>5, <2>4, <2>5, <2>6 DEF Turns
<1> QED BY <1>4, <1>5

LEMMA CommitTurns ==
    ASSUME NEW tree \in SUBSET Paths,
           NEW c \in Commits(tree) \cup Replacements(tree)
    PROVE  /\ c.tree \in SUBSET Paths /\ c.log \in Seq(ChangeRec)
           /\ Len(c.log) \in Nat /\ Turns(c.log, tree, c.tree)
<1>1. ASSUME NEW a \in Actions, NEW p \in Paths, NEW after \in SUBSET Paths,
             p \in after <=> a # "D",
             \A q \in Paths \ {p} : q \in tree <=> q \in after
      PROVE  /\ <<Change(a, p)>> \in Seq(ChangeRec) /\ Len(<<Change(a, p)>>) \in Nat
             /\ Turns(<<Change(a, p)>>, tree, after)
  <2> DEFINE log == <<Change(a, p)>>
  <2>1. Len(log) = 1 /\ log[1] = Change(a, p) /\ Change(a, p) \in ChangeRec
    BY DEF Change, ChangeRec
  <2>2. Kind(log[1]) = "deleted" <=> a = "D" BY <2>1 DEF Kind, Change, Actions
  <2>3. Touched(log) = {p} BY <2>1 DEF Touched, Change
  <2>4. Newest(log, 1) /\ log[1].path = p BY <2>1 DEF Newest, Change
  <2>5. log \in Seq(ChangeRec) BY <2>1
  <2> QED BY <1>1, <2>1, <2>2, <2>3, <2>4, <2>5 DEF Turns
<1>2. CASE c \in Edits(tree)
  <2>1. PICK p \in tree : c = [tree |-> tree, log |-> <<Change("M", p)>>]
    BY <1>2 DEF Edits
  <2> QED BY <1>1, <2>1 DEF Actions
<1>3. CASE c \in Additions(tree)
  <2>1. PICK p \in Paths \ tree : c = [tree |-> tree \cup {p}, log |-> <<Change("A", p)>>]
    BY <1>3 DEF Additions
  <2> QED BY <1>1, <2>1 DEF Actions
<1>4. CASE c \in Deletions(tree)
  <2>1. PICK p \in tree : c = [tree |-> tree \ {p}, log |-> <<Change("D", p)>>]
    BY <1>4 DEF Deletions
  <2> QED BY <1>1, <2>1 DEF Actions
<1>5. CASE c \in Replacements(tree)
  <2>1. PICK p \in tree : c = [tree |-> tree, log |-> <<Change("R", p)>>]
    BY <1>5 DEF Replacements
  <2> QED BY <1>1, <2>1 DEF Actions
<1>6. CASE c \in Renames(tree)
  <2>1. PICK p \in tree, q \in Paths \ tree :
            c = [tree |-> (tree \ {p}) \cup {q},
                 log |-> <<Change("D", p), Change("A", q)>>]
    BY <1>6 DEF Renames
  <2> DEFINE log == <<Change("D", p), Change("A", q)>>
  <2>2. Len(log) = 2 /\ log[1] = Change("D", p) /\ log[2] = Change("A", q)
    OBVIOUS
  <2>3. log[1].path = p /\ log[2].path = q /\ p # q /\ log[1] \in ChangeRec /\ log[2] \in ChangeRec
    BY <2>2 DEF Change, ChangeRec, Actions
  <2>4. Kind(log[1]) = "deleted" /\ Kind(log[2]) = "added"
    BY <2>2 DEF Kind, Change
  <2>5. Touched(log) = {p, q} BY <2>2, <2>3 DEF Touched
  <2>6. Newest(log, 1) /\ Newest(log, 2) BY <2>2, <2>3 DEF Newest
  <2>7. log \in Seq(ChangeRec) BY <2>2, <2>3
  <2> HIDE DEF log
  <2>8. Turns(log, tree, (tree \ {p}) \cup {q})
    BY <2>2, <2>3, <2>4, <2>5, <2>6 DEF Turns
  <2> QED BY <2>1, <2>2, <2>7, <2>8 DEF log
<1> QED BY <1>2, <1>3, <1>4, <1>5, <1>6 DEF Commits
-----------------------------------------------------------------------------
(* The initial state and the users.                                        *)

LEMMA InitOK ==
    ASSUME Init PROVE IInv
<1>1. TypeOK
  BY ConflictsAssumption DEF Init, TypeOK, Idle
<1>2. LogOK(svnLog, svnTree) /\ LogOK(gitLog, gitTree)
  BY DEF Init, LogOK, Touched
<1>3. DecisionsAreWhole
  BY DEF Init, DecisionsAreWhole, ActiveRows, Listed
<1> QED BY <1>1, <1>2, <1>3 DEF Init, IInv, CallersOK, QueueOK, Idle

LEMMA DecisionsStable ==
    ASSUME DecisionsAreWhole, UNCHANGED rows PROVE DecisionsAreWhole'
BY DEF DecisionsAreWhole, ActiveRows, Listed

LEMMA CallersStable ==
    ASSUME CallersOK, UNCHANGED <<rows, caller>> PROVE CallersOK'
BY DEF CallersOK

LEMMA UsersKeep ==
    ASSUME IInv, SvnUser \/ GitUser PROVE IInv'
<1> USE DEF sides, engine, deciding
<1>1. CASE SvnUser
  <2>1. PICK c \in Commits(svnTree) \cup Replacements(svnTree) :
            Makes(c.log) /\ svnTree' = c.tree /\ svnLog' = svnLog \o c.log
    BY <1>1 DEF SvnUser
  <2>2. /\ c.tree \in SUBSET Paths /\ c.log \in Seq(ChangeRec)
        /\ Len(c.log) \in Nat /\ Turns(c.log, svnTree, c.tree)
    BY <2>1, CommitTurns DEF IInv, TypeOK
  <2>3. svnLog \in Seq(ChangeRec) BY DEF IInv, TypeOK, ChangeRec
  <2>4. svnLog' \in Seq(ChangeRec) /\ Len(svnLog) <= Len(svnLog')
    BY <2>1, <2>2, <2>3
  <2>5. LogOK(svnLog, svnTree)' BY <2>1, <2>2, <2>3, LogGrows DEF IInv
  <2>6. LogOK(gitLog, gitTree)' BY <1>1 DEF SvnUser, IInv, LogOK
  <2>7. TypeOK'
    <3>1. changes' \in 0..MaxChanges
      <4>1. changes \in Nat BY DEF IInv, TypeOK
      <4>2. changes + Len(c.log) <= MaxChanges /\ changes' = changes + Len(c.log)
        BY <2>1 DEF Makes
      <4> QED BY <2>2, <4>1, <4>2
    <3>2. svnLog' \in Seq([action : Actions, path : Paths]) /\ todo' \subseteq 1..Len(svnLog)'
      BY <1>1, <2>3, <2>4 DEF SvnUser, IInv, TypeOK, ChangeRec
    <3> QED BY <1>1, <2>1, <2>2, <3>1, <3>2 DEF SvnUser, IInv, TypeOK
  <2> QED BY <1>1, <2>5, <2>6, <2>7, DecisionsStable, CallersStable DEF SvnUser, IInv, QueueOK
<1>2. CASE GitUser
  <2>1. PICK c \in Commits(gitTree) :
            Makes(c.log) /\ gitTree' = c.tree /\ gitLog' = gitLog \o c.log
    BY <1>2 DEF GitUser
  <2>2. /\ c.tree \in SUBSET Paths /\ c.log \in Seq(ChangeRec)
        /\ Len(c.log) \in Nat /\ Turns(c.log, gitTree, c.tree)
    BY <2>1, CommitTurns DEF IInv, TypeOK
  <2>3. gitLog \in Seq(ChangeRec) BY DEF IInv, TypeOK, ChangeRec
  <2>4. gitLog' \in Seq(ChangeRec) BY <2>1, <2>2, <2>3
  <2>5. LogOK(gitLog, gitTree)' BY <2>1, <2>2, <2>3, LogGrows DEF IInv
  <2>6. LogOK(svnLog, svnTree)' BY <1>2 DEF GitUser, IInv, LogOK
  <2>7. TypeOK'
    <3>1. changes' \in 0..MaxChanges
      <4>1. changes \in Nat BY DEF IInv, TypeOK
      <4>2. changes + Len(c.log) <= MaxChanges /\ changes' = changes + Len(c.log)
        BY <2>1 DEF Makes
      <4> QED BY <2>2, <4>1, <4>2
    <3> QED BY <1>2, <2>1, <2>2, <2>4, <3>1 DEF GitUser, IInv, TypeOK, ChangeRec
  <2> QED BY <1>2, <2>5, <2>6, <2>7, DecisionsStable, CallersStable DEF GitUser, IInv, QueueOK
<1> QED BY <1>1, <1>2

-----------------------------------------------------------------------------
(* The cycle.                                                              *)

\* A file that collides has a change for which the cycle looks for a row.
LEMMA CollisionDetected ==
    ASSUME IInv, NEW p, Collides(p)
    PROVE  \E k \in 1..Len(svnLog) :
               /\ svnLog[k].path = p /\ k \in Detect(svnLog, gitLog)
               /\ NeedsUser(ConflictOf(svnLog[k]))
<1>1. PICK k \in 1..Len(svnLog) : /\ svnLog[k].path = p /\ Newest(svnLog, k)
                                  /\ p \in svnTree <=> Kind(svnLog[k]) # "deleted"
  BY DEF IInv, Collides, LogOK
<1>2. PICK j \in 1..Len(gitLog) : /\ gitLog[j].path = p /\ Newest(gitLog, j)
                                  /\ p \in gitTree <=> Kind(gitLog[j]) # "deleted"
  BY DEF IInv, Collides, LogOK
<1>3. LastChange(gitLog, p) = gitLog[j]
  BY <1>2, NewestIsLast DEF IInv, TypeOK, ChangeRec
<1>4. ClassifyConflict(svnLog[k], gitLog[j]) # None
  BY <1>1, <1>2, OneStillHasIt DEF Collides
<1>5. k \in Detect(svnLog, gitLog)
  BY <1>1, <1>3, <1>4 DEF Detect, ConflictsWith, Collides
<1> QED BY <1>1, <1>5 DEF NeedsUser, TryAutoMerge, ConflictOf

\* Persisting a conflict leaves all rows and adds one of the path's.
LEMMA RowAdded ==
    ASSUME IInv, NEW p \in Paths, rows' = WithRow(p)
    PROVE  /\ rows' \in Seq(Row) /\ Len(rows') = Len(rows) + 1
           /\ \A n \in 1..Len(rows) : rows'[n] = rows[n]
           /\ rows'[Len(rows) + 1] = NewRow(p)
<1>1. rows \in Seq(Row) BY DEF IInv, TypeOK, Row
<1>2. NewRow(p) \in Row BY DEF NewRow, Row
<1> QED BY <1>1, <1>2 DEF WithRow

LEMMA QueueingKeeps ==
    ASSUME IInv, NEW k \in todo, QueueConflict(k) \/ LoseConflict(k) PROVE IInv'
<1> USE DEF sides, engine, deciding
<1>1. svnLog[k].path \in Paths /\ k \in 1..Len(svnLog)
  <2>1. k \in 1..Len(svnLog) /\ svnLog \in Seq(ChangeRec)
    BY DEF IInv, TypeOK, ChangeRec
  <2>2. svnLog[k] \in ChangeRec BY <2>1
  <2> QED BY <2>1, <2>2 DEF ChangeRec
<1>2. CASE QueueConflict(k)
  <2>1. /\ rows' \in Seq(Row) /\ Len(rows') = Len(rows) + 1
        /\ \A n \in 1..Len(rows) : rows'[n] = rows[n]
        /\ rows'[Len(rows) + 1] = NewRow(svnLog[k].path)
    BY <1>1, <1>2, RowAdded DEF QueueConflict
  <2>2. Len(rows) \in Nat /\ first \in 0..Len(rows) BY DEF IInv, TypeOK
  <2>3. TypeOK'
    <3>1. first' \in 0..Len(rows') BY <1>2, <2>1, <2>2 DEF QueueConflict
    <3>2. caller' \in [Callers -> [at : {"idle", "checked", "updated"},
                                   row : 0..Len(rows'),
                                   resolution : Accepts \cup {None}]]
      BY <1>2, <2>1, <2>2 DEF QueueConflict, IInv, TypeOK
    <3> QED BY <1>2, <2>1, <3>1, <3>2 DEF QueueConflict, IInv, TypeOK, Row
  <2>4. CallersOK' BY <1>2, <2>1, <2>2 DEF QueueConflict, IInv, CallersOK
  <2>5. DecisionsAreWhole'
    <3>1. \A n \in 1..Len(rows') : n \in 1..Len(rows) \/ n = Len(rows) + 1
      BY <2>1, <2>2
    <3>2. \A n \in 1..Len(rows') :
            /\ rows'[n].status = "detected" <=> rows'[n].resolution = None
            /\ rows'[n].status = "detected" <=> rows'[n].by = None
            /\ rows'[n].status = "deferred" <=> rows'[n].resolution = "deferred"
            /\ rows'[n].resolution \in {"accept_merged"} => rows'[n].by \in Callers
            /\ rows'[n].resolution = "custom" => rows'[n].by = "api"
      BY <2>1, <3>1, ConflictsAssumption DEF IInv, DecisionsAreWhole, NewRow
    <3>3. ActiveRows' = Listed("detected")'
      <4>1. \A n \in 1..Len(rows') : rows'[n] \in Row BY <2>1
      <4>2. \A n \in 1..Len(rows') : rows'[n].status \in {"detected", "resolved", "deferred"}
        BY <4>1 DEF Row
      <4> QED BY <4>2 DEF ActiveRows, Listed
    <3> QED BY <3>2, <3>3 DEF DecisionsAreWhole
  <2>6. QueueOK'
    <3>1. pc' = "queue" /\ UNCHANGED <<missed, first>> /\ todo' = todo \ {k}
      BY <1>2 DEF QueueConflict, Queueing
    <3>2. ASSUME NEW p \in Paths \ missed, Collides(p)'
          PROVE  Reported(p)' \/ \E l \in todo' : svnLog'[l].path = p
      <4>1. Collides(p) BY <1>2, <3>2 DEF QueueConflict, Collides
      <4>2. Reported(p) \/ \E l \in todo : svnLog[l].path = p
        BY <1>2, <4>1 DEF IInv, QueueOK, QueueConflict, Queueing
      <4>3. CASE Reported(p) BY <4>3, <2>1, <2>2, <3>1 DEF Reported
      <4>4. CASE svnLog[k].path = p
        <5>1. Len(rows) + 1 \in (first' + 1)..Len(rows') BY <2>1, <2>2, <3>1
        <5> QED BY <5>1, <2>1, <4>4 DEF Reported, NewRow
      <4>5. CASE \E l \in todo \ {k} : svnLog[l].path = p
        BY <4>5, <3>1, <1>2 DEF QueueConflict
      <4> QED BY <4>2, <4>3, <4>4, <4>5
    <3> QED BY <3>1, <3>2 DEF QueueOK
  <2> QED BY <1>2, <2>3, <2>4, <2>5, <2>6 DEF QueueConflict, IInv, LogOK
<1>3. CASE LoseConflict(k)
  <2>1. TypeOK' BY <1>1, <1>3, ConflictsAssumption DEF LoseConflict, Fails, IInv, TypeOK
  <2>2. QueueOK'
    <3>1. /\ pc' = "queue" /\ missed' = missed \cup {svnLog[k].path}
          /\ todo' = todo \ {k} /\ UNCHANGED <<first, rows>>
      BY <1>3 DEF LoseConflict, Queueing
    <3>2. ASSUME NEW p \in Paths \ missed', Collides(p)'
          PROVE  Reported(p)' \/ \E l \in todo' : svnLog'[l].path = p
      <4>1. Collides(p) /\ p \in Paths \ missed /\ p # svnLog[k].path
        BY <1>3, <3>1, <3>2 DEF LoseConflict, Collides
      <4>2. Reported(p) \/ \E l \in todo : svnLog[l].path = p
        BY <1>3, <4>1 DEF IInv, QueueOK, LoseConflict, Queueing
      <4> QED BY <1>3, <3>1, <4>1, <4>2 DEF Reported, LoseConflict
    <3> QED BY <3>1, <3>2 DEF QueueOK
  <2> QED BY <1>3, <2>1, <2>2, DecisionsStable, CallersStable DEF LoseConflict, IInv, LogOK
<1> QED BY <1>2, <1>3

LEMMA CycleKeeps ==
    ASSUME IInv, StartCycle \/ StartApplying \/ Apply \/ ApplyNothing \/ ApplyHalf
    PROVE  IInv'
<1> USE DEF sides, engine, deciding
<1>1. CASE StartCycle
  <2>1. TypeOK' BY <1>1, ConflictsAssumption DEF StartCycle, IInv, TypeOK, Detect
  <2>2. QueueOK'
    <3>1. ASSUME NEW p \in Paths, Collides(p)'
          PROVE  \E k \in todo' : svnLog'[k].path = p
      <4>1. Collides(p) BY <1>1, <3>1 DEF StartCycle, Collides
      <4> QED BY <1>1, <4>1, CollisionDetected DEF StartCycle
    <3> QED BY <1>1, <3>1 DEF StartCycle, QueueOK
  <2> QED BY <1>1, <2>1, <2>2, DecisionsStable, CallersStable DEF StartCycle, IInv, LogOK
<1>2. CASE StartApplying
  <2>1. TypeOK' BY <1>2 DEF StartApplying, IInv, TypeOK
  <2>2. QueueOK' BY <1>2 DEF StartApplying, IInv, QueueOK, Collides, Reported
  <2> QED BY <1>2, <2>1, <2>2, DecisionsStable, CallersStable DEF StartApplying, IInv, LogOK
<1>3. CASE ApplyNothing
  <2>1. TypeOK' BY <1>3, ConflictsAssumption DEF ApplyNothing, Fails, IInv, TypeOK
  <2> QED BY <1>3, <2>1, DecisionsStable, CallersStable DEF ApplyNothing, IInv, LogOK, QueueOK
<1>4. CASE Apply \/ ApplyHalf
  <2>1. Copied(svnTree, gitLog) \subseteq Paths /\ Copied(gitTree, svnLog) \subseteq Paths
    BY DEF Copied
  <2>2. TypeOK'
    <3>1. /\ svnTree' \subseteq Paths /\ gitTree' \subseteq Paths
          /\ svnLog' = <<>> /\ gitLog' = <<>> /\ pc' = "idle"
          /\ UNCHANGED <<changes, first, missed, cycles, rows, deciding, todo>>
          /\ faults' \in 0..MaxFaults
      BY <1>4, <2>1, ConflictsAssumption DEF Apply, ApplyHalf, Fails, IInv, TypeOK
    <3>2. todo = {} BY <1>4 DEF Apply, ApplyHalf, IInv, QueueOK
    <3> QED BY <3>1, <3>2 DEF IInv, TypeOK
  <2>3. LogOK(svnLog, svnTree)' /\ LogOK(gitLog, gitTree)'
    BY <1>4 DEF Apply, ApplyHalf, LogOK, Touched
  <2>4. UNCHANGED <<rows, caller>> BY <1>4 DEF Apply, ApplyHalf
  <2>5. QueueOK' BY <1>4 DEF Apply, ApplyHalf, IInv, QueueOK
  <2> QED BY <2>2, <2>3, <2>4, <2>5, DecisionsStable, CallersStable DEF IInv
<1> QED BY <1>1, <1>2, <1>3, <1>4

-----------------------------------------------------------------------------
(* Deciding.                                                               *)

\* A decision whose parts belong together.
Fits(status, resolution, by) ==
    /\ \/ status = "resolved" /\ resolution \in Accepts
       \/ status = "deferred" /\ resolution = "deferred"
    /\ by \in Deciding
    /\ resolution = "accept_merged" => by \in Callers
    /\ resolution = "custom" => by = "api"

\* One UPDATE keeps the table whole.
LEMMA UpdateKeeps ==
    ASSUME IInv, NEW n \in 1..Len(rows), NEW status, NEW resolution, NEW by,
           Fits(status, resolution, by), rows' = Decided(n, status, resolution, by)
    PROVE  /\ rows' \in Seq(Row) /\ Len(rows') = Len(rows) /\ DecisionsAreWhole'
           /\ \A m \in 1..Len(rows) :
                 /\ rows'[m].path = rows[m].path /\ rows'[m].merged = rows[m].merged
                 /\ rows[m].status # "detected" => rows'[m].status # "detected"
<1> DEFINE row == [path |-> rows[n].path, type |-> rows[n].type,
                   status |-> status, resolution |-> resolution, by |-> by,
                   merged |-> rows[n].merged]
<1>1. rows \in Seq(Row) /\ \A m \in 1..Len(rows) : rows[m] \in Row
  <2>1. rows \in Seq(Row) BY DEF IInv, TypeOK, Row
  <2> QED BY <2>1
<1>2. row \in Row BY <1>1 DEF Row, Fits
<1> DEFINE marked == [rows[n] EXCEPT !.status = status]
           second == [marked EXCEPT !.resolution = resolution]
<1>0. [second EXCEPT !.by = by] = row
  <2>1. marked = [path |-> rows[n].path, type |-> rows[n].type,
                  status |-> status, resolution |-> rows[n].resolution,
                  by |-> rows[n].by, merged |-> rows[n].merged]
    <3>1. rows[n] \in Row BY <1>1
    <3>2. rows[n] = [path |-> rows[n].path, type |-> rows[n].type,
                     status |-> rows[n].status, resolution |-> rows[n].resolution,
                     by |-> rows[n].by, merged |-> rows[n].merged]
      BY <3>1 DEF Row
    <3> QED BY <3>2
  <2> HIDE DEF marked
  <2>2. second = [path |-> rows[n].path, type |-> rows[n].type,
                  status |-> status, resolution |-> resolution,
                  by |-> rows[n].by, merged |-> rows[n].merged]
    BY <2>1
  <2> HIDE DEF second
  <2> QED BY <2>2
<1>3. rows' = [rows EXCEPT ![n] = row]
  <2>1. rows' = [rows EXCEPT ![n] = [second EXCEPT !.by = by]]
    BY <1>1 DEF Decided
  <2> QED BY <1>0, <2>1
<1>4. /\ rows' \in Seq(Row) /\ Len(rows') = Len(rows)
      /\ \A m \in 1..Len(rows) : rows'[m] = IF m = n THEN row ELSE rows[m]
  BY <1>1, <1>2, <1>3
<1>5. \A m \in 1..Len(rows') : rows'[m] \in Row BY <1>1, <1>2, <1>4
<1>6. ActiveRows' = Listed("detected")'
  <2>1. \A m \in 1..Len(rows') : rows'[m].status \in {"detected", "resolved", "deferred"}
    BY <1>5 DEF Row
  <2> QED BY <2>1 DEF ActiveRows, Listed
<1>7. ASSUME NEW m \in 1..Len(rows')
      PROVE  /\ rows'[m].status = "detected" <=> rows'[m].resolution = None
             /\ rows'[m].status = "detected" <=> rows'[m].by = None
             /\ rows'[m].status = "deferred" <=> rows'[m].resolution = "deferred"
             /\ rows'[m].resolution \in {"accept_merged"} => rows'[m].by \in Callers
             /\ rows'[m].resolution = "custom" => rows'[m].by = "api"
  <2>1. CASE m = n
    <3>1. rows'[m] = row BY <1>4, <2>1
    <3> QED BY <3>1, ConflictsAssumption DEF Fits, Accepts, Deciding
  <2>2. CASE m # n BY <1>4, <2>2 DEF IInv, DecisionsAreWhole
  <2> QED BY <2>1, <2>2
<1>8. \A m \in 1..Len(rows) :
          /\ rows'[m].path = rows[m].path /\ rows'[m].merged = rows[m].merged
          /\ rows[m].status # "detected" => rows'[m].status # "detected"
  BY <1>1, <1>4 DEF Fits
<1> QED BY <1>1, <1>4, <1>6, <1>7, <1>8 DEF DecisionsAreWhole

\* What is left to show when a decision writes the table.
LEMMA TableWritten ==
    ASSUME IInv, rows' \in Seq(Row), Len(rows') = Len(rows), DecisionsAreWhole',
           \A n \in 1..Len(rows) : rows'[n].path = rows[n].path,
           UNCHANGED <<sides, engine>>, CallersOK',
           caller' \in [Callers -> [at : {"idle", "checked", "updated"},
                                    row : 0..Len(rows),
                                    resolution : Accepts \cup {None}]],
           decisions' \in 0..MaxDecisions, faults' \in 0..MaxFaults
    PROVE  IInv'
<1> USE DEF sides, engine
<1>1. TypeOK' BY DEF IInv, TypeOK, Row
<1>2. \A p \in Paths : (Reported(p)' <=> Reported(p)) /\ (Collides(p)' <=> Collides(p))
  <2>1. first \in Nat /\ Len(rows) \in Nat BY DEF IInv, TypeOK
  <2>2. \A n \in (first + 1)..Len(rows) : n \in 1..Len(rows) BY <2>1
  <2> QED BY <2>2 DEF Reported, Collides
<1>3. QueueOK' BY <1>2 DEF IInv, QueueOK
<1> QED BY <1>1, <1>3 DEF IInv, LogOK

LEMMA DecidersFit ==
    ASSUME WebResolve \/ CliResolve \/ WebDefer \/ LibraryDefer
    PROVE  \E n \in 1..Len(rows), status \in {"resolved", "deferred"},
              resolution \in Accepts \cup {"deferred"}, by \in Deciding :
               /\ Fits(status, resolution, by)
               /\ rows' = Decided(n, status, resolution, by)
<1>1. CASE WebResolve
  <2>1. PICK n \in 1..Len(rows), r \in {"accept_svn", "accept_git", "custom"} :
            rows' = Decided(n, "resolved", r, "api")
    BY <1>1 DEF WebResolve
  <2>2. Fits("resolved", r, "api") BY DEF Fits, Accepts, Deciding
  <2>3. r \in Accepts /\ "api" \in Deciding BY DEF Accepts, Deciding
  <2> QED BY <2>1, <2>2, <2>3
<1>2. CASE CliResolve
  <2>1. PICK n \in 1..Len(rows), r \in {"accept_svn", "accept_git"} :
            rows' = Decided(n, "resolved", r, "cli")
    BY <1>2 DEF CliResolve
  <2>2. Fits("resolved", r, "cli") BY DEF Fits, Accepts, Deciding
  <2>3. r \in Accepts /\ "cli" \in Deciding BY DEF Accepts, Deciding
  <2> QED BY <2>1, <2>2, <2>3
<1>3. CASE WebDefer BY <1>3 DEF WebDefer, Deferred, Fits, Deciding
<1>4. CASE LibraryDefer BY <1>4 DEF LibraryDefer, Deferred, Fits, Deciding
<1> QED BY <1>1, <1>2, <1>3, <1>4

LEMMA DecidersKeep ==
    ASSUME IInv, WebResolve \/ CliResolve \/ WebDefer \/ LibraryDefer PROVE IInv'
<1>1. PICK n \in 1..Len(rows), status \in {"resolved", "deferred"},
           resolution \in Accepts \cup {"deferred"}, by \in Deciding :
          /\ Fits(status, resolution, by)
          /\ rows' = Decided(n, status, resolution, by)
  BY DecidersFit
<1>2. /\ rows' \in Seq(Row) /\ Len(rows') = Len(rows) /\ DecisionsAreWhole'
      /\ \A m \in 1..Len(rows) : rows'[m].path = rows[m].path
  BY <1>1, UpdateKeeps
<1>3. /\ UNCHANGED <<sides, engine, caller, faults>>
      /\ decisions' \in 0..MaxDecisions
  BY ConflictsAssumption DEF WebResolve, CliResolve, WebDefer, LibraryDefer, Decides, IInv, TypeOK
<1>4. CallersOK' BY <1>2, <1>3 DEF IInv, CallersOK
<1> QED BY <1>2, <1>3, <1>4, TableWritten DEF IInv, TypeOK

LEMMA LibraryKeeps ==
    ASSUME IInv, NEW c \in Callers,
           LibraryCheck(c) \/ LibraryUpdate(c) \/ LibraryStore(c) \/ LibraryAbort(c)
    PROVE  IInv'
<1>1. caller \in [Callers -> [at : {"idle", "checked", "updated"},
                              row : 0..Len(rows), resolution : Accepts \cup {None}]]
  BY DEF IInv, TypeOK
<1>2. rows \in Seq(Row) /\ \A m \in 1..Len(rows) : rows[m] \in Row
  <2>1. rows \in Seq(Row) BY DEF IInv, TypeOK, Row
  <2> QED BY <2>1
<1>3. Idle \in [at : {"idle", "checked", "updated"}, row : 0..Len(rows),
                resolution : Accepts \cup {None}]
  BY <1>2 DEF Idle
<1>4. CASE LibraryCheck(c)
  <2>1. UNCHANGED <<sides, engine, rows, faults>> BY <1>4 DEF LibraryCheck
  <2>2. PICK n \in 1..Len(rows), r \in {"accept_svn", "accept_git", "accept_merged"} :
            caller' = [caller EXCEPT ![c] = [at |-> "checked", row |-> n, resolution |-> r]]
    BY <1>4 DEF LibraryCheck
  <2>3. [at |-> "checked", row |-> n, resolution |-> r] \in
            [at : {"idle", "checked", "updated"}, row : 0..Len(rows),
             resolution : Accepts \cup {None}]
    BY <1>2 DEF Accepts
  <2>4. CallersOK' BY <1>1, <2>1, <2>2 DEF IInv, CallersOK
  <2>5. decisions' \in 0..MaxDecisions
    BY <1>4, ConflictsAssumption DEF LibraryCheck, Decides, IInv, TypeOK
  <2>6. DecisionsAreWhole' BY <2>1, DecisionsStable DEF IInv
  <2>7. faults' \in 0..MaxFaults BY <2>1 DEF IInv, TypeOK
  <2> QED BY <1>1, <1>2, <2>1, <2>2, <2>3, <2>4, <2>5, <2>6, <2>7, TableWritten
<1>5. CASE LibraryUpdate(c)
  <2>1. /\ UNCHANGED <<sides, engine, decisions, faults>>
        /\ caller[c].at = "checked"
        /\ caller[c].row \in 1..Len(rows)
        /\ caller[c].resolution \in {"accept_svn", "accept_git", "accept_merged"}
    BY <1>5 DEF LibraryUpdate, IInv, CallersOK
  <2>2. /\ rows' \in Seq(Row) /\ Len(rows') = Len(rows) /\ DecisionsAreWhole'
        /\ \A m \in 1..Len(rows) : rows'[m].path = rows[m].path
    <3>1. Fits("resolved", caller[c].resolution, c) BY <2>1 DEF Fits, Accepts, Deciding
    <3>2. rows' = Decided(caller[c].row, "resolved", caller[c].resolution, c)
      BY <1>5 DEF LibraryUpdate
    <3> QED BY <2>1, <3>1, <3>2, UpdateKeeps
  <2>3. PICK after : /\ caller' = [caller EXCEPT ![c] = after]
                     /\ \/ after = Idle
                        \/ after = [caller[c] EXCEPT !.at = "updated"]
    BY <1>5 DEF LibraryUpdate
  <2>4. /\ after \in [at : {"idle", "checked", "updated"}, row : 0..Len(rows),
                      resolution : Accepts \cup {None}]
        /\ after.at # "idle" =>
              after.row = caller[c].row /\ after.resolution = caller[c].resolution
    BY <1>1, <1>3, <2>3 DEF Idle
  <2>5. CallersOK' BY <1>1, <2>1, <2>2, <2>3, <2>4 DEF IInv, CallersOK
  <2>6. decisions' \in 0..MaxDecisions /\ faults' \in 0..MaxFaults BY <2>1 DEF IInv, TypeOK
  <2> QED BY <1>1, <2>1, <2>2, <2>3, <2>4, <2>5, <2>6, TableWritten
<1>6. CASE LibraryStore(c)
  <2>1. /\ UNCHANGED <<sides, engine, decisions, faults>>
        /\ caller[c].row \in 1..Len(rows)
        /\ caller' = [caller EXCEPT ![c] = Idle]
        /\ rows' = [rows EXCEPT ![caller[c].row] = [@ EXCEPT !.merged = c]]
    BY <1>6 DEF LibraryStore, IInv, CallersOK
  <2>2. /\ rows' \in Seq(Row) /\ Len(rows') = Len(rows)
        /\ \A m \in 1..Len(rows) :
              /\ rows'[m].path = rows[m].path /\ rows'[m].status = rows[m].status
              /\ rows'[m].resolution = rows[m].resolution /\ rows'[m].by = rows[m].by
    <3>1. [rows[caller[c].row] EXCEPT !.merged = c] \in Row BY <1>2, <2>1 DEF Row
    <3>2. /\ rows' \in Seq(Row) /\ Len(rows') = Len(rows)
          /\ \A m \in 1..Len(rows) :
                rows'[m] = IF m = caller[c].row
                           THEN [rows[caller[c].row] EXCEPT !.merged = c] ELSE rows[m]
      BY <1>2, <2>1, <3>1
    <3> QED BY <1>2, <2>1, <3>2 DEF Row
  <2>3. DecisionsAreWhole' BY <2>2 DEF IInv, DecisionsAreWhole, ActiveRows, Listed
  <2>4. CallersOK' BY <1>1, <2>1, <2>2 DEF IInv, CallersOK, Idle
  <2>5. decisions' \in 0..MaxDecisions /\ faults' \in 0..MaxFaults BY <2>1 DEF IInv, TypeOK
  <2> QED BY <1>1, <1>3, <2>1, <2>2, <2>3, <2>4, <2>5, TableWritten
<1>7. CASE LibraryAbort(c)
  <2>1. /\ UNCHANGED <<sides, engine, rows, decisions>>
        /\ caller' = [caller EXCEPT ![c] = Idle]
    BY <1>7 DEF LibraryAbort
  <2>2. faults' \in 0..MaxFaults
    BY <1>7, ConflictsAssumption DEF LibraryAbort, Fails, IInv, TypeOK
  <2>3. CallersOK' BY <1>1, <2>1 DEF IInv, CallersOK, Idle
  <2>4. DecisionsAreWhole' BY <2>1, DecisionsStable DEF IInv
  <2>5. decisions' \in 0..MaxDecisions BY <2>1 DEF IInv, TypeOK
  <2> QED BY <1>1, <1>2, <1>3, <2>1, <2>2, <2>3, <2>4, <2>5, TableWritten
<1> QED BY <1>4, <1>5, <1>6, <1>7

-----------------------------------------------------------------------------
(* The theorems.                                                           *)

LEMMA StutterKeeps ==
    ASSUME IInv, UNCHANGED vars PROVE IInv'
BY DecisionsStable, CallersStable
   DEF vars, sides, engine, deciding, IInv, TypeOK, LogOK, QueueOK, Collides, Reported

\* What the other theorems of this module rest on.
THEOREM Invariant == Spec => []IInv
<1>1. Init => IInv BY InitOK
<1>2. IInv /\ [Next]_vars => IInv'
  <2> SUFFICES ASSUME IInv, [Next]_vars PROVE IInv' OBVIOUS
  <2>1. CASE SvnUser \/ GitUser BY <2>1, UsersKeep
  <2>2. CASE Engine BY <2>2, QueueingKeeps, CycleKeeps DEF Engine
  <2>3. CASE Deciders BY <2>3, DecidersKeep, LibraryKeeps DEF Deciders
  <2>4. CASE UNCHANGED vars BY <2>4, StutterKeeps
  <2> QED BY <2>1, <2>2, <2>3, <2>4 DEF Next
<1> QED BY <1>1, <1>2, PTL DEF Spec

\* Every variable stays in its range, whatever users, cycles and callers do.
THEOREM TypeCorrect == Spec => []TypeOK
<1>1. IInv => TypeOK BY DEF IInv
<1> QED BY <1>1, Invariant, PTL

\* However long the lists of changes and in whatever order they come, no file
\* that both sides changed and one still has is left out of the queue, unless
\* its row could not be inserted.
THEOREM CollisionsAreReported == Spec => []CollisionsReported
<1>1. IInv => CollisionsReported
  BY DEF IInv, QueueOK, Reported, CollisionsReported
<1> QED BY <1>1, Invariant, PTL

\* What a step may do to the rows.
Grows ==
    /\ Len(rows) <= Len(rows')
    /\ \A n \in 1..Len(rows) :
          /\ rows'[n].path = rows[n].path
          /\ rows[n].status # "detected" => rows'[n].status # "detected"
          /\ rows[n].merged # None => rows'[n].merged # None

LEMMA RowsGrow ==
    ASSUME IInv, [Next]_vars PROVE Grows
<1> USE DEF sides, engine, deciding
<1>1. rows \in Seq(Row) /\ \A m \in 1..Len(rows) : rows[m] \in Row
  <2>1. rows \in Seq(Row) BY DEF IInv, TypeOK, Row
  <2> QED BY <2>1
<1>2. CASE UNCHANGED rows BY <1>1, <1>2 DEF Grows
<1>3. ASSUME NEW k \in todo, QueueConflict(k) PROVE Grows
  <2>1. svnLog[k].path \in Paths
    <3>1. k \in 1..Len(svnLog) /\ svnLog \in Seq(ChangeRec)
      BY DEF IInv, TypeOK, ChangeRec
    <3>2. svnLog[k] \in ChangeRec BY <3>1
    <3> QED BY <3>2 DEF ChangeRec
  <2>2. /\ Len(rows') = Len(rows) + 1
        /\ \A n \in 1..Len(rows) : rows'[n] = rows[n]
    BY <1>3, <2>1, RowAdded DEF QueueConflict
  <2> QED BY <1>1, <2>2 DEF Grows
<1>4. CASE WebResolve \/ CliResolve \/ WebDefer \/ LibraryDefer
  BY <1>1, <1>4, DecidersFit, UpdateKeeps DEF Grows
<1>5. ASSUME NEW c \in Callers, LibraryUpdate(c) PROVE Grows
  <2>1. /\ caller[c].row \in 1..Len(rows)
        /\ Fits("resolved", caller[c].resolution, c)
        /\ rows' = Decided(caller[c].row, "resolved", caller[c].resolution, c)
    BY <1>5 DEF LibraryUpdate, IInv, CallersOK, Fits, Accepts, Deciding
  <2> QED BY <1>1, <2>1, UpdateKeeps DEF Grows
<1>6. ASSUME NEW c \in Callers, LibraryStore(c) PROVE Grows
  <2>1. /\ caller[c].row \in 1..Len(rows) /\ c # None
        /\ rows' = [rows EXCEPT ![caller[c].row] = [@ EXCEPT !.merged = c]]
    BY <1>6, ConflictsAssumption DEF LibraryStore, IInv, CallersOK
  <2>2. \A m \in 1..Len(rows) :
            rows'[m] = IF m = caller[c].row
                       THEN [rows[caller[c].row] EXCEPT !.merged = c] ELSE rows[m]
    BY <1>1, <2>1
  <2>3. Len(rows') = Len(rows) BY <1>1, <2>1
  <2> QED BY <1>1, <2>1, <2>2, <2>3 DEF Grows, Row
<1>7. CASE Engine
  BY <1>2, <1>3, <1>7 DEF Engine, StartCycle, LoseConflict, StartApplying, Apply, ApplyNothing, ApplyHalf
<1>8. CASE Deciders
  BY <1>2, <1>4, <1>5, <1>6, <1>8 DEF Deciders, LibraryCheck, LibraryAbort
<1> QED BY <1>2, <1>7, <1>8 DEF Next, SvnUser, GitUser, vars

\* The queue is a log: a decision or a new conflict never removes a row, gives
\* it to another file or makes it undecided.
THEOREM QueueStaysALog == Spec => QueueIsALog
<1>1. IInv /\ [Next]_vars => [Grows]_vars BY RowsGrow
<1>2. Spec => [][Grows]_vars BY <1>1, Invariant, PTL DEF Spec
<1> QED BY <1>2 DEF QueueIsALog, Grows

\* Any number of racing callers leaves the status, the resolution and the name
\* of one decision in a row.
THEOREM DecisionsStayWhole == Spec => []DecisionsAreWhole
<1>1. IInv => DecisionsAreWhole BY DEF IInv
<1> QED BY <1>1, Invariant, PTL

-----------------------------------------------------------------------------
(* Lemmas about sequences and sets of numbers.                             *)

\* Where the elements of a concatenation are.
LEMMA ConcatKeeps ==
    ASSUME NEW S, NEW s \in Seq(S), NEW t \in Seq(S)
    PROVE  /\ s \o t \in Seq(S) /\ Len(s) \in Nat /\ Len(t) \in Nat
           /\ Len(s \o t) = Len(s) + Len(t)
           /\ \A k \in 1..Len(s) : (s \o t)[k] = s[k]
           /\ \A k \in 1..Len(t) : (s \o t)[Len(s) + k] = t[k]
  OBVIOUS

\* A set of numbers that is not empty has a least.
LEMMA MinExists ==
    ASSUME NEW X, X # {}, X \subseteq Nat
    PROVE  \E x \in X : \A y \in X : x <= y
<1> DEFINE Less == OpToRel(<, Nat)
<1>1. \A a, b \in Nat : <<a, b>> \in Less <=> a < b
  BY DEF OpToRel
<1>2. IsWellFoundedOn(Less, Nat)
  BY NatLessThanWellFounded
<1> HIDE DEF Less
<1>3. PICK x \in X : \A y \in X : ~(<<y, x>> \in Less)
  BY <1>2, WFMin
<1>4. \A y \in X : ~(y < x) /\ x \in Nat /\ y \in Nat
  BY <1>1, <1>3
<1> QED BY <1>4

\* A file is a sequence of lines.
LEMMA FileType ==
    ASSUME NEW file \in Files
    PROVE  /\ file \in Seq(Lines) /\ Len(file) \in Nat
           /\ \A k \in 1..Len(file) : file[k] \in Lines
<1>1. PICK n \in 0..PatchContext : file \in [1..n -> Lines]
  BY DEF Files
<1>2. n \in Nat
  BY ThreeWayMergeAssumption
<1>3. file \in Seq(Lines)
  BY <1>1, <1>2
<1> QED BY <1>3

\* A span holds the lines of a file from one line to the line before another.
LEMMA SpanType ==
    ASSUME NEW file \in Seq(Lines), NEW a \in Nat \ {0}, NEW b \in Nat, a < b,
           a <= Len(file)
    PROVE  LET z == IF b - 1 < Len(file) THEN b - 1 ELSE Len(file) IN
           /\ Span(file, a, b) \in Seq(Lines)
           /\ z \in Nat /\ z <= Len(file) /\ a <= z
           /\ Len(Span(file, a, b)) = z - a + 1
           /\ \A k \in 1..(z - a + 1) :
                Span(file, a, b)[k] = file[a - 1 + k] /\ a - 1 + k \in 1..Len(file)
<1> DEFINE z == IF b - 1 < Len(file) THEN b - 1 ELSE Len(file)
<1>1. Len(file) \in Nat /\ z \in Nat /\ z <= Len(file) /\ a <= z
  OBVIOUS
<1>2. Span(file, a, b) = SubSeq(file, a, z)
  BY DEF Span
<1> HIDE DEF z
<1>3. /\ SubSeq(file, a, z) \in Seq(Lines) /\ Len(SubSeq(file, a, z)) = z - a + 1
      /\ \A k \in 1..(z - a + 1) : SubSeq(file, a, z)[k] = file[a + k - 1]
  BY <1>1
<1>4. \A k \in 1..(z - a + 1) : a + k - 1 = a - 1 + k /\ a - 1 + k \in 1..Len(file)
  BY <1>1
<1> QED BY <1>1, <1>2, <1>3, <1>4 DEF z

LEMMA OtherSpan ==
    ASSUME NEW file \in Seq(Lines), NEW a \in Nat \ {0}, NEW b \in Nat
    PROVE  Span(file, a, b) \in Seq(Lines)
<1> DEFINE z == IF b - 1 < Len(file) THEN b - 1 ELSE Len(file)
<1>1. z \in Int /\ z <= Len(file)
  OBVIOUS
<1> HIDE DEF z
<1>2. SubSeq(file, a, z) \in Seq(Lines)
  BY <1>1
<1> QED BY <1>2 DEF Span, z

-----------------------------------------------------------------------------
(* Reading one side of the output.                                         *)

\* The first n lines of a file are in the output, in order, at the first n
\* positions of a side.
Reads(out, side, file, n) ==
    \E e \in [1..n -> side] :
        /\ \A k \in 1..n : out[e[k]] = file[k]
        /\ \A j, k \in 1..n : j < k => e[j] < e[k]
        /\ \A q \in side : (\E k \in 1..n : q = e[k]) \/ (\A k \in 1..n : e[k] < q)

\* ... and the side has no other positions.
ReadsAll(out, side, file, n) ==
    \E e \in [1..n -> side] :
        /\ \A k \in 1..n : out[e[k]] = file[k]
        /\ \A j, k \in 1..n : j < k => e[j] < e[k]
        /\ \A q \in side : \E k \in 1..n : q = e[k]

LEMMA AllIsSome ==
    ASSUME NEW out, NEW side, NEW file, NEW n, ReadsAll(out, side, file, n)
    PROVE  Reads(out, side, file, n)
  BY DEF Reads, ReadsAll

\* Lines of the file appended to the output and to the side are read too.
LEMMA ReadsMore ==
    ASSUME NEW out, NEW out2, NEW side, NEW side2, NEW file,
           NEW n \in Nat, NEW c \in Nat, NEW p \in Nat,
           ReadsAll(out, side, file, n),
           \A q \in side : q \in Nat /\ q <= p /\ out2[q] = out[q],
           side2 = side \cup {p + k : k \in 1..c},
           \A k \in 1..c : out2[p + k] = file[n + k]
    PROVE  ReadsAll(out2, side2, file, n + c)
<1>1. PICK e \in [1..n -> side] :
        /\ \A k \in 1..n : out[e[k]] = file[k]
        /\ \A j, k \in 1..n : j < k => e[j] < e[k]
        /\ \A q \in side : \E k \in 1..n : q = e[k]
  BY DEF ReadsAll
<1> DEFINE e2 == [k \in 1..(n + c) |-> IF k <= n THEN e[k] ELSE p + (k - n)]
<1>2. \A k \in 1..(n + c) : k <= n => k \in 1..n /\ e2[k] = e[k] /\ e[k] \in side
  OBVIOUS
<1>3. \A k \in 1..(n + c) : ~(k <= n) =>
        /\ k - n \in 1..c /\ e2[k] = p + (k - n) /\ n + (k - n) = k
  OBVIOUS
<1>4. \A k \in 1..(n + c) : e2[k] \in side2
  BY <1>2, <1>3
<1>5. e2 \in [1..(n + c) -> side2]
  BY <1>4
<1> HIDE DEF e2
<1>6. \A k \in 1..(n + c) : out2[e2[k]] = file[k]
  <2> SUFFICES ASSUME NEW k \in 1..(n + c) PROVE out2[e2[k]] = file[k]
    OBVIOUS
  <2>1. CASE k <= n
    BY <1>1, <1>2, <2>1
  <2>2. CASE ~(k <= n)
    <3>1. k - n \in 1..c /\ e2[k] = p + (k - n) /\ n + (k - n) = k
      BY <1>3, <2>2
    <3>2. out2[p + (k - n)] = file[n + (k - n)]
      BY <3>1
    <3> QED BY <3>1, <3>2
  <2> QED BY <2>1, <2>2
<1>7. \A j, k \in 1..(n + c) : j < k => e2[j] < e2[k]
  <2> SUFFICES ASSUME NEW j \in 1..(n + c), NEW k \in 1..(n + c), j < k
               PROVE  e2[j] < e2[k]
    OBVIOUS
  <2>1. CASE k <= n
    <3>1. j <= n
      BY <2>1
    <3> QED BY <1>1, <1>2, <2>1, <3>1
  <2>2. CASE ~(k <= n) /\ j <= n
    <3>1. e2[j] \in Nat /\ e2[j] <= p
      BY <1>2, <2>2
    <3>2. e2[k] = p + (k - n) /\ k - n \in 1..c
      BY <1>3, <2>2
    <3> QED BY <3>1, <3>2
  <2>3. CASE ~(j <= n)
    <3>1. ~(k <= n)
      BY <2>3
    <3>2. /\ e2[j] = p + (j - n) /\ j - n \in 1..c
          /\ e2[k] = p + (k - n) /\ k - n \in 1..c
      BY <1>3, <2>3, <3>1
    <3> QED BY <3>2
  <2> QED BY <2>1, <2>2, <2>3
<1>8. \A q \in side2 : \E k \in 1..(n + c) : q = e2[k]
  <2> SUFFICES ASSUME NEW q \in side2 PROVE \E k \in 1..(n + c) : q = e2[k]
    OBVIOUS
  <2>1. CASE q \in side
    <3>1. PICK k \in 1..n : q = e[k]
      BY <1>1, <2>1
    <3>2. k \in 1..(n + c) /\ k <= n
      OBVIOUS
    <3> QED BY <1>2, <3>1, <3>2
  <2>2. CASE q \notin side
    <3>1. PICK k \in 1..c : q = p + k
      BY <2>2
    <3>2. n + k \in 1..(n + c) /\ ~(n + k <= n) /\ (n + k) - n = k
      OBVIOUS
    <3>3. e2[n + k] = p + k
      BY <1>3, <3>2
    <3> QED BY <3>1, <3>2, <3>3
  <2> QED BY <2>1, <2>2
<1> QED BY <1>5, <1>6, <1>7, <1>8 DEF ReadsAll

\* Other positions after those of the side change nothing of what is read.
LEMMA ReadsOther ==
    ASSUME NEW out, NEW out2, NEW side, NEW side2, NEW file, NEW n \in Nat,
           NEW p \in Nat, Reads(out, side, file, n),
           \A q \in side : q \in Nat /\ q <= p /\ out2[q] = out[q],
           side \subseteq side2,
           \A q \in side2 \ side : q \in Nat /\ p < q
    PROVE  Reads(out2, side2, file, n)
<1>1. PICK e \in [1..n -> side] :
        /\ \A k \in 1..n : out[e[k]] = file[k]
        /\ \A j, k \in 1..n : j < k => e[j] < e[k]
        /\ \A q \in side : (\E k \in 1..n : q = e[k]) \/ (\A k \in 1..n : e[k] < q)
  BY DEF Reads
<1>2. \A k \in 1..n : e[k] \in side /\ e[k] \in Nat /\ e[k] <= p
  OBVIOUS
<1>3. e \in [1..n -> side2]
  BY <1>2
<1>4. \A k \in 1..n : out2[e[k]] = file[k]
  BY <1>1, <1>2
<1>5. \A q \in side2 : (\E k \in 1..n : q = e[k]) \/ (\A k \in 1..n : e[k] < q)
  <2> SUFFICES ASSUME NEW q \in side2, q \notin side
               PROVE  \A k \in 1..n : e[k] < q
    BY <1>1
  <2>1. q \in Nat /\ p < q
    OBVIOUS
  <2> QED BY <1>2, <2>1
<1> QED BY <1>1, <1>3, <1>4, <1>5 DEF Reads

\* A part of a finite set with as many elements is the set.
LEMMA WholeSet ==
    ASSUME NEW S, IsFiniteSet(S), NEW T, T \in SUBSET S
    PROVE  /\ Cardinality(T) <= Cardinality(S)
           /\ Cardinality(S) = Cardinality(T) => S = T
  BY FS_Subset

\* A side that reads a file starts with it.
LEMMA KeptStarts ==
    ASSUME NEW side, NEW p \in Nat, side \subseteq 1..p, NEW file \in Seq(Lines),
           Reads(output, side, file, Len(file))
    PROVE  StartsWith(Kept(side), file)
<1> DEFINE n == Len(file)
           Upto(q) == {m \in side : m <= q}
           N == Cardinality(side)
<1>1. n \in Nat
  OBVIOUS
<1>2. PICK e \in [1..n -> side] :
        /\ \A k \in 1..n : output[e[k]] = file[k]
        /\ \A j, k \in 1..n : j < k => e[j] < e[k]
        /\ \A q \in side : (\E k \in 1..n : q = e[k]) \/ (\A k \in 1..n : e[k] < q)
  BY DEF Reads
<1>3. IsFiniteSet(side) /\ N \in Nat
  <2>1. IsFiniteSet(1..p)
    BY FS_Interval
  <2>2. IsFiniteSet(side)
    BY <2>1, FS_Subset
  <2> QED BY <2>2, FS_CardinalityType
<1>4. (\A q \in side : q \in Nat) /\ \A k \in 1..n : e[k] \in side /\ e[k] \in Nat
  <2>1. \A q \in side : q \in Nat
    OBVIOUS
  <2> QED BY <2>1
<1>5. \A q \in side : IsFiniteSet(Upto(q)) /\ Cardinality(Upto(q)) \in Nat
  <2> SUFFICES ASSUME NEW q \in side
               PROVE  IsFiniteSet(Upto(q)) /\ Cardinality(Upto(q)) \in Nat
    OBVIOUS
  <2>1. Upto(q) \subseteq side
    OBVIOUS
  <2> QED BY <1>3, <2>1, FS_Subset, FS_CardinalityType
<1>6. \A k \in 1..n : Cardinality(Upto(e[k])) = k
  <2> SUFFICES ASSUME NEW k \in 1..n PROVE Cardinality(Upto(e[k])) = k
    OBVIOUS
  <2> DEFINE f == [j \in 1..k |-> e[j]]
  <2>1. \A j \in 1..k : j \in 1..n /\ (j < k \/ j = k)
    BY <1>1
  <2>2. \A j \in 1..k : f[j] \in Upto(e[k])
    <3> SUFFICES ASSUME NEW j \in 1..k PROVE e[j] \in Upto(e[k])
      OBVIOUS
    <3>1. e[j] <= e[k]
      BY <1>2, <1>4, <2>1
    <3> QED BY <1>4, <2>1, <3>1
  <2>3. \A a, b \in 1..k : f[a] = f[b] => a = b
    <3> SUFFICES ASSUME NEW a \in 1..k, NEW b \in 1..k, f[a] = f[b], a # b
                 PROVE  FALSE
      OBVIOUS
    <3>1. a < b \/ b < a
      OBVIOUS
    <3>2. a \in 1..n /\ b \in 1..n /\ e[a] = e[b]
      BY <2>1
    <3>3. e[a] < e[b] \/ e[b] < e[a]
      BY <1>2, <3>1, <3>2
    <3> QED BY <1>4, <3>2, <3>3
  <2>4. \A q \in Upto(e[k]) : \E j \in 1..k : f[j] = q
    <3> SUFFICES ASSUME NEW q \in side, q <= e[k]
                 PROVE  \E j \in 1..k : e[j] = q
      OBVIOUS
    <3>1. q \in Nat
      OBVIOUS
    <3>2. PICK j \in 1..n : q = e[j]
      BY <1>2, <1>4, <3>1
    <3>3. ~(k < j)
      BY <1>2, <1>4, <3>1, <3>2
    <3>4. j \in 1..k
      BY <1>1, <3>3
    <3> QED BY <3>2, <3>4
  <2>5. f \in [1..k -> Upto(e[k])]
    BY <2>2
  <2> HIDE DEF f, Upto
  <2>6. f \in Bijection(1..k, Upto(e[k]))
    BY <2>3, <2>4, <2>5 DEF Bijection, Injection, Surjection, IsInjective
  <2>7. ExistsBijection(1..k, Upto(e[k]))
    BY <2>6 DEF ExistsBijection
  <2>8. k \in Nat
    BY <1>1
  <2> QED BY <1>4, <1>5, <2>7, <2>8, FS_CountingElements
<1>7. ASSUME NEW k \in 1..n, NEW q \in side, Cardinality(Upto(q)) = k
      PROVE  q = e[k]
  <2>1. q \in Nat /\ e[k] \in Nat /\ e[k] \in side
    BY <1>4
  <2>2. Cardinality(Upto(e[k])) = Cardinality(Upto(q))
    BY <1>6, <1>7
  <2>3. CASE q < e[k]
    <3>1. Upto(q) \in SUBSET Upto(e[k])
      <4>1. \A m \in side : m <= q => m <= e[k]
        BY <1>4, <2>1, <2>3
      <4> QED BY <4>1
    <3>2. e[k] \in Upto(e[k]) /\ e[k] \notin Upto(q)
      BY <2>1, <2>3
    <3> HIDE DEF Upto
    <3>3. IsFiniteSet(Upto(e[k]))
      BY <1>5, <2>1
    <3>4. Upto(e[k]) = Upto(q)
      BY <2>2, <3>1, <3>3, WholeSet
    <3> QED BY <3>2, <3>4
  <2>4. CASE e[k] < q
    <3>1. Upto(e[k]) \in SUBSET Upto(q)
      <4>1. \A m \in side : m <= e[k] => m <= q
        BY <1>4, <2>1, <2>4
      <4> QED BY <4>1
    <3>2. q \in Upto(q) /\ q \notin Upto(e[k])
      BY <2>1, <2>4
    <3> HIDE DEF Upto
    <3>3. IsFiniteSet(Upto(q))
      BY <1>5
    <3>4. Upto(q) = Upto(e[k])
      BY <2>2, <3>1, <3>3, WholeSet
    <3> QED BY <3>2, <3>4
  <2> QED BY <2>1, <2>3, <2>4
<1>8. n <= N
  <2>1. CASE n = 0
    BY <1>3, <2>1
  <2>2. CASE n # 0
    <3>1. n \in 1..n
      BY <1>1, <2>2
    <3>2. Upto(e[n]) \in SUBSET side
      OBVIOUS
    <3>3. Cardinality(Upto(e[n])) = n
      BY <1>6, <3>1
    <3> HIDE DEF Upto
    <3> QED BY <1>3, <3>2, <3>3, FS_Subset
  <2> QED BY <2>1, <2>2
<1> DEFINE At(k) == CHOOSE q \in side : Cardinality(Upto(q)) = k
<1>9. ASSUME NEW k \in 1..n PROVE k \in 1..N /\ output[At(k)] = file[k]
  <2>1. At(k) = e[k]
    BY <1>4, <1>6, <1>7
  <2>2. k \in 1..N
    BY <1>1, <1>3, <1>8
  <2> HIDE DEF At
  <2> QED BY <1>2, <2>1, <2>2
<1>10. Kept(side) = [k \in 1..N |-> output[At(k)]]
  BY DEF Kept
<1> HIDE DEF At, N
<1> DEFINE kept == Kept(side)
           Values == {output[At(k)] : k \in 1..N}
<1>11. kept \in Seq(Values) /\ Len(kept) = N
  <2>1. kept \in [1..N -> Values]
    BY <1>10
  <2> HIDE DEF kept, Values
  <2> QED BY <1>3, <2>1
<1>12. \A k \in 1..n : kept[k] = file[k]
  BY <1>9, <1>10
<1> HIDE DEF kept, Values
<1>13. SubSeq(kept, 1, n) = file
  <2>1. Len(SubSeq(kept, 1, n)) = n
    BY <1>1, <1>3, <1>8, <1>11
  <2>2. \A k \in 1..n : SubSeq(kept, 1, n)[k] = kept[k]
    BY <1>1, <1>3, <1>8, <1>11
  <2>3. SubSeq(kept, 1, n) \in Seq(Values)
    BY <1>1, <1>3, <1>8, <1>11
  <2> QED BY <1>12, <2>1, <2>2, <2>3
<1> QED BY <1>8, <1>11, <1>13 DEF StartsWith, kept

-----------------------------------------------------------------------------
(* What the loop keeps.                                                    *)

Outputs == Lines \cup Marks
Place == [start : Nat \ {0}, end : Nat]

MergeTypeOK ==
    /\ base \in Files /\ ours \in Files /\ theirs \in Files
    /\ step \in {"start", "scan", "done"}
    /\ i \in Nat \ {0}
    /\ output \in Seq(Outputs) /\ markers \in Seq(Place)
    /\ conflicted \in BOOLEAN

\* What has been decided when the loop runs, and when the merge is done.
DecidedOK ==
    /\ step = "start" => output = <<>> /\ markers = <<>> /\ i = 1
    /\ step # "done" => ~conflicted
    /\ step = "scan" => ~CanAutoMerge
    /\ step = "done" => (CanAutoMerge <=> ~conflicted)
    /\ conflicted => i > MaxLen

\* The lines before line j of a file are read from the side's positions.
Reading(out, side, file, j) ==
    /\ j <= Len(file) + 1 => ReadsAll(out, side, file, j - 1)
    /\ Len(file) < j => Reads(out, side, file, Len(file))

BothRead ==
    step = "scan" \/ conflicted =>
        Reading(output, OursSide, ours, i) /\ Reading(output, TheirsSide, theirs, i)

CleanSurvive == ~conflicted => AddedLinesSurvive

MergeInv == /\ MergeTypeOK /\ DecidedOK /\ MarkersLocateBlocks
            /\ BothRead /\ CleanSurvive

\* The marker lines are four, and no lines of a file.
LEMMA MarksDiffer ==
    /\ OursMark # BaseMark /\ OursMark # SplitMark /\ OursMark # TheirsMark
    /\ BaseMark # SplitMark /\ BaseMark # TheirsMark /\ SplitMark # TheirsMark
    /\ \A x \in Lines : x \notin Marks /\ x \in Outputs
    /\ OursMark \in Marks /\ BaseMark \in Marks
    /\ SplitMark \in Marks /\ TheirsMark \in Marks /\ Marks \subseteq Outputs
    /\ \A x \in Marks : x \in {OursMark, BaseMark, SplitMark, TheirsMark}
<1>1. /\ OursMark # BaseMark /\ OursMark # SplitMark /\ OursMark # TheirsMark
      /\ BaseMark # SplitMark /\ BaseMark # TheirsMark /\ SplitMark # TheirsMark
  BY DEF OursMark, BaseMark, SplitMark, TheirsMark
<1>2. \A x \in Lines : x \notin Marks
  BY ThreeWayMergeAssumption
<1> QED BY <1>1, <1>2 DEF Marks, Outputs

\* A longer output leaves the sides what they were on the old one.
LEMMA SidesKept ==
    ASSUME MergeTypeOK, MarkersLocateBlocks,
           output' \in Seq(Outputs), Len(output) <= Len(output'),
           \A k \in 1..Len(output) : output'[k] = output[k],
           markers' \in Seq(Place), Len(markers) <= Len(markers'),
           \A m \in 1..Len(markers) : markers'[m] = markers[m],
           \A m \in 1..Len(markers') :
               m \notin 1..Len(markers) => Len(output) < markers'[m].start
    PROVE  \A q \in 1..Len(output) :
               (q \in OursSide' <=> q \in OursSide)
                 /\ (q \in TheirsSide' <=> q \in TheirsSide)
<1> SUFFICES ASSUME NEW q \in 1..Len(output)
             PROVE  /\ q \in OursSide' <=> q \in OursSide
                    /\ q \in TheirsSide' <=> q \in TheirsSide
  OBVIOUS
<1>1. /\ Len(output) \in Nat /\ Len(output') \in Nat
      /\ Len(markers) \in Nat /\ Len(markers') \in Nat
      /\ q \in 1..Len(output') /\ output'[q] = output[q]
  BY DEF MergeTypeOK
<1>2. \A m \in 1..Len(markers) : m \in 1..Len(markers') /\ markers'[m] = markers[m]
  BY <1>1
<1>3. \A m \in 1..Len(markers) : InBlock(m, q)' = InBlock(m, q)
  BY <1>2 DEF InBlock
<1>4. \A m \in 1..Len(markers') : InBlock(m, q)' => m \in 1..Len(markers)
  <2> SUFFICES ASSUME NEW m \in 1..Len(markers'), m \notin 1..Len(markers)
               PROVE  ~InBlock(m, q)'
    OBVIOUS
  <2>1. Len(output) < markers'[m].start /\ markers'[m].start \in Nat
    <3>1. markers'[m] \in Place
      OBVIOUS
    <3> QED BY <3>1 DEF Place
  <2>2. ~(markers'[m].start <= q)
    BY <1>1, <2>1
  <2> QED BY <2>2 DEF InBlock
<1>5. ASSUME NEW m \in 1..Len(markers), NEW mark
      PROVE  MarkBetween(m, q, mark)' <=> MarkBetween(m, q, mark)
  <2>1. markers[m].start \in Nat \ {0}
    <3>1. markers[m] \in Place
      BY DEF MergeTypeOK
    <3> QED BY <3>1 DEF Place
  <2>2. \A n \in markers[m].start..q : n \in 1..Len(output)
    BY <1>1, <2>1
  <2> QED BY <1>2, <2>2 DEF MarkBetween
<1> QED BY <1>1, <1>2, <1>3, <1>4, <1>5 DEF OursSide, TheirsSide

\* A position that no block takes in belongs to both sides.
LEMMA LineSides ==
    ASSUME MergeTypeOK, MarkersLocateBlocks, NEW x \in Lines,
           output' = Append(output, x), markers' = markers
    PROVE  /\ OursSide' = OursSide \cup {Len(output) + k : k \in 1..1}
           /\ TheirsSide' = TheirsSide \cup {Len(output) + k : k \in 1..1}
           /\ MarkersLocateBlocks'
           /\ output' \in Seq(Outputs) /\ Len(output') = Len(output) + 1
           /\ Len(output) \in Nat
           /\ \A k \in 1..Len(output) : output'[k] = output[k]
           /\ output'[Len(output) + 1] = x
<1>1. /\ Len(output) \in Nat /\ output' \in Seq(Outputs)
      /\ Len(output') = Len(output) + 1
      /\ \A k \in 1..Len(output) : output'[k] = output[k]
      /\ output'[Len(output) + 1] = x
      /\ markers \in Seq(Place) /\ Len(markers) \in Nat
  BY MarksDiffer DEF MergeTypeOK
<1>2. \A m \in 1..Len(markers) : markers[m].start \in Nat \ {0} /\ markers[m].end \in Nat
  <2>1. \A m \in 1..Len(markers) : markers[m] \in Place
    BY <1>1
  <2> QED BY <2>1 DEF Place
<1>3. \A q \in 1..Len(output) :
          (q \in OursSide' <=> q \in OursSide)
            /\ (q \in TheirsSide' <=> q \in TheirsSide)
  <2>1. Len(output) <= Len(output') /\ Len(markers) <= Len(markers')
    BY <1>1
  <2> QED BY <1>1, <2>1, SidesKept
<1>4. \A m \in 1..Len(markers) : ~InBlock(m, Len(output) + 1)
  <2> SUFFICES ASSUME NEW m \in 1..Len(markers)
               PROVE  ~(Len(output) + 1 <= markers[m].end)
    BY DEF InBlock
  <2>1. markers[m].end <= Len(output) /\ markers[m].end \in Nat
    BY <1>2 DEF MarkersLocateBlocks
  <2> QED BY <1>1, <2>1
<1>5. \A n : n = Len(output) + 1 => n \in OursSide' /\ n \in TheirsSide'
  <2> SUFFICES ASSUME NEW n, n = Len(output) + 1
               PROVE  n \in OursSide' /\ n \in TheirsSide'
    OBVIOUS
  <2>1. n \in 1..Len(output')
    BY <1>1
  <2>2. \A m \in 1..Len(markers) : ~InBlock(m, n)'
    BY <1>4 DEF InBlock
  <2> QED BY <2>1, <2>2 DEF OursSide, TheirsSide
<1>6. /\ OursSide \subseteq 1..Len(output) /\ TheirsSide \subseteq 1..Len(output)
      /\ OursSide' \subseteq 1..Len(output') /\ TheirsSide' \subseteq 1..Len(output')
  BY DEF OursSide, TheirsSide
<1>7. /\ 1..Len(output') = (1..Len(output)) \cup {Len(output) + 1}
      /\ {Len(output) + k : k \in 1..1} = {Len(output) + 1}
  BY <1>1
<1>8. /\ OursSide' = OursSide \cup {Len(output) + k : k \in 1..1}
      /\ TheirsSide' = TheirsSide \cup {Len(output) + k : k \in 1..1}
  BY <1>3, <1>5, <1>6, <1>7
<1>9. MarkersLocateBlocks'
  <2>1. ASSUME NEW m \in 1..Len(markers)
        PROVE  /\ markers[m].start < markers[m].end
               /\ markers[m].end <= Len(output')
               /\ output'[markers[m].start] = OursMark
               /\ output'[markers[m].end] = TheirsMark
               /\ m > 1 => markers[m - 1].end < markers[m].start
    <3>1. /\ markers[m].start < markers[m].end /\ markers[m].end <= Len(output)
          /\ output[markers[m].start] = OursMark /\ output[markers[m].end] = TheirsMark
          /\ m > 1 => markers[m - 1].end < markers[m].start
      BY DEF MarkersLocateBlocks
    <3>2. markers[m].start \in 1..Len(output) /\ markers[m].end \in 1..Len(output)
      BY <1>1, <1>2, <3>1
    <3>3. markers[m].end <= Len(output')
      BY <1>1, <3>2
    <3> QED BY <1>1, <3>1, <3>2, <3>3
  <2>2. ASSUME NEW k \in 1..Len(output'), output'[k] \in Marks
        PROVE  \E m \in 1..Len(markers) : markers[m].start <= k /\ k <= markers[m].end
    <3>1. k \in 1..Len(output)
      BY <1>1, <2>2, MarksDiffer
    <3> QED BY <1>1, <2>2, <3>1 DEF MarkersLocateBlocks
  <2> QED BY <2>1, <2>2 DEF MarkersLocateBlocks
<1> QED BY <1>1, <1>8, <1>9

\* What stands where in a block.
BlockShape(block, x, y, z) ==
    LET A == Len(x)
        B == Len(y)
        C == Len(z) IN
    /\ block \in Seq(Outputs) /\ Len(block) = A + B + C + 3
    /\ block[1] = OursMark
    /\ \A k \in 1..A : block[1 + k] = x[k]
    /\ \A k \in 1..B : block[1 + A + k] = y[k]
    /\ block[A + B + 2] = SplitMark
    /\ \A k \in 1..C : block[A + B + 2 + k] = z[k]
    /\ block[A + B + C + 3] = TheirsMark

\* A concatenation whose parts have known lengths.
LEMMA ConcatAt ==
    ASSUME NEW S, NEW s \in Seq(S), NEW t \in Seq(S), NEW n \in Nat, NEW m \in Nat,
           NEW l \in Nat, Len(s) = n, Len(t) = m, l = n + m
    PROVE  /\ s \o t \in Seq(S) /\ Len(s \o t) = l
           /\ \A k \in 1..n : (s \o t)[k] = s[k]
           /\ \A k \in 1..m : (s \o t)[n + k] = t[k]
  BY ConcatKeeps

\* ... one element appended.
LEMMA ConcatOne ==
    ASSUME NEW S, NEW s \in Seq(S), NEW x \in S, NEW n \in Nat,
           NEW l \in Nat, Len(s) = n, l = n + 1
    PROVE  /\ s \o <<x>> \in Seq(S) /\ Len(s \o <<x>>) = l
           /\ \A k \in 1..n : (s \o <<x>>)[k] = s[k]
           /\ (s \o <<x>>)[l] = x
  OBVIOUS

LEMMA BlockParts ==
    ASSUME NEW x \in Seq(Outputs), NEW y \in Seq(Outputs), NEW z \in Seq(Outputs)
    PROVE  BlockShape(<<OursMark>> \o x \o y \o <<SplitMark>> \o z \o <<TheirsMark>>,
                      x, y, z)
<1>1. PICK A \in Nat, B \in Nat, C \in Nat : A = Len(x) /\ B = Len(y) /\ C = Len(z)
  OBVIOUS
<1>2. PICK l1 \in Nat, l2 \in Nat, l3 \in Nat, l4 \in Nat, l5 \in Nat :
        /\ l1 = 1 + A /\ l2 = l1 + B /\ l3 = l2 + 1 /\ l4 = l3 + C /\ l5 = l4 + 1
  <2>1. /\ 1 + A \in Nat /\ 1 + A + B \in Nat /\ 1 + A + B + 1 \in Nat
        /\ 1 + A + B + 1 + C \in Nat /\ 1 + A + B + 1 + C + 1 \in Nat
    OBVIOUS
  <2> QED BY <2>1
<1>3. OursMark \in Outputs /\ SplitMark \in Outputs /\ TheirsMark \in Outputs
  BY MarksDiffer
<1>4. PICK s1 : s1 = <<OursMark>> \o x
  OBVIOUS
<1>5. PICK s2 : s2 = s1 \o y
  OBVIOUS
<1>6. PICK s3 : s3 = s2 \o <<SplitMark>>
  OBVIOUS
<1>7. PICK s4 : s4 = s3 \o z
  OBVIOUS
<1>8. PICK s5 : s5 = s4 \o <<TheirsMark>>
  OBVIOUS
<1>9. /\ s1 \in Seq(Outputs) /\ Len(s1) = l1 /\ s1[1] = OursMark
      /\ \A k \in 1..A : s1[1 + k] = x[k]
  BY <1>1, <1>2, <1>3, <1>4
<1>10. /\ s2 \in Seq(Outputs) /\ Len(s2) = l2
       /\ \A k \in 1..l1 : s2[k] = s1[k]
       /\ \A k \in 1..B : s2[l1 + k] = y[k]
  <2>1. Len(y) = B /\ y \in Seq(Outputs) /\ l2 = l1 + B
    BY <1>1, <1>2
  <2>2. s1 \in Seq(Outputs) /\ Len(s1) = l1
    BY <1>9
  <2>3. /\ s1 \o y \in Seq(Outputs) /\ Len(s1 \o y) = l2
        /\ \A k \in 1..l1 : (s1 \o y)[k] = s1[k]
        /\ \A k \in 1..B : (s1 \o y)[l1 + k] = y[k]
    <3>4. s1 \in Seq(Outputs) /\ y \in Seq(Outputs)
      BY ONLY <2>1, <2>2
    <3>1. s1 \o y \in Seq(Outputs) /\ Len(s1 \o y) = Len(s1) + Len(y)
      BY ONLY <3>4, ConcatKeeps
    <3>2. \A k \in 1..Len(s1) : (s1 \o y)[k] = s1[k]
      BY ONLY <3>4, ConcatKeeps
    <3>3. \A k \in 1..Len(y) : (s1 \o y)[Len(s1) + k] = y[k]
      BY ONLY <3>4, ConcatKeeps
    <3> QED BY <2>1, <2>2, <3>1, <3>2, <3>3
  <2> QED BY <1>5, <2>3
<1>11. /\ s3 \in Seq(Outputs) /\ Len(s3) = l3
       /\ \A k \in 1..l2 : s3[k] = s2[k]
       /\ s3[l3] = SplitMark
  BY <1>2, <1>3, <1>6, <1>10, ConcatOne
<1>12. /\ s4 \in Seq(Outputs) /\ Len(s4) = l4
       /\ \A k \in 1..l3 : s4[k] = s3[k]
       /\ \A k \in 1..C : s4[l3 + k] = z[k]
  <2>1. Len(z) = C /\ z \in Seq(Outputs) /\ l4 = l3 + C
    BY <1>1, <1>2
  <2>2. s3 \in Seq(Outputs) /\ Len(s3) = l3
    BY <1>11
  <2>3. /\ s3 \o z \in Seq(Outputs) /\ Len(s3 \o z) = l4
        /\ \A k \in 1..l3 : (s3 \o z)[k] = s3[k]
        /\ \A k \in 1..C : (s3 \o z)[l3 + k] = z[k]
    <3>4. s3 \in Seq(Outputs) /\ z \in Seq(Outputs)
      BY ONLY <2>1, <2>2
    <3>1. s3 \o z \in Seq(Outputs) /\ Len(s3 \o z) = Len(s3) + Len(z)
      BY ONLY <3>4, ConcatKeeps
    <3>2. \A k \in 1..Len(s3) : (s3 \o z)[k] = s3[k]
      BY ONLY <3>4, ConcatKeeps
    <3>3. \A k \in 1..Len(z) : (s3 \o z)[Len(s3) + k] = z[k]
      BY ONLY <3>4, ConcatKeeps
    <3> QED BY <2>1, <2>2, <3>1, <3>2, <3>3
  <2> QED BY <1>7, <2>3
<1>13. /\ s5 \in Seq(Outputs) /\ Len(s5) = l5
       /\ \A k \in 1..l4 : s5[k] = s4[k]
       /\ s5[l5] = TheirsMark
  BY <1>2, <1>3, <1>8, <1>12, ConcatOne
<1>14. \A k \in 1..l3 : s5[k] = s3[k]
  <2>1. \A k \in 1..l3 : k \in 1..l4
    BY <1>2
  <2> QED BY <1>12, <1>13, <2>1
<1>15. \A k \in 1..l2 : s5[k] = s2[k]
  <2>1. \A k \in 1..l2 : k \in 1..l3
    BY <1>2
  <2> QED BY <1>11, <1>14, <2>1
<1>16. \A k \in 1..l1 : s5[k] = s1[k]
  <2>1. \A k \in 1..l1 : k \in 1..l2
    BY <1>2
  <2> QED BY <1>10, <1>15, <2>1
<1>17. s5[1] = OursMark /\ \A k \in 1..A : s5[1 + k] = x[k]
  <2>1. 1 \in 1..l1 /\ \A k \in 1..A : 1 + k \in 1..l1
    BY <1>2
  <2> QED BY <1>9, <1>16, <2>1
<1>18. \A k \in 1..B : s5[1 + A + k] = y[k]
  <2>1. \A k \in 1..B : l1 + k \in 1..l2 /\ 1 + A + k = l1 + k
    BY <1>2
  <2> QED BY <1>10, <1>15, <2>1
<1>19. s5[A + B + 2] = SplitMark
  <2>1. l3 \in 1..l3 /\ A + B + 2 = l3
    BY <1>2
  <2> QED BY <1>11, <1>14, <2>1
<1>20. \A k \in 1..C : s5[A + B + 2 + k] = z[k]
  <2>1. \A k \in 1..C : l3 + k \in 1..l4 /\ A + B + 2 + k = l3 + k
    BY <1>2
  <2> QED BY <1>12, <1>13, <2>1
<1>21. Len(s5) = A + B + C + 3 /\ s5[A + B + C + 3] = TheirsMark
  <2>1. A + B + C + 3 = l5
    BY <1>2
  <2> QED BY <1>13, <2>1
<1>22. BlockShape(s5, x, y, z)
  BY <1>1, <1>13, <1>17, <1>18, <1>19, <1>20, <1>21 DEF BlockShape
<1> QED BY <1>4, <1>5, <1>6, <1>7, <1>8, <1>22

\* The parts of the block that begins at the loop's line.
LEMMA BlockType ==
    ASSUME MergeTypeOK, NEW a \in Nat \ {0}, NEW b \in Nat
    PROVE  LET x == Span(ours, a, b)
               y == BaseBlock(a, b)
               z == Span(theirs, a, b) IN
           /\ x \in Seq(Lines) /\ z \in Seq(Lines) /\ y \in Seq(Outputs)
           /\ \A k \in 1..Len(y) : IF k = 1 THEN y[k] = BaseMark ELSE y[k] \in Lines
           /\ BlockShape(Block(a, b), x, y, z)
<1> DEFINE x == Span(ours, a, b)
           y == BaseBlock(a, b)
           z == Span(theirs, a, b)
           w == Span(base, a, b)
<1>1. x \in Seq(Lines) /\ z \in Seq(Lines) /\ w \in Seq(Lines)
  BY FileType, OtherSpan DEF MergeTypeOK
<1> HIDE DEF x, z, w
<1>2. x \in Seq(Outputs) /\ z \in Seq(Outputs) /\ w \in Seq(Outputs)
  BY <1>1, MarksDiffer
<1>3. /\ y \in Seq(Outputs)
      /\ \A k \in 1..Len(y) : IF k = 1 THEN y[k] = BaseMark ELSE y[k] \in Lines
  <2>1. CASE a <= Len(base)
    <3>1. y = <<BaseMark>> \o w
      BY <2>1 DEF BaseBlock, w
    <3>2. <<BaseMark>> \in Seq(Outputs) /\ Len(<<BaseMark>>) = 1 /\ <<BaseMark>>[1] = BaseMark
      BY MarksDiffer
    <3>3. /\ y \in Seq(Outputs) /\ Len(y) = 1 + Len(w) /\ Len(w) \in Nat
          /\ \A k \in 1..1 : y[k] = <<BaseMark>>[k]
          /\ \A k \in 1..Len(w) : y[1 + k] = w[k]
      BY <1>2, <3>1, <3>2, ConcatKeeps
    <3> HIDE DEF y
    <3>4. ASSUME NEW k \in 1..Len(y), k # 1 PROVE y[k] \in Lines
      <4>1. k - 1 \in 1..Len(w) /\ 1 + (k - 1) = k
        BY <3>3, <3>4
      <4>2. y[k] = w[k - 1]
        BY <3>3, <4>1
      <4> QED BY <1>1, <4>1, <4>2
    <3>5. y[1] = BaseMark
      BY <3>2, <3>3
    <3> QED BY <3>3, <3>4, <3>5
  <2>2. CASE ~(a <= Len(base))
    <3>1. y = <<>>
      BY <2>2 DEF BaseBlock
    <3> HIDE DEF y
    <3> QED BY <3>1
  <2> QED BY <2>1, <2>2
<1>4. Block(a, b) = <<OursMark>> \o x \o y \o <<SplitMark>> \o z \o <<TheirsMark>>
  BY DEF Block, x, z
<1> HIDE DEF y
<1>5. BlockShape(Block(a, b), x, y, z)
  BY <1>2, <1>3, <1>4, BlockParts
<1> QED BY <1>1, <1>3, <1>5 DEF x, y, z

-----------------------------------------------------------------------------
(* The lines of the output that a block adds to each side.                 *)

\* What stands after position L when a block has been written there, whose
\* parts have A, B and C lines.
BlockAt(out, L, A, B, C) ==
    /\ out[L + 1] = OursMark
    /\ \A q \in (L + 2)..(L + 1 + A) : out[q] \in Lines
    /\ \A q \in (L + 2 + A)..(L + 1 + A + B) :
         IF q = L + 2 + A THEN out[q] = BaseMark ELSE out[q] \in Lines
    /\ out[L + A + B + 2] = SplitMark
    /\ \A q \in (L + A + B + 3)..(L + A + B + C + 2) : out[q] \in Lines
    /\ out[L + A + B + C + 3] = TheirsMark

\* Only the split mark is a split mark.
LEMMA SplitPlace ==
    ASSUME NEW out, NEW L \in Nat, NEW A \in Nat, NEW B \in Nat, NEW C \in Nat,
           BlockAt(out, L, A, B, C), NEW q \in (L + 1)..(L + A + B + C + 3)
    PROVE  out[q] = SplitMark <=> q = L + A + B + 2
<1>1. CASE q = L + 1
  BY <1>1, MarksDiffer DEF BlockAt
<1>2. CASE q \in (L + 2)..(L + 1 + A)
  BY <1>2, MarksDiffer DEF BlockAt
<1>3. CASE q \in (L + 2 + A)..(L + 1 + A + B)
  <2>1. out[q] = BaseMark \/ out[q] \in Lines
    BY <1>3 DEF BlockAt
  <2> QED BY <1>3, <2>1, MarksDiffer
<1>4. CASE q = L + A + B + 2
  BY <1>4 DEF BlockAt
<1>5. CASE q \in (L + A + B + 3)..(L + A + B + C + 2)
  BY <1>5, MarksDiffer DEF BlockAt
<1>6. CASE q = L + A + B + C + 3
  BY <1>6, MarksDiffer DEF BlockAt
<1>7. \/ q = L + 1 \/ q \in (L + 2)..(L + 1 + A) \/ q \in (L + 2 + A)..(L + 1 + A + B)
      \/ q = L + A + B + 2 \/ q \in (L + A + B + 3)..(L + A + B + C + 2)
      \/ q = L + A + B + C + 3
  OBVIOUS
<1> QED BY <1>1, <1>2, <1>3, <1>4, <1>5, <1>6, <1>7

\* The lines before the first other mark of a block are those of ours.
LEMMA OursLines ==
    ASSUME NEW out, NEW L \in Nat, NEW A \in Nat, NEW B \in Nat, NEW C \in Nat,
           BlockAt(out, L, A, B, C), NEW q \in (L + 1)..(L + A + B + C + 3)
    PROVE  (/\ out[q] \notin Marks
            /\ ~\E n \in (L + 1)..q : out[n] = BaseMark
            /\ ~\E n \in (L + 1)..q : out[n] = SplitMark)
              <=> q \in (L + 2)..(L + 1 + A)
<1>1. CASE q = L + 1
  BY <1>1, MarksDiffer DEF BlockAt
<1>2. CASE q \in (L + 2)..(L + 1 + A)
  <2>1. out[q] \notin Marks
    BY <1>2, MarksDiffer DEF BlockAt
  <2>2. ASSUME NEW n \in (L + 1)..q PROVE out[n] # BaseMark /\ out[n] # SplitMark
    <3>1. n = L + 1 \/ n \in (L + 2)..(L + 1 + A)
      BY <1>2
    <3>2. out[n] = OursMark \/ out[n] \in Lines
      BY <3>1 DEF BlockAt
    <3> QED BY <3>2, MarksDiffer
  <2> QED BY <1>2, <2>1, <2>2
<1>3. CASE q \in (L + 2 + A)..(L + 1 + A + B)
  <2>1. L + 2 + A \in (L + 2 + A)..(L + 1 + A + B) /\ L + 2 + A \in (L + 1)..q
    BY <1>3
  <2>2. out[L + 2 + A] = BaseMark
    BY <2>1 DEF BlockAt
  <2>3. q \notin (L + 2)..(L + 1 + A)
    BY <1>3
  <2> QED BY <2>1, <2>2, <2>3
<1>4. CASE q \in (L + A + B + 2)..(L + A + B + C + 3)
  <2>1. L + A + B + 2 \in (L + 1)..q /\ q \notin (L + 2)..(L + 1 + A)
    BY <1>4
  <2>2. out[L + A + B + 2] = SplitMark
    BY DEF BlockAt
  <2> QED BY <2>1, <2>2
<1>5. \/ q = L + 1 \/ q \in (L + 2)..(L + 1 + A) \/ q \in (L + 2 + A)..(L + 1 + A + B)
      \/ q \in (L + A + B + 2)..(L + A + B + C + 3)
  OBVIOUS
<1> QED BY <1>1, <1>2, <1>3, <1>4, <1>5

\* The lines after the split mark are those of theirs.
LEMMA TheirsLines ==
    ASSUME NEW out, NEW L \in Nat, NEW A \in Nat, NEW B \in Nat, NEW C \in Nat,
           BlockAt(out, L, A, B, C), NEW q \in (L + 1)..(L + A + B + C + 3)
    PROVE  (/\ out[q] \notin Marks
            /\ \E n \in (L + 1)..q : out[n] = SplitMark)
              <=> q \in (L + A + B + 3)..(L + A + B + C + 2)
<1>1. CASE q \in (L + 1)..(L + A + B + 1)
  <2>1. ASSUME NEW n \in (L + 1)..q PROVE out[n] # SplitMark
    <3>1. n \in (L + 1)..(L + A + B + C + 3) /\ n # L + A + B + 2
      BY <1>1
    <3> QED BY <3>1, SplitPlace
  <2> QED BY <1>1, <2>1
<1>2. CASE q = L + A + B + 2
  BY <1>2, MarksDiffer DEF BlockAt
<1>3. CASE q \in (L + A + B + 3)..(L + A + B + C + 2)
  <2>1. L + A + B + 2 \in (L + 1)..q
    BY <1>3
  <2>2. out[L + A + B + 2] = SplitMark
    BY DEF BlockAt
  <2>3. out[q] \notin Marks
    BY <1>3, MarksDiffer DEF BlockAt
  <2> QED BY <1>3, <2>1, <2>2, <2>3
<1>4. CASE q = L + A + B + C + 3
  BY <1>4, MarksDiffer DEF BlockAt
<1>5. \/ q \in (L + 1)..(L + A + B + 1) \/ q = L + A + B + 2
      \/ q \in (L + A + B + 3)..(L + A + B + C + 2) \/ q = L + A + B + C + 3
  OBVIOUS
<1> QED BY <1>1, <1>2, <1>3, <1>4, <1>5

\* The base part of a block: its mark, if there is one, and lines.
BasePart(y) == \A k \in 1..Len(y) : IF k = 1 THEN y[k] = BaseMark ELSE y[k] \in Lines

\* An output of L lines has got a block.
Written(out, out2, L, A, B, C) ==
    /\ L = Len(out) /\ out2 \in Seq(Outputs) /\ Len(out2) = L + A + B + C + 3
    /\ \A k \in 1..L : out2[k] = out[k]
    /\ BlockAt(out2, L, A, B, C)

\* The lines of a sequence stand after a position.
StandsAt(out2, p, x) == \A k \in 1..Len(x) : out2[p + k] = x[k]

\* What the output holds after a block has been appended.
LEMMA BlockAppended ==
    ASSUME NEW out \in Seq(Outputs), NEW block,
           NEW x \in Seq(Lines), NEW y \in Seq(Outputs), NEW z \in Seq(Lines),
           BlockShape(block, x, y, z),
           BasePart(y),
           NEW L \in Nat, NEW A \in Nat, NEW B \in Nat, NEW C \in Nat,
           L = Len(out), A = Len(x), B = Len(y), C = Len(z)
    PROVE  /\ Written(out, out \o block, L, A, B, C)
           /\ StandsAt(out \o block, L + 1, x)
           /\ StandsAt(out \o block, L + A + B + 2, z)
<1>1. /\ block \in Seq(Outputs) /\ Len(block) = A + B + C + 3
      /\ block[1] = OursMark
      /\ \A k \in 1..A : block[1 + k] = x[k]
      /\ \A k \in 1..B : block[1 + A + k] = y[k]
      /\ block[A + B + 2] = SplitMark
      /\ \A k \in 1..C : block[A + B + 2 + k] = z[k]
      /\ block[A + B + C + 3] = TheirsMark
  BY DEF BlockShape
<1>2. PICK o : o = out \o block
  OBVIOUS
<1>3. /\ o \in Seq(Outputs) /\ Len(o) = Len(out) + Len(block)
      /\ \A k \in 1..Len(out) : o[k] = out[k]
      /\ \A k \in 1..Len(block) : o[Len(out) + k] = block[k]
  <2>1. block \in Seq(Outputs)
    BY <1>1
  <2> QED BY ONLY <2>1, <1>2, out \in Seq(Outputs), ConcatKeeps
<1>4. /\ Len(o) = L + A + B + C + 3
      /\ \A k \in 1..L : o[k] = out[k]
      /\ \A k \in 1..(A + B + C + 3) : o[L + k] = block[k]
  BY <1>1, <1>3
<1>5. \A k \in 1..A : o[L + 1 + k] = x[k] /\ o[L + 1 + k] \in Lines
  <2>1. \A k \in 1..A : 1 + k \in 1..(A + B + C + 3) /\ L + (1 + k) = L + 1 + k
    OBVIOUS
  <2>2. \A k \in 1..A : x[k] \in Lines
    OBVIOUS
  <2> QED BY <1>1, <1>4, <2>1, <2>2
<1>6. \A k \in 1..B : o[L + 1 + A + k] = y[k]
  <2>1. \A k \in 1..B : 1 + A + k \in 1..(A + B + C + 3)
                          /\ L + (1 + A + k) = L + 1 + A + k
    OBVIOUS
  <2> QED BY <1>1, <1>4, <2>1
<1>7. \A k \in 1..C : o[L + A + B + 2 + k] = z[k] /\ o[L + A + B + 2 + k] \in Lines
  <2>1. \A k \in 1..C : A + B + 2 + k \in 1..(A + B + C + 3)
                          /\ L + (A + B + 2 + k) = L + A + B + 2 + k
    OBVIOUS
  <2>2. \A k \in 1..C : z[k] \in Lines
    OBVIOUS
  <2> QED BY <1>1, <1>4, <2>1, <2>2
<1>8. /\ o[L + 1] = OursMark /\ o[L + A + B + 2] = SplitMark
      /\ o[L + A + B + C + 3] = TheirsMark
  <2>1. /\ 1 \in 1..(A + B + C + 3)
        /\ A + B + 2 \in 1..(A + B + C + 3) /\ L + (A + B + 2) = L + A + B + 2
        /\ A + B + C + 3 \in 1..(A + B + C + 3)
        /\ L + (A + B + C + 3) = L + A + B + C + 3
    OBVIOUS
  <2>2. o[L + 1] = block[1]
    BY <1>4, <2>1
  <2>3. o[L + (A + B + 2)] = block[A + B + 2]
    BY <1>4, <2>1
  <2>4. o[L + (A + B + C + 3)] = block[A + B + C + 3]
    BY <1>4, <2>1
  <2> QED BY <1>1, <2>1, <2>2, <2>3, <2>4
<1>9. \A q \in (L + 2)..(L + 1 + A) : o[q] \in Lines
  <2>1. \A q \in (L + 2)..(L + 1 + A) : q - L - 1 \in 1..A /\ L + 1 + (q - L - 1) = q
    OBVIOUS
  <2> QED BY <1>5, <2>1
<1>10. \A q \in (L + 2 + A)..(L + 1 + A + B) :
         IF q = L + 2 + A THEN o[q] = BaseMark ELSE o[q] \in Lines
  <2>1. ASSUME NEW q \in (L + 2 + A)..(L + 1 + A + B)
        PROVE  /\ q - L - 1 - A \in 1..B /\ L + 1 + A + (q - L - 1 - A) = q
               /\ q = L + 2 + A <=> q - L - 1 - A = 1
    OBVIOUS
  <2>2. ASSUME NEW q \in (L + 2 + A)..(L + 1 + A + B)
        PROVE  o[q] = y[q - L - 1 - A]
    BY <1>6, <2>1
  <2>3. \A k \in 1..B : IF k = 1 THEN y[k] = BaseMark ELSE y[k] \in Lines
    BY DEF BasePart
  <2>4. ASSUME NEW q \in (L + 2 + A)..(L + 1 + A + B)
        PROVE  IF q = L + 2 + A THEN o[q] = BaseMark ELSE o[q] \in Lines
    <3>1. PICK k \in 1..B : k = q - L - 1 - A /\ (q = L + 2 + A <=> k = 1)
      BY <2>1
    <3>2. o[q] = y[k]
      BY <2>2, <3>1
    <3> QED BY <2>3, <3>1, <3>2
  <2> QED BY <2>4
<1>11. \A q \in (L + A + B + 3)..(L + A + B + C + 2) : o[q] \in Lines
  <2>1. \A q \in (L + A + B + 3)..(L + A + B + C + 2) :
           q - L - A - B - 2 \in 1..C /\ L + A + B + 2 + (q - L - A - B - 2) = q
    OBVIOUS
  <2> QED BY <1>7, <2>1
<1>12. BlockAt(o, L, A, B, C)
  BY <1>8, <1>9, <1>10, <1>11 DEF BlockAt
<1>13. Written(out, o, L, A, B, C)
  BY <1>3, <1>4, <1>12 DEF Written
<1>14. StandsAt(o, L + 1, x) /\ StandsAt(o, L + A + B + 2, z)
  BY <1>5, <1>7 DEF StandsAt
<1> QED BY <1>2, <1>13, <1>14

\* A block adds its lines of ours to one side and those of theirs to the other.
LEMMA BlockSides ==
    ASSUME MergeTypeOK, MarkersLocateBlocks,
           NEW L \in Nat, NEW A \in Nat, NEW B \in Nat, NEW C \in Nat,
           Written(output, output', L, A, B, C),
           markers' = Append(markers, [start |-> L + 1, end |-> L + A + B + C + 3])
    PROVE  /\ OursSide' = OursSide \cup {L + 1 + k : k \in 1..A}
           /\ TheirsSide' = TheirsSide \cup {L + A + B + 2 + k : k \in 1..C}
           /\ MarkersLocateBlocks' /\ markers' \in Seq(Place)
<1> DEFINE N == L + A + B + C + 3
           M == Len(markers)
<1>0. /\ L = Len(output) /\ output' \in Seq(Outputs)
      /\ Len(output') = L + A + B + C + 3
      /\ \A k \in 1..L : output'[k] = output[k]
      /\ BlockAt(output', L, A, B, C)
  BY DEF Written
<1>1. /\ L + 1 \in Nat \ {0} /\ N \in Nat /\ L + 1 < N /\ L <= N
      /\ Len(output') = N
  BY <1>0
<1>2. [start |-> L + 1, end |-> N] \in Place
  BY <1>1 DEF Place
<1>3. /\ markers \in Seq(Place) /\ M \in Nat
      /\ markers' \in Seq(Place) /\ Len(markers') = M + 1
      /\ \A m \in 1..M : markers'[m] = markers[m] /\ markers[m] \in Place
      /\ markers'[M + 1] = [start |-> L + 1, end |-> N]
  BY <1>2 DEF MergeTypeOK
<1> HIDE DEF N, M
<1>4. markers'[M + 1].start = L + 1 /\ markers'[M + 1].end = N
  BY <1>3
<1>5. \A m \in 1..(M + 1) : m \in 1..M \/ m = M + 1
  BY <1>3
<1>6. \A m \in 1..M : /\ markers[m].start \in Nat \ {0} /\ markers[m].end \in Nat
                      /\ m \in 1..(M + 1)
  BY <1>3 DEF Place
<1>7. ASSUME NEW m \in 1..M
      PROVE  /\ markers[m].start < markers[m].end /\ markers[m].end <= L
             /\ output[markers[m].start] = OursMark
             /\ output[markers[m].end] = TheirsMark
             /\ m > 1 => markers[m - 1].end < markers[m].start
             /\ markers[m].start \in 1..L /\ markers[m].end \in 1..L
  <2>1. /\ markers[m].start < markers[m].end /\ markers[m].end <= L
        /\ output[markers[m].start] = OursMark
        /\ output[markers[m].end] = TheirsMark
        /\ m > 1 => markers[m - 1].end < markers[m].start
    BY <1>0 DEF MarkersLocateBlocks, M
  <2> QED BY <1>6, <2>1
<1>8. MarkersLocateBlocks'
  <2>1. ASSUME NEW m \in 1..(M + 1)
        PROVE  /\ markers'[m].start < markers'[m].end
               /\ markers'[m].end <= Len(output')
               /\ output'[markers'[m].start] = OursMark
               /\ output'[markers'[m].end] = TheirsMark
               /\ m > 1 => markers'[m - 1].end < markers'[m].start
    <3>1. CASE m \in 1..M
      <4>1. markers'[m] = markers[m] /\ (m > 1 => markers'[m - 1] = markers[m - 1])
        <5>1. m > 1 => m - 1 \in 1..M
          BY <1>3, <3>1
        <5> QED BY <1>3, <3>1, <5>1
      <4>2. /\ output'[markers[m].start] = output[markers[m].start]
            /\ output'[markers[m].end] = output[markers[m].end]
        BY <1>0, <1>7, <3>1
      <4>3. markers[m].end <= N
        BY <1>1, <1>6, <1>7, <3>1
      <4> QED BY <1>1, <1>7, <3>1, <4>1, <4>2, <4>3
    <3>2. CASE m = M + 1
      <4>1. output'[L + 1] = OursMark /\ output'[N] = TheirsMark
        BY <1>0 DEF BlockAt, N
      <4>2. m > 1 => markers'[m - 1].end < L + 1
        <5>1. SUFFICES ASSUME m > 1 PROVE markers'[m - 1].end < L + 1
          OBVIOUS
        <5>2. m - 1 \in 1..M
          BY <1>3, <3>2, <5>1
        <5>3. markers'[m - 1] = markers[m - 1] /\ markers[m - 1].end <= L
          BY <1>3, <1>7, <5>2
        <5>4. markers[m - 1].end \in Nat
          BY <1>6, <5>2
        <5>5. markers[m - 1].end < L + 1
          BY <5>3, <5>4
        <5> QED BY <5>3, <5>5
      <4>3. markers'[m].start = L + 1 /\ markers'[m].end = N
        BY <1>4, <3>2
      <4>4. N <= Len(output')
        BY <1>1
      <4> QED BY <1>1, <4>1, <4>2, <4>3, <4>4
    <3> QED BY <1>5, <3>1, <3>2
  <2>2. ASSUME NEW k \in 1..Len(output'), output'[k] \in Marks
        PROVE  \E m \in 1..(M + 1) : markers'[m].start <= k /\ k <= markers'[m].end
    <3>1. CASE k \in 1..L
      <4>1. output[k] \in Marks /\ k \in 1..Len(output)
        BY <1>0, <2>2, <3>1
      <4>2. PICK m \in 1..M : markers[m].start <= k /\ k <= markers[m].end
        BY <4>1 DEF MarkersLocateBlocks, M
      <4> QED BY <1>3, <1>6, <4>2
    <3>2. CASE k \notin 1..L
      <4>1. L + 1 <= k /\ k <= N
        BY <1>1, <3>2
      <4>2. M + 1 \in 1..(M + 1)
        BY <1>3
      <4> QED BY <1>4, <4>1, <4>2
    <3> QED BY <3>1, <3>2
  <2> QED BY <1>3, <2>1, <2>2 DEF MarkersLocateBlocks
<1>9. \A q \in 1..L : /\ q \in OursSide' <=> q \in OursSide
                      /\ q \in TheirsSide' <=> q \in TheirsSide
  <2>1. Len(output) <= Len(output') /\ Len(markers) <= Len(markers')
    BY <1>0, <1>1, <1>3 DEF M
  <2>2. \A k \in 1..Len(output) : output'[k] = output[k]
    BY <1>0
  <2>3. \A m \in 1..Len(markers) : markers'[m] = markers[m]
    BY <1>3 DEF M
  <2>4. \A m \in 1..Len(markers') :
            m \notin 1..Len(markers) => Len(output) < markers'[m].start
    <3>1. Len(output) < L + 1
      BY <1>0
    <3> QED BY <1>3, <1>4, <1>5, <3>1 DEF M
  <2>5. \A q \in 1..Len(output) : /\ q \in OursSide' <=> q \in OursSide
                                  /\ q \in TheirsSide' <=> q \in TheirsSide
    BY <1>0, <1>3, <2>1, <2>2, <2>3, <2>4, SidesKept
  <2> QED BY <1>0, <2>5
<1>10. ASSUME NEW q \in (L + 1)..N
       PROVE  /\ q \in 1..Len(output')
              /\ \A m \in 1..Len(markers') : InBlock(m, q)' <=> m = M + 1
  <2>1. q \in 1..Len(output')
    BY <1>1
  <2>2. ASSUME NEW m \in 1..M PROVE ~(q <= markers'[m].end)
    <3>1. markers'[m] = markers[m] /\ markers[m].end <= L /\ markers[m].end \in Nat
      BY <1>3, <1>6, <1>7
    <3>2. q \in Nat /\ L < q
      BY <1>1
    <3>3. ~(q <= markers[m].end)
      BY <3>1, <3>2
    <3> QED BY <3>1, <3>3
  <2>3. L + 1 <= q /\ q <= N
    BY <1>1
  <2> QED BY <1>3, <1>4, <1>5, <2>1, <2>2, <2>3 DEF InBlock
<1>11. PICK last : last = M + 1
  OBVIOUS
<1>12. last \in 1..Len(markers') /\ markers'[last].start = L + 1
  BY <1>3, <1>4, <1>11
<1>13. ASSUME NEW q \in (L + 1)..N, NEW mark
       PROVE  MarkBetween(last, q, mark)' <=> \E n \in (L + 1)..q : output'[n] = mark
  BY <1>12 DEF MarkBetween
<1>14. ASSUME NEW q \in (L + 1)..N
       PROVE  \A m \in 1..Len(markers') : InBlock(m, q)' <=> m = last
  BY <1>10, <1>11
<1>15. ASSUME NEW q \in (L + 1)..N
       PROVE  q \in OursSide' <=> q \in (L + 2)..(L + 1 + A)
  <2>1. q \in OursSide' <=>
          (/\ output'[q] \notin Marks
           /\ ~MarkBetween(last, q, BaseMark)' /\ ~MarkBetween(last, q, SplitMark)')
    BY <1>10, <1>12, <1>14 DEF OursSide
  <2>2. q \in OursSide' <=>
          (/\ output'[q] \notin Marks
           /\ ~\E n \in (L + 1)..q : output'[n] = BaseMark
           /\ ~\E n \in (L + 1)..q : output'[n] = SplitMark)
    BY <1>13, <2>1
  <2>3. q \in (L + 1)..(L + A + B + C + 3)
    BY DEF N
  <2>4. BlockAt(output', L, A, B, C)
    BY <1>0
  <2> HIDE DEF N
  <2> QED BY ONLY <2>2, <2>3, <2>4, L \in Nat, A \in Nat, B \in Nat, C \in Nat, OursLines
<1>16. ASSUME NEW q \in (L + 1)..N
       PROVE  q \in TheirsSide' <=> q \in (L + A + B + 3)..(L + A + B + C + 2)
  <2>1. q \in TheirsSide' <=>
          (output'[q] \notin Marks /\ MarkBetween(last, q, SplitMark)')
    BY <1>10, <1>12, <1>14 DEF TheirsSide
  <2>2. q \in TheirsSide' <=>
          (/\ output'[q] \notin Marks
           /\ \E n \in (L + 1)..q : output'[n] = SplitMark)
    BY <1>13, <2>1
  <2>3. q \in (L + 1)..(L + A + B + C + 3)
    BY DEF N
  <2>4. BlockAt(output', L, A, B, C)
    BY <1>0
  <2> HIDE DEF N
  <2> QED BY ONLY <2>2, <2>3, <2>4, L \in Nat, A \in Nat, B \in Nat, C \in Nat, TheirsLines
<1>17. /\ OursSide \subseteq 1..L /\ TheirsSide \subseteq 1..L
       /\ OursSide' \subseteq 1..N /\ TheirsSide' \subseteq 1..N
  BY <1>0, <1>1 DEF OursSide, TheirsSide
<1>18. /\ \A q \in 1..N : q \in 1..L \/ q \in (L + 1)..N
       /\ \A q \in 1..L : q \in 1..N
       /\ \A q \in (L + 2)..(L + 1 + A) : q \in (L + 1)..N
       /\ \A q \in (L + A + B + 3)..(L + A + B + C + 2) : q \in (L + 1)..N
  BY DEF N
<1>19. \A q : q \in (L + 2)..(L + 1 + A) <=> q \in {L + 1 + k : k \in 1..A}
  <2>1. ASSUME NEW q \in (L + 2)..(L + 1 + A) PROVE q \in {L + 1 + k : k \in 1..A}
    <3>1. q - L - 1 \in 1..A /\ L + 1 + (q - L - 1) = q
      OBVIOUS
    <3> QED BY <3>1
  <2>2. ASSUME NEW k \in 1..A PROVE L + 1 + k \in (L + 2)..(L + 1 + A)
    OBVIOUS
  <2> QED BY <2>1, <2>2
<1>20. \A q : q \in (L + A + B + 3)..(L + A + B + C + 2)
                <=> q \in {L + A + B + 2 + k : k \in 1..C}
  <2>1. ASSUME NEW q \in (L + A + B + 3)..(L + A + B + C + 2)
        PROVE  q \in {L + A + B + 2 + k : k \in 1..C}
    <3>1. PICK s \in Nat : s = L + A + B + 2
      <4>1. L + A + B + 2 \in Nat
        OBVIOUS
      <4> QED BY <4>1
    <3>2. L + A + B + 3 = s + 1 /\ L + A + B + C + 2 = s + C
      BY <3>1
    <3>3. q \in (s + 1)..(s + C)
      BY <3>2
    <3>4. q - s \in 1..C /\ s + (q - s) = q
      BY ONLY <3>3, s \in Nat, C \in Nat
    <3> QED BY <3>1, <3>4
  <2>2. ASSUME NEW k \in 1..C
        PROVE  L + A + B + 2 + k \in (L + A + B + 3)..(L + A + B + C + 2)
    <3>1. PICK s \in Nat : s = L + A + B + 2
      <4>1. L + A + B + 2 \in Nat
        OBVIOUS
      <4> QED BY <4>1
    <3>2. L + A + B + 3 = s + 1 /\ L + A + B + C + 2 = s + C
      BY <3>1
    <3>3. s + k \in (s + 1)..(s + C)
      OBVIOUS
    <3> QED BY <3>1, <3>2, <3>3
  <2> QED BY <2>1, <2>2
<1>21. OursSide' = OursSide \cup {L + 1 + k : k \in 1..A}
  <2>1. \A q : q \in OursSide' <=> q \in OursSide \/ q \in (L + 2)..(L + 1 + A)
    BY <1>9, <1>15, <1>17, <1>18
  <2> QED BY <1>19, <2>1
<1>22. TheirsSide' = TheirsSide \cup {L + A + B + 2 + k : k \in 1..C}
  <2>1. \A q : q \in TheirsSide' <=>
                 q \in TheirsSide \/ q \in (L + A + B + 3)..(L + A + B + C + 2)
    BY <1>9, <1>16, <1>17, <1>18
  <2> QED BY <1>20, <2>1
<1> QED BY <1>3, <1>8, <1>21, <1>22

-----------------------------------------------------------------------------
(* What a step of the loop adds to the reading of a side.                  *)

\* A side has got c positions after position p ...
Grown(out, out2, side, side2, p, c) ==
    /\ \A q \in side : q \in Nat /\ q <= p /\ out2[q] = out[q]
    /\ side2 = side \cup {p + k : k \in 1..c}

\* ... which hold the lines of a file from line j.
HoldLines(out2, p, file, j, c) == \A k \in 1..c : out2[p + k] = file[j - 1 + k]

\* The number of the file's lines from line j to the line before j2.
LinesFrom(file, j, j2) ==
    (IF j2 - 1 < Len(file) THEN j2 - 1 ELSE Len(file)) - j + 1

\* The next lines of the file, up to the line before j2 or to its end.
LEMMA ReadingMore ==
    ASSUME NEW out, NEW out2, NEW side, NEW side2, NEW file \in Seq(Lines),
           NEW j \in Nat \ {0}, NEW j2 \in Nat, NEW c \in Nat, NEW p \in Nat,
           j <= Len(file), j < j2,
           c = LinesFrom(file, j, j2),
           Reading(out, side, file, j),
           Grown(out, out2, side, side2, p, c), HoldLines(out2, p, file, j, c)
    PROVE  Reading(out2, side2, file, j2)
<1>1. Len(file) \in Nat
  OBVIOUS
<1>2. ReadsAll(out, side, file, j - 1)
  BY <1>1 DEF Reading
<1>3. PICK n \in Nat : n = j - 1
  BY <1>1
<1>4. ReadsAll(out2, side2, file, n + c)
  <2>1. ReadsAll(out, side, file, n)
    BY <1>2, <1>3
  <2>2. \A k \in 1..c : out2[p + k] = file[n + k]
    BY <1>3 DEF HoldLines
  <2>3. /\ \A q \in side : q \in Nat /\ q <= p /\ out2[q] = out[q]
        /\ side2 = side \cup {p + k : k \in 1..c}
        /\ n \in Nat /\ c \in Nat /\ p \in Nat
    BY DEF Grown
  <2> QED BY ONLY <2>1, <2>2, <2>3, ReadsMore, ZenonT(30)
<1>5. n + c = IF j2 - 1 < Len(file) THEN j2 - 1 ELSE Len(file)
  BY <1>1, <1>3 DEF LinesFrom
<1>6. ASSUME j2 <= Len(file) + 1 PROVE ReadsAll(out2, side2, file, j2 - 1)
  <2>1. n + c = j2 - 1
    BY <1>1, <1>5, <1>6
  <2> QED BY <1>4, <2>1
<1>7. ASSUME Len(file) < j2 PROVE Reads(out2, side2, file, Len(file))
  <2>1. n + c = Len(file)
    BY <1>1, <1>5, <1>7
  <2> QED BY <1>4, <2>1, AllIsSome
<1> QED BY <1>6, <1>7 DEF Reading

\* Nothing is left of the file.
LEMMA ReadingOther ==
    ASSUME NEW out, NEW out2, NEW side, NEW side2, NEW file \in Seq(Lines),
           NEW j \in Nat, NEW j2 \in Nat, NEW p \in Nat,
           Len(file) < j, j < j2,
           Reading(out, side, file, j),
           \A q \in side : q \in Nat /\ q <= p /\ out2[q] = out[q],
           side \subseteq side2,
           \A q \in side2 \ side : q \in Nat /\ p < q
    PROVE  Reading(out2, side2, file, j2)
<1>1. Len(file) \in Nat /\ ~(j2 <= Len(file) + 1)
  OBVIOUS
<1>2. Reads(out, side, file, Len(file))
  BY DEF Reading
<1>3. Reads(out2, side2, file, Len(file))
  BY <1>1, <1>2, ReadsOther
<1> QED BY <1>1, <1>3 DEF Reading

\* Nothing is read at the first line.
LEMMA ReadingStarts ==
    ASSUME NEW out, NEW side, side = {}, NEW file \in Seq(Lines)
    PROVE  Reading(out, side, file, 1)
<1> DEFINE e == [k \in 1..0 |-> 0]
<1>1. e \in [1..0 -> side]
  OBVIOUS
<1>2. \A k \in 1..0 : FALSE
  OBVIOUS
<1> HIDE DEF e
<1>3. ReadsAll(out, side, file, 0)
  BY <1>1, <1>2 DEF ReadsAll
<1>4. Len(file) \in Nat /\ (Len(file) < 1 => Len(file) = 0) /\ 1 - 1 = 0
  OBVIOUS
<1> QED BY <1>3, <1>4, AllIsSome DEF Reading

\* The lines of the three files.
LEMMA FilesAre ==
    ASSUME MergeTypeOK
    PROVE  /\ base \in Seq(Lines) /\ ours \in Seq(Lines) /\ theirs \in Seq(Lines)
           /\ Len(base) \in Nat /\ Len(ours) \in Nat /\ Len(theirs) \in Nat
           /\ MaxLen \in Nat /\ Len(ours) <= MaxLen /\ Len(theirs) <= MaxLen
           /\ \A k \in 1..Len(ours) : ours[k] \in Lines
           /\ \A k \in 1..Len(theirs) : theirs[k] \in Lines
<1>1. /\ base \in Seq(Lines) /\ ours \in Seq(Lines) /\ theirs \in Seq(Lines)
      /\ Len(base) \in Nat /\ Len(ours) \in Nat /\ Len(theirs) \in Nat
  BY FileType DEF MergeTypeOK
<1>2. MaxLen \in Nat /\ Len(ours) <= MaxLen /\ Len(theirs) <= MaxLen
  BY <1>1 DEF MaxLen, Longest
<1> QED BY <1>1, <1>2

LEMMA SidesWithin ==
    ASSUME MergeTypeOK
    PROVE  /\ Len(output) \in Nat
           /\ OursSide \subseteq 1..Len(output) /\ TheirsSide \subseteq 1..Len(output)
           /\ \A q \in OursSide : q \in Nat /\ q <= Len(output)
           /\ \A q \in TheirsSide : q \in Nat /\ q <= Len(output)
<1>1. /\ Len(output) \in Nat
      /\ OursSide \subseteq 1..Len(output) /\ TheirsSide \subseteq 1..Len(output)
  BY DEF MergeTypeOK, OursSide, TheirsSide
<1> QED BY <1>1

\* The block that begins at a line ends after it.
LEMMA BlockEndType ==
    ASSUME MergeTypeOK, NEW a \in Nat, a <= MaxLen
    PROVE  BlockEnd(a) \in Nat /\ a < BlockEnd(a)
<1> DEFINE X == {b \in (a + 1)..(MaxLen + 1) : b = MaxLen + 1 \/ Agree(b)}
<1>1. MaxLen \in Nat
  BY FilesAre
<1>2. MaxLen + 1 \in X /\ X \subseteq Nat
  <2>1. MaxLen + 1 \in (a + 1)..(MaxLen + 1) /\ (a + 1)..(MaxLen + 1) \subseteq Nat
    BY <1>1
  <2> QED BY <2>1
<1>3. PICK b \in X : \A y \in X : b <= y
  <2>1. X # {}
    BY <1>2
  <2> HIDE DEF X
  <2> QED BY <1>2, <2>1, MinExists
<1>4. ASSUME NEW k \in (a + 1)..(b - 1) PROVE ~Agree(k)
  <2>1. k \in (a + 1)..(MaxLen + 1) /\ ~(b <= k)
    BY <1>1, <1>3
  <2> QED BY <1>3, <2>1
<1>5. \E c \in (a + 1)..(MaxLen + 1) :
        /\ c = MaxLen + 1 \/ Agree(c)
        /\ \A k \in (a + 1)..(c - 1) : ~Agree(k)
  BY <1>3, <1>4
<1>6. BlockEnd(a) \in (a + 1)..(MaxLen + 1)
  BY <1>5 DEF BlockEnd
<1> QED BY <1>1, <1>6

-----------------------------------------------------------------------------
(* A clean merge.                                                          *)

LEMMA LinesOfConcat ==
    ASSUME NEW S, NEW s \in Seq(S), NEW t \in Seq(S)
    PROVE  /\ LinesOf(s) \subseteq LinesOf(s \o t)
           /\ LinesOf(t) \subseteq LinesOf(s \o t)
<1>1. PICK o : o = s \o t
  OBVIOUS
<1>2. /\ Len(s) \in Nat /\ Len(t) \in Nat /\ Len(o) = Len(s) + Len(t)
      /\ \A k \in 1..Len(s) : o[k] = s[k]
      /\ \A k \in 1..Len(t) : o[Len(s) + k] = t[k]
  BY <1>1, ConcatKeeps
<1>3. /\ \A k \in 1..Len(s) : k \in 1..Len(o)
      /\ \A k \in 1..Len(t) : Len(s) + k \in 1..Len(o)
  BY <1>2
<1>4. ASSUME NEW k \in 1..Len(s) PROVE s[k] \in LinesOf(o)
  BY <1>2, <1>3 DEF LinesOf
<1>5. ASSUME NEW k \in 1..Len(t) PROVE t[k] \in LinesOf(o)
  BY <1>2, <1>3 DEF LinesOf
<1> QED BY <1>1, <1>4, <1>5 DEF LinesOf

\* An applied patch brings its side's lines and leaves the image's.
LEMMA AppliedLines ==
    ASSUME base \in Seq(Lines), NEW new \in Seq(Lines), NEW image \in Seq(Lines),
           NEW k \in Offsets(image)
    PROVE  /\ Applied(new, image, k) \in Seq(Lines)
           /\ LinesOf(new) \subseteq LinesOf(Applied(new, image, k))
           /\ LinesOf(image) \ LinesOf(base) \subseteq LinesOf(Applied(new, image, k))
<1> DEFINE h == SubSeq(image, 1, k)
           m == SubSeq(image, k + 1, k + Len(base))
           t == SubSeq(image, k + Len(base) + 1, Len(image))
           N == Len(image)
           B == Len(base)
<1>1. /\ N \in Nat /\ B \in Nat /\ k \in Nat /\ k + B <= N /\ m = base
  BY DEF Offsets
<1>2. /\ h \in Seq(Lines) /\ Len(h) = k /\ \A j \in 1..k : h[j] = image[j]
  BY <1>1
<1>3. \A j \in 1..B : base[j] = image[k + j]
  <2>1. \A j \in 1..B : m[j] = image[(k + 1) + j - 1] /\ (k + 1) + j - 1 = k + j
    BY <1>1
  <2> QED BY <1>1, <2>1
<1>4. /\ t \in Seq(Lines) /\ Len(t) = N - (k + B)
      /\ \A j \in 1..(N - (k + B)) : t[j] = image[k + B + j]
  <2>1. PICK s \in Nat : s = k + B
    BY <1>1
  <2>2. PICK t2 : t2 = SubSeq(image, s + 1, N)
    OBVIOUS
  <2>3. /\ t2 \in Seq(Lines) /\ Len(t2) = N - s
        /\ \A j \in 1..(N - s) : t2[j] = image[s + j]
    <3>1. /\ t2 \in Seq(Lines) /\ Len(t2) = N - (s + 1) + 1
          /\ \A j \in 1..(N - (s + 1) + 1) : t2[j] = image[(s + 1) + j - 1]
      BY <1>1, <2>1, <2>2
    <3>2. N - (s + 1) + 1 = N - s /\ \A j \in 1..(N - s) : (s + 1) + j - 1 = s + j
      BY <1>1
    <3> QED BY <3>1, <3>2
  <2> QED BY <2>1, <2>2, <2>3
<1> HIDE DEF h, m, t, N, B
<1>5. h \o new \in Seq(Lines) /\ LinesOf(h) \subseteq LinesOf(h \o new)
        /\ LinesOf(new) \subseteq LinesOf(h \o new)
  BY <1>2, LinesOfConcat, ConcatKeeps
<1>6. PICK a : a = Applied(new, image, k)
  OBVIOUS
<1>7. a = (h \o new) \o t
  BY <1>6 DEF Applied, h, t
<1>8. a \in Seq(Lines) /\ LinesOf(h \o new) \subseteq LinesOf(a)
        /\ LinesOf(t) \subseteq LinesOf(a)
  BY <1>4, <1>5, <1>7, LinesOfConcat, ConcatKeeps
<1>9. ASSUME NEW q \in 1..N, image[q] \notin LinesOf(base)
      PROVE  image[q] \in LinesOf(a)
  <2>1. CASE q \in 1..k
    <3>1. image[q] \in LinesOf(h)
      BY <1>2, <2>1 DEF LinesOf
    <3> QED BY <1>5, <1>8, <3>1
  <2>2. CASE q \in (k + 1)..(k + B)
    <3>1. q - k \in 1..B /\ k + (q - k) = q
      BY <1>1, <2>2
    <3>2. base[q - k] = image[q]
      BY <1>3, <3>1
    <3>3. image[q] \in LinesOf(base)
      BY <3>1, <3>2 DEF LinesOf, B
    <3> QED BY <1>9, <3>3
  <2>3. CASE q \in (k + B + 1)..N
    <3>1. q - (k + B) \in 1..(N - (k + B)) /\ k + B + (q - (k + B)) = q
      BY <1>1, <2>3
    <3>2. t[q - (k + B)] = image[q]
      BY <1>4, <3>1
    <3>3. image[q] \in LinesOf(t)
      BY <1>4, <3>1, <3>2 DEF LinesOf
    <3> QED BY <1>8, <3>3
  <2>4. q \in 1..k \/ q \in (k + 1)..(k + B) \/ q \in (k + B + 1)..N
    BY <1>1
  <2> QED BY <2>1, <2>2, <2>3, <2>4
<1>10. LinesOf(image) \ LinesOf(base) \subseteq LinesOf(a)
  BY <1>9 DEF LinesOf, N
<1> QED BY <1>5, <1>6, <1>8, <1>10

-----------------------------------------------------------------------------
(* The steps.                                                              *)

\* A step of the loop keeps what does not depend on the output.
LEMMA LoopStep ==
    ASSUME MergeInv, step = "scan",
           UNCHANGED <<base, ours, theirs, step, conflicted>>,
           i' \in Nat \ {0}, output' \in Seq(Outputs), markers' \in Seq(Place),
           MarkersLocateBlocks',
           Reading(output', OursSide', ours, i'), Reading(output', TheirsSide', theirs, i')
    PROVE  MergeInv'
<1>1. MergeTypeOK' /\ ~conflicted /\ step' = "scan" /\ ~conflicted'
  BY DEF MergeInv, MergeTypeOK, DecidedOK
<1>2. DecidedOK'
  <2>1. CanAutoMerge' <=> CanAutoMerge
    BY DEF CanAutoMerge, Applies, Offsets
  <2>2. ~CanAutoMerge
    BY DEF MergeInv, DecidedOK
  <2> QED BY <1>1, <2>1, <2>2 DEF DecidedOK
<1>3. BothRead'
  BY DEF BothRead
<1>4. CleanSurvive'
  BY <1>1 DEF CleanSurvive, AddedLinesSurvive
<1> QED BY <1>1, <1>2, <1>3, <1>4 DEF MergeInv

\* A line that is kept for a side whose file it belongs to, or for a side that
\* has been read to its end.
LEMMA OneLine ==
    ASSUME MergeTypeOK, NEW out2, NEW side, NEW side2, NEW file \in Seq(Lines),
           Reading(output, side, file, i),
           \A q \in side : q \in Nat /\ q <= Len(output),
           \A k \in 1..Len(output) : out2[k] = output[k],
           side \subseteq 1..Len(output),
           side2 = side \cup {Len(output) + k : k \in 1..1},
           i <= Len(file) => out2[Len(output) + 1] = file[i]
    PROVE  Reading(out2, side2, file, i + 1)
<1>1. PICK p \in Nat : p = Len(output)
  BY DEF MergeTypeOK
<1>2. i \in Nat \ {0} /\ i + 1 \in Nat /\ i < i + 1 /\ Len(file) \in Nat
  BY DEF MergeTypeOK
<1>3. /\ \A q \in side : q \in Nat /\ q <= p /\ out2[q] = output[q]
      /\ side2 = side \cup {p + k : k \in 1..1}
  BY <1>1
<1>4. CASE i <= Len(file)
  <2>1. 1 = (IF (i + 1) - 1 < Len(file) THEN (i + 1) - 1 ELSE Len(file)) - i + 1
    BY <1>2, <1>4
  <2>2. \A k \in 1..1 : out2[p + k] = file[i - 1 + k]
    <3>1. \A k \in 1..1 : k = 1 /\ i - 1 + k = i
      BY <1>2
    <3> QED BY <1>1, <1>4, <3>1
  <2>3. \A j2, c : j2 = i + 1 /\ c = 1 => Reading(out2, side2, file, j2)
    <3> SUFFICES ASSUME NEW j2, NEW c, j2 = i + 1, c = 1
                 PROVE  Reading(out2, side2, file, j2)
      OBVIOUS
    <3>1. /\ c = LinesFrom(file, i, j2)
          /\ j2 \in Nat /\ c \in Nat /\ i < j2
          /\ Grown(output, out2, side, side2, p, c) /\ HoldLines(out2, p, file, i, c)
      BY <1>2, <1>3, <2>1, <2>2 DEF Grown, HoldLines, LinesFrom
    <3>2. Reading(output, side, file, i) /\ file \in Seq(Lines)
      OBVIOUS
    <3> QED BY ONLY <1>2, <1>4, <3>1, <3>2, p \in Nat, ReadingMore, ZenonT(30)
  <2> QED BY <2>3
<1>5. CASE ~(i <= Len(file))
  <2>1. Len(file) < i
    BY <1>2, <1>5
  <2>2. \A q \in side2 \ side : q \in Nat /\ p < q
    BY <1>3
  <2>3. side \subseteq side2 /\ Reading(output, side, file, i) /\ file \in Seq(Lines)
    BY <1>3
  <2> QED BY ONLY <1>2, <1>3, <2>1, <2>2, <2>3, p \in Nat, ReadingOther, ZenonT(30)
<1> QED BY <1>4, <1>5

\* A line of a file is kept.
LEMMA KeptLineStep ==
    ASSUME MergeInv, step = "scan", NEW x \in Lines, KeepLine(x),
           i <= Len(ours) => x = ours[i], i <= Len(theirs) => x = theirs[i]
    PROVE  MergeInv'
<1>1. /\ MergeTypeOK /\ MarkersLocateBlocks
      /\ Reading(output, OursSide, ours, i) /\ Reading(output, TheirsSide, theirs, i)
  BY DEF MergeInv, BothRead
<1>2. /\ output' = Append(output, x) /\ markers' = markers /\ i' = i + 1
      /\ UNCHANGED <<base, ours, theirs, step, conflicted>>
  BY DEF KeepLine
<1>3. /\ OursSide' = OursSide \cup {Len(output) + k : k \in 1..1}
      /\ TheirsSide' = TheirsSide \cup {Len(output) + k : k \in 1..1}
      /\ MarkersLocateBlocks' /\ output' \in Seq(Outputs)
      /\ \A k \in 1..Len(output) : output'[k] = output[k]
      /\ output'[Len(output) + 1] = x
  BY <1>1, <1>2, LineSides
<1>4. PICK out2, os, ts : out2 = output' /\ os = OursSide' /\ ts = TheirsSide'
  OBVIOUS
<1>5. Reading(out2, os, ours, i + 1)
  <2>1. /\ ours \in Seq(Lines) /\ OursSide \subseteq 1..Len(output)
        /\ \A q \in OursSide : q \in Nat /\ q <= Len(output)
    BY <1>1, FilesAre, SidesWithin
  <2>2. /\ \A k \in 1..Len(output) : out2[k] = output[k]
        /\ os = OursSide \cup {Len(output) + k : k \in 1..1}
        /\ i <= Len(ours) => out2[Len(output) + 1] = ours[i]
    BY <1>3, <1>4
  <2> QED BY ONLY <1>1, <2>1, <2>2, OneLine, ZenonT(30)
<1>6. Reading(out2, ts, theirs, i + 1)
  <2>1. /\ theirs \in Seq(Lines) /\ TheirsSide \subseteq 1..Len(output)
        /\ \A q \in TheirsSide : q \in Nat /\ q <= Len(output)
    BY <1>1, FilesAre, SidesWithin
  <2>2. /\ \A k \in 1..Len(output) : out2[k] = output[k]
        /\ ts = TheirsSide \cup {Len(output) + k : k \in 1..1}
        /\ i <= Len(theirs) => out2[Len(output) + 1] = theirs[i]
    BY <1>3, <1>4
  <2> QED BY ONLY <1>1, <2>1, <2>2, OneLine, ZenonT(30)
<1>7. /\ Reading(output', OursSide', ours, i')
      /\ Reading(output', TheirsSide', theirs, i')
  BY <1>2, <1>4, <1>5, <1>6
<1>8. i' \in Nat \ {0} /\ markers' \in Seq(Place)
  BY <1>1, <1>2 DEF MergeTypeOK
<1> QED BY <1>2, <1>3, <1>7, <1>8, LoopStep

\* A block takes its lines of a side from the side's file.
LEMMA BlockSide ==
    ASSUME MergeTypeOK, NEW out2, NEW side, NEW side2, NEW file \in Seq(Lines),
           NEW b \in Nat, i < b, i <= Len(file),
           Reading(output, side, file, i),
           \A q \in side : q \in Nat /\ q <= Len(output),
           side \subseteq 1..Len(output),
           \A k \in 1..Len(output) : out2[k] = output[k],
           NEW p \in Nat, Len(output) <= p, NEW c \in Nat,
           c = Len(Span(file, i, b)),
           side2 = side \cup {p + k : k \in 1..c},
           \A k \in 1..c : out2[p + k] = Span(file, i, b)[k]
    PROVE  Reading(out2, side2, file, b)
<1>1. i \in Nat \ {0} /\ Len(output) \in Nat
  BY DEF MergeTypeOK
<1>2. PICK a \in Nat \ {0} : a = i
  BY <1>1
<1>3. LET z == IF b - 1 < Len(file) THEN b - 1 ELSE Len(file) IN
      /\ Len(Span(file, a, b)) = z - a + 1
      /\ \A k \in 1..(z - a + 1) : Span(file, a, b)[k] = file[a - 1 + k]
  <2>1. a < b /\ a <= Len(file)
    BY <1>2
  <2> QED BY <2>1, SpanType
<1>4. /\ c = (IF b - 1 < Len(file) THEN b - 1 ELSE Len(file)) - a + 1
      /\ \A k \in 1..c : out2[p + k] = file[a - 1 + k]
  BY <1>2, <1>3
<1>5. \A q \in side : q \in Nat /\ q <= p /\ out2[q] = output[q]
  BY <1>1
<1>6. /\ Reading(output, side, file, a) /\ file \in Seq(Lines)
      /\ a <= Len(file) /\ a < b
      /\ Grown(output, out2, side, side2, p, c) /\ HoldLines(out2, p, file, a, c)
      /\ c = LinesFrom(file, a, b)
  BY <1>2, <1>4, <1>5 DEF Grown, HoldLines, LinesFrom
<1> QED BY ONLY <1>6, p \in Nat, c \in Nat, b \in Nat, a \in Nat \ {0},
                ReadingMore, ZenonT(30)

\* Both sides differ from the loop's line to the line before the block's end.
LEMMA WriteBlockStep ==
    ASSUME MergeInv, WriteBlock
    PROVE  MergeInv'
<1>1. /\ MergeTypeOK /\ MarkersLocateBlocks /\ step = "scan"
      /\ Reading(output, OursSide, ours, i) /\ Reading(output, TheirsSide, theirs, i)
  BY DEF MergeInv, BothRead, WriteBlock, Scanning
<1>2. PICK a \in Nat \ {0}, b \in Nat, L \in Nat :
        a = i /\ b = BlockEnd(i) /\ L = Len(output) /\ a < b
  <2>1. i \in Nat \ {0} /\ i <= MaxLen /\ Len(output) \in Nat
    BY <1>1 DEF WriteBlock, Scanning, MergeTypeOK
  <2> QED BY <1>1, <2>1, BlockEndType
<1>3. /\ a <= Len(ours) /\ a <= Len(theirs)
      /\ output' = output \o Block(a, b)
      /\ markers' = Append(markers, [start |-> Len(output) + 1, end |-> Len(output')])
      /\ i' = b /\ UNCHANGED <<base, ours, theirs, step, conflicted>>
  BY <1>2 DEF WriteBlock, FirstLineOfBlock
<1>4. PICK x, y, z, block :
        x = Span(ours, a, b) /\ y = BaseBlock(a, b) /\ z = Span(theirs, a, b)
          /\ block = Block(a, b)
  OBVIOUS
<1>5. /\ x \in Seq(Lines) /\ z \in Seq(Lines) /\ y \in Seq(Outputs)
      /\ BasePart(y)
      /\ BlockShape(block, x, y, z)
  BY <1>1, <1>4, BlockType DEF BasePart
<1>6. PICK A \in Nat, B \in Nat, C \in Nat : A = Len(x) /\ B = Len(y) /\ C = Len(z)
  BY <1>5
<1>7. PICK out2 : out2 = output'
  OBVIOUS
<1>8. /\ Written(output, out2, L, A, B, C)
      /\ StandsAt(out2, L + 1, x) /\ StandsAt(out2, L + A + B + 2, z)
  <2>1. output \in Seq(Outputs) /\ out2 = output \o block /\ L = Len(output)
    BY <1>1, <1>2, <1>3, <1>4, <1>7 DEF MergeTypeOK
  <2>2. /\ Written(output, output \o block, L, A, B, C)
        /\ StandsAt(output \o block, L + 1, x)
        /\ StandsAt(output \o block, L + A + B + 2, z)
    BY ONLY <1>5, <1>6, <2>1, L \in Nat, A \in Nat, B \in Nat, C \in Nat,
            BlockAppended, ZenonT(30)
  <2> QED BY <2>1, <2>2
<1>9. /\ OursSide' = OursSide \cup {L + 1 + k : k \in 1..A}
      /\ TheirsSide' = TheirsSide \cup {L + A + B + 2 + k : k \in 1..C}
      /\ MarkersLocateBlocks' /\ markers' \in Seq(Place)
  <2>1. /\ Written(output, output', L, A, B, C)
        /\ markers' = Append(markers, [start |-> L + 1, end |-> L + A + B + C + 3])
    BY <1>2, <1>3, <1>7, <1>8 DEF Written
  <2> QED BY ONLY <1>1, <2>1, L \in Nat, A \in Nat, B \in Nat, C \in Nat,
                  BlockSides, ZenonT(30)
<1>10. PICK os, ts : os = OursSide' /\ ts = TheirsSide'
  OBVIOUS
<1>11. /\ ours \in Seq(Lines) /\ theirs \in Seq(Lines)
       /\ OursSide \subseteq 1..Len(output) /\ TheirsSide \subseteq 1..Len(output)
       /\ \A q \in OursSide : q \in Nat /\ q <= Len(output)
       /\ \A q \in TheirsSide : q \in Nat /\ q <= Len(output)
  BY <1>1, FilesAre, SidesWithin
<1>12. Reading(out2, os, ours, b)
  <2>1. PICK p \in Nat : p = L + 1
    OBVIOUS
  <2>2. /\ i < b /\ i <= Len(ours) /\ Len(output) <= p
        /\ \A k \in 1..Len(output) : out2[k] = output[k]
        /\ A = Len(Span(ours, i, b)) /\ os = OursSide \cup {p + k : k \in 1..A}
        /\ \A k \in 1..A : out2[p + k] = Span(ours, i, b)[k]
    BY <1>2, <1>3, <1>4, <1>6, <1>8, <1>9, <1>10, <2>1 DEF Written, StandsAt
  <2> QED BY ONLY <1>1, <1>11, <2>2, p \in Nat, A \in Nat, b \in Nat,
                  BlockSide, ZenonT(30)
<1>13. Reading(out2, ts, theirs, b)
  <2>1. PICK p \in Nat : p = L + A + B + 2
    <3>1. L + A + B + 2 \in Nat
      OBVIOUS
    <3> QED BY <3>1
  <2>2. /\ i < b /\ i <= Len(theirs) /\ Len(output) <= p
        /\ \A k \in 1..Len(output) : out2[k] = output[k]
        /\ C = Len(Span(theirs, i, b)) /\ ts = TheirsSide \cup {p + k : k \in 1..C}
        /\ \A k \in 1..C : out2[p + k] = Span(theirs, i, b)[k]
    BY <1>2, <1>3, <1>4, <1>6, <1>8, <1>9, <1>10, <2>1 DEF Written, StandsAt
  <2> QED BY ONLY <1>1, <1>11, <2>2, p \in Nat, C \in Nat, b \in Nat,
                  BlockSide, ZenonT(30)
<1>14. /\ Reading(output', OursSide', ours, i')
       /\ Reading(output', TheirsSide', theirs, i')
  BY <1>3, <1>7, <1>10, <1>12, <1>13
<1>15. i' \in Nat \ {0} /\ output' \in Seq(Outputs)
  BY <1>2, <1>3, <1>7, <1>8 DEF Written
<1> QED BY <1>1, <1>3, <1>9, <1>14, <1>15, LoopStep

\* Lines of neither side are passed over.
LEMMA SkipStep ==
    ASSUME MergeInv, SkipBaseOnly
    PROVE  MergeInv'
<1>1. /\ MergeTypeOK /\ MarkersLocateBlocks /\ step = "scan"
      /\ Reading(output, OursSide, ours, i) /\ Reading(output, TheirsSide, theirs, i)
  BY DEF MergeInv, BothRead, SkipBaseOnly, Scanning
<1>2. /\ i' = i + 1 /\ i > Len(ours) /\ i > Len(theirs)
      /\ UNCHANGED <<base, ours, theirs, step, output, markers, conflicted>>
  BY DEF SkipBaseOnly
<1>3. OursSide' = OursSide /\ TheirsSide' = TheirsSide /\ MarkersLocateBlocks'
  BY <1>1, <1>2 DEF OursSide, TheirsSide, InBlock, MarkBetween, MarkersLocateBlocks
<1>4. i \in Nat \ {0} /\ Len(ours) \in Nat /\ Len(theirs) \in Nat
  BY <1>1, FilesAre DEF MergeTypeOK
<1>5. /\ Len(ours) < i /\ Len(ours) < i + 1 /\ ~(i + 1 <= Len(ours) + 1)
      /\ Len(theirs) < i /\ Len(theirs) < i + 1 /\ ~(i + 1 <= Len(theirs) + 1)
  BY <1>2, <1>4
<1>6. /\ Reading(output, OursSide, ours, i + 1)
      /\ Reading(output, TheirsSide, theirs, i + 1)
  BY <1>1, <1>5 DEF Reading
<1>7. /\ i' \in Nat \ {0} /\ output' \in Seq(Outputs) /\ markers' \in Seq(Place)
  BY <1>1, <1>2, <1>4 DEF MergeTypeOK
<1>8. /\ Reading(output', OursSide', ours, i')
      /\ Reading(output', TheirsSide', theirs, i')
  BY <1>2, <1>3, <1>6
<1> QED BY <1>1, <1>2, <1>3, <1>7, <1>8, LoopStep

\* A clean merge of lines that keeps what the sides added.
LEMMA CleanStep ==
    ASSUME MergeInv, step = "start", CanAutoMerge, NEW content \in Seq(Lines),
           CleanMerge(content),
           (LinesOf(ours) \cup LinesOf(theirs)) \ LinesOf(base) \subseteq LinesOf(content)
    PROVE  MergeInv'
<1>1. /\ MergeTypeOK /\ markers = <<>> /\ ~conflicted
      /\ output' = content /\ step' = "done"
      /\ UNCHANGED <<base, ours, theirs, i, markers, conflicted>>
  BY DEF MergeInv, DecidedOK, CleanMerge
<1>2. \A k \in 1..Len(content) : content[k] \in Lines
  OBVIOUS
<1>3. content \in Seq(Outputs)
  <2>1. Lines \subseteq Outputs
    BY MarksDiffer
  <2> QED BY <2>1
<1>4. MergeTypeOK'
  BY <1>1, <1>3 DEF MergeTypeOK
<1>5. DecidedOK'
  <2>1. CanAutoMerge' <=> CanAutoMerge
    BY <1>1 DEF CanAutoMerge, Applies, Offsets
  <2> QED BY <1>1, <2>1 DEF DecidedOK
<1>6. MarkersLocateBlocks'
  <2>1. Len(markers') = 0 /\ \A m \in 1..0 : FALSE
    BY <1>1
  <2>2. \A k \in 1..Len(output') : output'[k] \notin Marks
    BY <1>1, <1>2, MarksDiffer
  <2> QED BY <2>1, <2>2 DEF MarkersLocateBlocks
<1>7. BothRead'
  BY <1>1 DEF BothRead
<1>8. CleanSurvive'
  <2>1. LinesOf(ours)' = LinesOf(ours) /\ LinesOf(theirs)' = LinesOf(theirs)
          /\ LinesOf(base)' = LinesOf(base) /\ LinesOf(output)' = LinesOf(content)
    BY <1>1 DEF LinesOf
  <2> QED BY <2>1 DEF CleanSurvive, AddedLinesSurvive
<1> QED BY <1>4, <1>5, <1>6, <1>7, <1>8 DEF MergeInv

LEMMA FastPathStep ==
    ASSUME MergeInv, FastPath
    PROVE  MergeInv'
<1>1. ours \in Seq(Lines) /\ theirs \in Seq(Lines)
  BY FilesAre DEF MergeInv
<1>2. step = "start"
  BY DEF FastPath
<1>3. CASE ours = base /\ CleanMerge(theirs)
  <2>1. /\ CanAutoMerge
        /\ (LinesOf(ours) \cup LinesOf(theirs)) \ LinesOf(base) \subseteq LinesOf(theirs)
    BY <1>3 DEF CanAutoMerge
  <2> QED BY <1>1, <1>2, <1>3, <2>1, CleanStep
<1>4. CASE theirs = base /\ CleanMerge(ours)
  <2>1. /\ CanAutoMerge
        /\ (LinesOf(ours) \cup LinesOf(theirs)) \ LinesOf(base) \subseteq LinesOf(ours)
    BY <1>4 DEF CanAutoMerge
  <2> QED BY <1>1, <1>2, <1>4, <2>1, CleanStep
<1>5. CASE ours = theirs /\ CleanMerge(ours)
  <2>1. /\ CanAutoMerge
        /\ (LinesOf(ours) \cup LinesOf(theirs)) \ LinesOf(base) \subseteq LinesOf(ours)
    BY <1>5 DEF CanAutoMerge
  <2> QED BY <1>1, <1>2, <1>5, <2>1, CleanStep
<1> QED BY <1>3, <1>4, <1>5 DEF FastPath

\* One side's patch applies to the other side.
LEMMA ApplyStep ==
    ASSUME MergeInv, ApplyTheirs \/ ApplyOurs
    PROVE  MergeInv'
<1>1. base \in Seq(Lines) /\ ours \in Seq(Lines) /\ theirs \in Seq(Lines)
  BY FilesAre DEF MergeInv
<1>2. step = "start"
  BY DEF ApplyTheirs, ApplyOurs
<1>3. CASE ApplyTheirs
  <2>1. PICK k \in Offsets(ours) : CleanMerge(Applied(theirs, ours, k))
    BY <1>3 DEF ApplyTheirs
  <2>2. PICK a : a = Applied(theirs, ours, k)
    OBVIOUS
  <2>3. /\ a \in Seq(Lines) /\ LinesOf(theirs) \subseteq LinesOf(a)
        /\ LinesOf(ours) \ LinesOf(base) \subseteq LinesOf(a)
    BY <1>1, <2>2, AppliedLines
  <2>4. CanAutoMerge
    BY DEF CanAutoMerge, Applies
  <2>5. (LinesOf(ours) \cup LinesOf(theirs)) \ LinesOf(base) \subseteq LinesOf(a)
    BY <2>3
  <2> QED BY <1>2, <2>1, <2>2, <2>3, <2>4, <2>5, CleanStep
<1>4. CASE ApplyOurs
  <2>1. PICK k \in Offsets(theirs) : CleanMerge(Applied(ours, theirs, k))
    BY <1>4 DEF ApplyOurs
  <2>2. PICK a : a = Applied(ours, theirs, k)
    OBVIOUS
  <2>3. /\ a \in Seq(Lines) /\ LinesOf(ours) \subseteq LinesOf(a)
        /\ LinesOf(theirs) \ LinesOf(base) \subseteq LinesOf(a)
    BY <1>1, <2>2, AppliedLines
  <2>4. CanAutoMerge
    BY DEF CanAutoMerge, Applies
  <2>5. (LinesOf(ours) \cup LinesOf(theirs)) \ LinesOf(base) \subseteq LinesOf(a)
    BY <2>3
  <2> QED BY <1>2, <2>1, <2>2, <2>3, <2>4, <2>5, CleanStep
<1> QED BY <1>3, <1>4

\* The loop begins with nothing read.
LEMMA BothPatchesFailStep ==
    ASSUME MergeInv, BothPatchesFail
    PROVE  MergeInv'
<1>1. /\ MergeTypeOK /\ output = <<>> /\ markers = <<>> /\ i = 1 /\ ~conflicted
      /\ ~CanAutoMerge /\ step' = "scan" /\ MarkersLocateBlocks
      /\ UNCHANGED <<base, ours, theirs, i, output, markers, conflicted>>
  BY DEF MergeInv, DecidedOK, BothPatchesFail, BothChanged, CanAutoMerge
<1>2. MergeTypeOK'
  BY <1>1 DEF MergeTypeOK
<1>3. DecidedOK'
  <2>1. CanAutoMerge' <=> CanAutoMerge
    BY <1>1 DEF CanAutoMerge, Applies, Offsets
  <2> QED BY <1>1, <2>1 DEF DecidedOK
<1>4. MarkersLocateBlocks'
  BY <1>1 DEF MarkersLocateBlocks
<1>5. BothRead'
  <2>1. OursSide' = {} /\ TheirsSide' = {}
    BY <1>1 DEF OursSide, TheirsSide
  <2>2. ours \in Seq(Lines) /\ theirs \in Seq(Lines)
    BY <1>1, FilesAre
  <2>3. /\ Reading(output', OursSide', ours, 1)
        /\ Reading(output', TheirsSide', theirs, 1)
    BY <2>1, <2>2, ReadingStarts
  <2> QED BY <1>1, <2>3 DEF BothRead
<1>6. CleanSurvive'
  BY <1>1 DEF CleanSurvive, AddedLinesSurvive
<1> QED BY <1>2, <1>3, <1>4, <1>5, <1>6 DEF MergeInv

LEMMA FinishMarkersStep ==
    ASSUME MergeInv, FinishMarkers
    PROVE  MergeInv'
<1>1. /\ MergeTypeOK /\ step = "scan" /\ i > MaxLen /\ ~CanAutoMerge
      /\ conflicted' = TRUE /\ step' = "done" /\ MarkersLocateBlocks
      /\ UNCHANGED <<base, ours, theirs, i, output, markers>>
      /\ Reading(output, OursSide, ours, i) /\ Reading(output, TheirsSide, theirs, i)
  BY DEF MergeInv, DecidedOK, FinishMarkers, BothRead
<1>2. MergeTypeOK'
  BY <1>1 DEF MergeTypeOK
<1>3. DecidedOK'
  <2>1. (CanAutoMerge' <=> CanAutoMerge) /\ MaxLen' = MaxLen
    BY <1>1 DEF CanAutoMerge, Applies, Offsets, MaxLen
  <2> QED BY <1>1, <2>1 DEF DecidedOK
<1>4. /\ MarkersLocateBlocks' /\ OursSide' = OursSide /\ TheirsSide' = TheirsSide
  BY <1>1 DEF MarkersLocateBlocks, OursSide, TheirsSide, InBlock, MarkBetween
<1>5. BothRead'
  BY <1>1, <1>4 DEF BothRead
<1>6. CleanSurvive'
  BY <1>1 DEF CleanSurvive
<1> QED BY <1>2, <1>3, <1>4, <1>5, <1>6 DEF MergeInv

\* The three steps that keep a line.
LEMMA KeepSteps ==
    ASSUME MergeInv, KeepCommonLine \/ KeepOursOnly \/ KeepTheirsOnly
    PROVE  MergeInv'
<1>1. /\ i \in Nat \ {0} /\ step = "scan"
      /\ Len(ours) \in Nat /\ Len(theirs) \in Nat
      /\ \A k \in 1..Len(ours) : ours[k] \in Lines
      /\ \A k \in 1..Len(theirs) : theirs[k] \in Lines
  BY FilesAre DEF MergeInv, MergeTypeOK, KeepCommonLine, KeepOursOnly,
                  KeepTheirsOnly, Scanning
<1>2. CASE KeepCommonLine
  <2>1. i <= Len(ours) /\ i <= Len(theirs) /\ Agree(i) /\ KeepLine(ours[i])
    BY <1>2 DEF KeepCommonLine
  <2>2. i \in 1..Len(ours) /\ i \in 1..Len(theirs)
    BY <1>1, <2>1
  <2>3. ours[i] \in Lines /\ ours[i] = theirs[i]
    BY <1>1, <2>1, <2>2 DEF Agree, LineAt
  <2> QED BY <1>1, <2>1, <2>3, KeptLineStep
<1>3. CASE KeepOursOnly
  <2>1. i <= Len(ours) /\ i > Len(theirs) /\ KeepLine(ours[i])
    BY <1>3 DEF KeepOursOnly
  <2>2. i \in 1..Len(ours) /\ ~(i <= Len(theirs))
    BY <1>1, <2>1
  <2> QED BY <1>1, <2>1, <2>2, KeptLineStep
<1>4. CASE KeepTheirsOnly
  <2>1. i > Len(ours) /\ i <= Len(theirs) /\ KeepLine(theirs[i])
    BY <1>4 DEF KeepTheirsOnly
  <2>2. i \in 1..Len(theirs) /\ ~(i <= Len(ours))
    BY <1>1, <2>1
  <2> QED BY <1>1, <2>1, <2>2, KeptLineStep
<1> QED BY <1>2, <1>3, <1>4

-----------------------------------------------------------------------------
(* The theorems.                                                           *)

LEMMA MergeInvStarts ==
    ASSUME MergeInit
    PROVE  MergeInv
<1>1. MergeTypeOK
  <2>1. <<>> \in Seq(Outputs) /\ <<>> \in Seq(Place)
    OBVIOUS
  <2>2. base \in Files /\ ours \in Files /\ theirs \in Files
    BY DEF MergeInit
  <2>3. /\ step \in {"start", "scan", "done"} /\ i \in Nat \ {0}
        /\ conflicted \in BOOLEAN
    <3>1. step \in {"start", "scan", "done"}
      BY DEF MergeInit
    <3>2. i = 1
      BY DEF MergeInit
    <3>3. i \in Nat \ {0}
      BY <3>2
    <3>4. conflicted \in BOOLEAN
      BY Zenon DEF MergeInit
    <3> QED BY <3>1, <3>3, <3>4
  <2>4. output \in Seq(Outputs) /\ markers \in Seq(Place)
    BY <2>1 DEF MergeInit
  <2> QED BY <2>2, <2>3, <2>4 DEF MergeTypeOK
<1>2. DecidedOK
  BY DEF MergeInit, DecidedOK
<1>3. MarkersLocateBlocks
  <2>1. Len(markers) = 0 /\ Len(output) = 0 /\ \A k \in 1..0 : FALSE
    BY DEF MergeInit
  <2> QED BY <2>1 DEF MarkersLocateBlocks
<1>4. BothRead /\ CleanSurvive
  BY DEF MergeInit, BothRead, CleanSurvive, AddedLinesSurvive
<1> QED BY <1>1, <1>2, <1>3, <1>4 DEF MergeInv

LEMMA MergeInvKept ==
    ASSUME MergeInv, [MergeNext]_mergeVars
    PROVE  MergeInv'
<1>1. CASE FastPath
  BY <1>1, FastPathStep
<1>2. CASE ApplyTheirs \/ ApplyOurs
  BY <1>2, ApplyStep
<1>3. CASE BothPatchesFail
  BY <1>3, BothPatchesFailStep
<1>4. CASE KeepCommonLine \/ KeepOursOnly \/ KeepTheirsOnly
  BY <1>4, KeepSteps
<1>5. CASE WriteBlock
  BY <1>5, WriteBlockStep
<1>6. CASE SkipBaseOnly
  BY <1>6, SkipStep
<1>7. CASE FinishMarkers
  BY <1>7, FinishMarkersStep
<1>8. CASE UNCHANGED mergeVars
  <2>1. UNCHANGED <<base, ours, theirs, step, i, output, markers, conflicted>>
    BY <1>8 DEF mergeVars
  <2>2. MergeTypeOK'
    BY <2>1 DEF MergeInv, MergeTypeOK
  <2>3. DecidedOK'
    <3>1. (CanAutoMerge' <=> CanAutoMerge) /\ MaxLen' = MaxLen
      BY <2>1 DEF CanAutoMerge, Applies, Offsets, MaxLen
    <3> QED BY <2>1, <3>1 DEF MergeInv, DecidedOK
  <2>4. /\ MarkersLocateBlocks' /\ OursSide' = OursSide /\ TheirsSide' = TheirsSide
    BY <2>1 DEF MergeInv, MarkersLocateBlocks, OursSide, TheirsSide, InBlock, MarkBetween
  <2>5. BothRead'
    BY <2>1, <2>4 DEF MergeInv, BothRead
  <2>6. CleanSurvive'
    <3>1. LinesOf(ours)' = LinesOf(ours) /\ LinesOf(theirs)' = LinesOf(theirs)
            /\ LinesOf(base)' = LinesOf(base) /\ LinesOf(output)' = LinesOf(output)
      BY <2>1 DEF LinesOf
    <3> QED BY <2>1, <3>1 DEF MergeInv, CleanSurvive, AddedLinesSurvive
  <2> QED BY <2>2, <2>3, <2>4, <2>5, <2>6 DEF MergeInv
<1> QED BY <1>1, <1>2, <1>3, <1>4, <1>5, <1>6, <1>7, <1>8 DEF MergeNext

\* What the loop keeps is what merger.rs promises.
LEMMA InvMeansCorrect ==
    ASSUME MergeInv
    PROVE  MergeCorrect
<1>1. /\ MergeTypeOK /\ MarkersLocateBlocks
  BY DEF MergeInv
<1>2. /\ ours \in Seq(Lines) /\ theirs \in Seq(Lines) /\ Len(output) \in Nat
      /\ OursSide \subseteq 1..Len(output) /\ TheirsSide \subseteq 1..Len(output)
  BY <1>1, FilesAre, SidesWithin
<1>3. ASSUME conflicted
      PROVE  /\ Reads(output, OursSide, ours, Len(ours))
             /\ Reads(output, TheirsSide, theirs, Len(theirs))
  <2>1. /\ i > MaxLen
        /\ Reading(output, OursSide, ours, i) /\ Reading(output, TheirsSide, theirs, i)
    BY <1>3 DEF MergeInv, DecidedOK, BothRead
  <2>2. Len(ours) < i /\ Len(theirs) < i
    <3>1. i \in Nat
      BY <1>1 DEF MergeTypeOK
    <3> QED BY <1>1, <2>1, <3>1, FilesAre
  <2> QED BY <2>1, <2>2 DEF Reading
<1>4. SidesRecoverable
  <2> SUFFICES ASSUME conflicted
               PROVE  StartsWith(Kept(OursSide), ours)
                        /\ StartsWith(Kept(TheirsSide), theirs)
    BY DEF SidesRecoverable
  <2>1. /\ Reads(output, OursSide, ours, Len(ours))
        /\ Reads(output, TheirsSide, theirs, Len(theirs))
    BY <1>3
  <2> QED BY <1>2, <2>1, KeptStarts
<1>5. ASSUME NEW side, side \subseteq 1..Len(output), NEW file,
             Reads(output, side, file, Len(file))
      PROVE  LinesOf(file) \subseteq LinesOf(output)
  <2>1. PICK e \in [1..Len(file) -> side] : \A k \in 1..Len(file) : output[e[k]] = file[k]
    BY <1>5 DEF Reads
  <2>2. \A k \in 1..Len(file) : e[k] \in 1..Len(output)
    BY <1>5
  <2> QED BY <2>1, <2>2 DEF LinesOf
<1>6. AddedLinesSurvive
  <2>1. CASE conflicted
    <3>1. LinesOf(ours) \subseteq LinesOf(output) /\ LinesOf(theirs) \subseteq LinesOf(output)
      BY <1>2, <1>3, <1>5, <2>1
    <3> QED BY <3>1 DEF AddedLinesSurvive
  <2>2. CASE ~conflicted
    BY <2>2 DEF MergeInv, CleanSurvive
  <2> QED BY <2>1, <2>2
<1>7. AutoMergeAgrees
  BY DEF AutoMergeAgrees, MergeInv, DecidedOK
<1> QED BY <1>1, <1>4, <1>6, <1>7 DEF MergeCorrect

\* In every merge the arguments stay files, and the output and the reported
\* spans what merger.rs builds them from.
THEOREM MergeTypeCorrect == MergeSpec => []MergeTypeOK
<1>1. MergeInv => MergeTypeOK
  BY DEF MergeInv
<1> QED BY <1>1, MergeInvStarts, MergeInvKept, PTL DEF MergeSpec

\* Of every three files merger.rs makes a merge with marker blocks where they
\* are reported to be, with both files whole if there are conflicts, without
\* losing a line that a side added, and with conflicts exactly when
\* can_auto_merge said so.
THEOREM MergesAreCorrect == MergeSpec => []MergeCorrect
  BY MergeInvStarts, MergeInvKept, InvMeansCorrect, PTL DEF MergeSpec
=============================================================================
