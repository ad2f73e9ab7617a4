------------------------ MODULE PersonalFilesProofs ------------------------
(***************************************************************************)
(* Proofs about PersonalFiles for every choice of its constants: any       *)
(* paths, contents and policies, any edits of SVN users and of pull        *)
(* requests, any number of cycles, imports, faults and repairs.            *)
(***************************************************************************)
EXTENDS PersonalFiles, SequenceTheorems, TLAPS

-----------------------------------------------------------------------------
(* Types.                                                                  *)

\* What a pull request sets.
Edits == UNION {[D -> Files \cup {Missing}] : D \in SUBSET Paths}

Revisions == [tree : Trees, of : Nat]

Commits == [kind : {"merge", "mirror", "import"}, n : Nat, tree : Trees,
            attrs : SUBSET Paths]

Importing == {"snapshot", "snapshot commit", "snapshot push", "snapshot record",
              "full", "full commit", "full record"}
Mirroring == {"mirror", "stale", "commit", "push", "record"}
Replaying == {"prs", "update", "apply", "send"}

\* Every variable has the type the code gives it; the revision in hand is one
\* of SVN's, the requests taken up are the first `pr`, and what is left to do
\* of the one in hand are files it sets.
TypeOK ==
    /\ svn \in Seq(Revisions) /\ svn # <<>>
    /\ branch \in Seq(Commits) /\ ahead \in Seq(Commits)
    /\ prs \in Seq(Edits)
    /\ work \in Trees /\ attrs \subseteq Paths /\ disk \in Trees
    /\ wcRev \in 0..Len(svn) /\ scheduled \subseteq Paths
    /\ wm \in Nat /\ rev \in Nat /\ upto \in 0..Len(svn)
    /\ pr \in 0..Len(prs) /\ prLog = 1..pr
    /\ pc \in {"idle"} \cup Importing \cup Mirroring \cup Replaying
    /\ (pc \in {"stale", "commit", "snapshot", "snapshot commit", "full commit"})
       => rev \in 1..Len(svn)
    /\ (pc \in {"mirror", "full"}) => rev > 0
    /\ (pc \in {"update", "apply", "send"}) => pr > 0
    /\ (pc = "apply") => todo \subseteq DOMAIN prs[pr]

-----------------------------------------------------------------------------
(* Lemmas about the data.                                                  *)

\* Sequences that grow by one element.
LEMMA Appended ==
    ASSUME NEW S, NEW log \in Seq(S), NEW x \in S
    PROVE  /\ Append(log, x) \in Seq(S) /\ Len(log) \in Nat
           /\ Len(Append(log, x)) = Len(log) + 1
           /\ Append(log, x)[Len(log) + 1] = x
           /\ \A i \in 1..Len(log) : Append(log, x)[i] = log[i]
           /\ Append(log, x) # <<>>
           /\ DOMAIN log = 1..Len(log) /\ DOMAIN Append(log, x) = 1..(Len(log) + 1)
<1> DEFINE new == Append(log, x)
<1>1. /\ new \in Seq(S) /\ Len(new) = Len(log) + 1 /\ Len(log) \in Nat
      /\ \A i \in 1..Len(log) : new[i] = log[i]
      /\ new[Len(log) + 1] = x
  BY AppendProperties
<1>2. new # <<>>
  BY <1>1
<1>3. DOMAIN log = 1..Len(log) /\ DOMAIN new = 1..Len(new)
  BY <1>1, LenProperties
<1> QED BY <1>1, <1>2, <1>3

\* An element of a sequence that has grown by one is an old one or the new one.
LEMMA NewOrOld ==
    ASSUME NEW S, NEW log \in Seq(S), NEW x \in S, NEW i \in DOMAIN Append(log, x)
    PROVE  \/ i = Len(log) + 1 /\ Append(log, x)[i] = x
           \/ i \in DOMAIN log /\ Append(log, x)[i] = log[i]
<1>1. /\ DOMAIN log = 1..Len(log) /\ DOMAIN Append(log, x) = 1..(Len(log) + 1)
      /\ Len(log) \in Nat /\ Append(log, x)[Len(log) + 1] = x
      /\ \A j \in 1..Len(log) : Append(log, x)[j] = log[j]
  BY Appended
<1>2. i = Len(log) + 1 \/ i \in 1..Len(log)
  BY <1>1
<1> QED BY <1>1, <1>2

\* So is one of a concatenation.
LEMMA EitherPart ==
    ASSUME NEW S, NEW log \in Seq(S), NEW more \in Seq(S)
    PROVE  /\ log \o more \in Seq(S)
           /\ \A i \in DOMAIN (log \o more) :
                 \/ i \in DOMAIN log /\ (log \o more)[i] = log[i]
                 \/ \E j \in DOMAIN more : (log \o more)[i] = more[j]
<1> DEFINE new == log \o more
<1>1. /\ new \in Seq(S) /\ Len(new) = Len(log) + Len(more)
      /\ Len(log) \in Nat /\ Len(more) \in Nat
      /\ \A i \in 1..Len(new) : new[i] = IF i <= Len(log) THEN log[i]
                                         ELSE more[i - Len(log)]
  BY ConcatProperties, LenProperties
<1>2. /\ DOMAIN new = 1..Len(new) /\ DOMAIN log = 1..Len(log)
      /\ DOMAIN more = 1..Len(more)
  BY <1>1, LenProperties
<1> HIDE DEF new
<1>3. ASSUME NEW i \in DOMAIN new
      PROVE  \/ i \in DOMAIN log /\ new[i] = log[i]
             \/ \E j \in DOMAIN more : new[i] = more[j]
  <2>1. CASE i <= Len(log)
    BY <1>1, <1>2, <1>3, <2>1
  <2>2. CASE i > Len(log)
    <3>1. i - Len(log) \in DOMAIN more /\ new[i] = more[i - Len(log)]
      BY <1>1, <1>2, <1>3, <2>2
    <3> QED BY <3>1
  <2> QED BY <1>1, <1>2, <1>3, <2>1, <2>2
<1> QED BY <1>1, <1>3 DEF new

\* The last element of a sequence that is not empty.
LEMMA LastElement ==
    ASSUME NEW S, NEW log \in Seq(S), log # <<>>
    PROVE  Len(log) \in DOMAIN log /\ log[Len(log)] \in S /\ Len(log) \in Nat \ {0}
<1>1. DOMAIN log = 1..Len(log) /\ Len(log) \in Nat
  BY LenProperties
<1>2. Len(log) # 0
  BY EmptySeq
<1> QED BY <1>1, <1>2, ElementOfSeq

\* SVN's trees.
LEMMA TreesOfSvn ==
    ASSUME TypeOK
    PROVE  /\ Len(svn) \in Nat \ {0} /\ DOMAIN svn = 1..Len(svn)
           /\ Youngest \in Trees /\ Empty \in Trees
           /\ \A r \in 0..Len(svn) : Tree(r) \in Trees
           /\ Youngest = Tree(Len(svn))
<1>1. Len(svn) \in Nat \ {0} /\ DOMAIN svn = 1..Len(svn)
  BY LastElement, LenProperties DEF TypeOK
<1>2. \A r \in 1..Len(svn) : svn[r] \in Revisions
  <2>1. svn \in Seq(Revisions)
    BY DEF TypeOK
  <2> QED BY <2>1, ElementOfSeq
<1>3. Empty \in Trees
  BY DEF Empty, Trees
<1>4. \A r \in 0..Len(svn) : Tree(r) \in Trees
  BY <1>1, <1>2, <1>3 DEF Tree, Revisions
<1>5. Youngest = Tree(Len(svn))
  BY <1>1 DEF Youngest, Tree
<1> QED BY <1>1, <1>3, <1>4, <1>5

\* The files of a pull request.
LEMMA EditsOfPr ==
    ASSUME TypeOK, NEW q \in DOMAIN prs, NEW p \in DOMAIN prs[q]
    PROVE  p \in Paths /\ prs[q][p] \in Files \cup {Missing}
<1>1. prs[q] \in Edits
  <2>1. prs \in Seq(Edits)
    BY DEF TypeOK
  <2>2. q \in 1..Len(prs)
    BY <2>1, LenProperties
  <2> QED BY <2>1, <2>2, ElementOfSeq
<1>2. PICK D \in SUBSET Paths : prs[q] \in [D -> Files \cup {Missing}]
  BY <1>1 DEF Edits
<1> QED BY <1>2

\* A file, also what git makes of it.
LEMMA FileTypes ==
    ASSUME NEW file \in Files \cup {Missing}
    PROVE  /\ file # Missing => Pointer(file.blob) \in Files
           /\ file # Missing => Plain(file.blob) \in Files
           /\ Plain(file.blob) \in Files \cup {Missing}
<1>1. CASE file = Missing
  BY <1>1 DEF Missing, Plain
<1>2. CASE file \in Files
  <2>1. file.blob \in Blobs
    BY <1>2 DEF Files
  <2>2. Pointer(file.blob) \in Files /\ Plain(file.blob) \in Files
    BY <2>1 DEF Files, Pointer, Plain
  <2> QED BY <2>2
<1> QED BY <1>1, <1>2

LEMMA CopyType ==
    ASSUME TypeOK, NEW r \in 0..Len(svn), CopyTreeWithPolicy(r)
    PROVE  work' \in Trees /\ attrs' \subseteq Paths
<1>1. Tree(r) \in Trees /\ work \in Trees /\ attrs \subseteq Paths
  BY TreesOfSvn DEF TypeOK
<1> QED BY <1>1 DEF CopyTreeWithPolicy, Copyable, Trees

\* A commit of the clone, and what it leaves of the others.
LEMMA CommitType ==
    ASSUME TypeOK, NEW kind \in {"mirror", "import"}, NEW r \in Nat, Commit(kind, r)
    PROVE  LET c == [kind |-> kind, n |-> r, tree |-> work, attrs |-> attrs] IN
           /\ ahead' \in Seq(Commits)
           /\ \A i \in DOMAIN ahead' :
                 \/ ahead'[i] = c
                 \/ \E j \in DOMAIN ahead : ahead'[i] = ahead[j]
<1> DEFINE c == [kind |-> kind, n |-> r, tree |-> work, attrs |-> attrs]
           again == {i \in DOMAIN ahead : Diverged /\ ahead[i].kind = kind /\ ahead[i].n = r}
<1>1. c \in Commits /\ ahead \in Seq(Commits)
  BY DEF TypeOK, Commits
<1>2. ahead' = IF again = {} THEN Append(ahead, c)
               ELSE [i \in DOMAIN ahead |-> IF i \in again THEN c ELSE ahead[i]]
  BY DEF Commit
<1> HIDE DEF c, again
<1>3. CASE again = {}
  <2>1. ahead' = Append(ahead, c)
    BY <1>2, <1>3
  <2>2. ahead' \in Seq(Commits)
    BY <1>1, <2>1, Appended
  <2>3. \A i \in DOMAIN ahead' : ahead'[i] = c \/ \E j \in DOMAIN ahead : ahead'[i] = ahead[j]
    BY <1>1, <2>1, NewOrOld
  <2> QED BY <2>2, <2>3 DEF c
<1>4. CASE again # {}
  <2>1. ahead' = [i \in DOMAIN ahead |-> IF i \in again THEN c ELSE ahead[i]]
    BY <1>2, <1>4
  <2>2. DOMAIN ahead = 1..Len(ahead) /\ Len(ahead) \in Nat
    BY <1>1, LenProperties
  <2>3. \A i \in 1..Len(ahead) : ahead[i] \in Commits
    BY <1>1, ElementOfSeq
  <2>4. \A i \in DOMAIN ahead' : ahead'[i] = c \/ \E j \in DOMAIN ahead : ahead'[i] = ahead[j]
    BY <2>1
  <2>5. ahead' \in [1..Len(ahead) -> Commits]
    BY <1>1, <2>1, <2>2, <2>3
  <2>6. ahead' \in Seq(Commits)
    BY <2>2, <2>5, SeqDef
  <2> QED BY <2>4, <2>6 DEF c
<1> QED BY <1>3, <1>4

\* Sequences and numbers.
LEMMA Basics ==
    ASSUME TypeOK
    PROVE  /\ branch \in Seq(Commits) /\ ahead \in Seq(Commits) /\ prs \in Seq(Edits)
           /\ DOMAIN prs = 1..Len(prs) /\ Len(prs) \in Nat
           /\ pr \in Nat /\ pr <= Len(prs) /\ prLog = 1..pr
           /\ wm \in Nat /\ rev \in Nat /\ upto \in Nat /\ upto <= Len(svn)
           /\ wcRev \in Nat /\ wcRev <= Len(svn)
<1>1. /\ branch \in Seq(Commits) /\ ahead \in Seq(Commits) /\ prs \in Seq(Edits)
      /\ pr \in 0..Len(prs) /\ prLog = 1..pr
      /\ wm \in Nat /\ rev \in Nat /\ upto \in 0..Len(svn) /\ wcRev \in 0..Len(svn)
  BY DEF TypeOK
<1>2. DOMAIN prs = 1..Len(prs) /\ Len(prs) \in Nat
  BY <1>1, LenProperties
<1>3. Len(svn) \in Nat
  BY TreesOfSvn
<1> QED BY <1>1, <1>2, <1>3

\* A merged pull request adds its files and a commit that sets them.
LEMMA Merged ==
    ASSUME TypeOK, NEW edits \in PrEdits, MergePullRequest(edits)
    PROVE  \E d \in Edits, c \in Commits :
             /\ prs' = Append(prs, d) /\ branch' = Append(branch, c)
             /\ c.kind = "merge" /\ branch # <<>>
             /\ \A p \in Paths :
                   \/ p \in DOMAIN d /\ c.tree[p] = d[p]
                   \/ c.tree[p] = branch[Len(branch)].tree[p]
<1> DEFINE last    == branch[Len(branch)]
           changes == {<<e[1], Cleaned(e[1], e[2])>> : e \in edits}
           changed == {e[1] : e \in edits}
           Set(p)  == IF p \in changed THEN (CHOOSE e \in changes : e[1] = p)[2]
                                       ELSE last.tree[p]
           d == [p \in changed |-> Set(p)]
           c == [kind |-> "merge", n |-> Len(prs) + 1, attrs |-> last.attrs,
                 tree |-> [p \in Paths |-> Set(p)]]
<1>1. branch # <<>> /\ prs' = Append(prs, d) /\ branch' = Append(branch, c)
  BY DEF MergePullRequest
<1>2. last \in Commits
  BY <1>1, LastElement DEF TypeOK
<1>3. edits \subseteq Paths \X (Files \cup {Missing})
  BY PersonalFilesAssumption
<1>4. changed \subseteq Paths
  BY <1>3
<1>5. \A e \in changes : e[2] \in Files \cup {Missing}
  <2> SUFFICES ASSUME NEW e \in edits PROVE Cleaned(e[1], e[2]) \in Files \cup {Missing}
    OBVIOUS
  <2>1. e[2] \in Files \cup {Missing}
    BY <1>3
  <2> QED BY <2>1, FileTypes DEF Cleaned
<1>6. \A p \in changed : (CHOOSE e \in changes : e[1] = p)[2] \in Files \cup {Missing}
  <2> SUFFICES ASSUME NEW e \in edits
               PROVE  (CHOOSE x \in changes : x[1] = e[1])[2] \in Files \cup {Missing}
    OBVIOUS
  <2>1. <<e[1], Cleaned(e[1], e[2])>> \in changes
    OBVIOUS
  <2>2. \E x \in changes : x[1] = e[1]
    BY <2>1
  <2> HIDE DEF changes
  <2>3. (CHOOSE x \in changes : x[1] = e[1]) \in changes
    BY <2>2
  <2> QED BY <1>5, <2>3
<1>7. \A p \in Paths : last.tree[p] \in Files \cup {Missing}
  BY <1>2 DEF Commits, Trees
<1> HIDE DEF changes, changed
<1>8. \A p \in Paths : Set(p) \in Files \cup {Missing}
  BY <1>6, <1>7
<1> HIDE DEF Set, last
<1>9. d \in Edits
  BY <1>4, <1>8 DEF Edits
<1>10. c \in Commits
  <2>1. Len(prs) + 1 \in Nat
    BY Basics
  <2>2. last.attrs \subseteq Paths
    BY <1>2 DEF Commits
  <2>3. [p \in Paths |-> Set(p)] \in Trees
    BY <1>8 DEF Trees
  <2> QED BY <2>1, <2>2, <2>3 DEF Commits
<1>11. \A p \in Paths : (p \in DOMAIN d /\ c.tree[p] = d[p]) \/ c.tree[p] = last.tree[p]
  BY DEF Set
<1>12. c.kind = "merge"
  OBVIOUS
<1> HIDE DEF d, c
<1> QED BY <1>1, <1>9, <1>10, <1>11, <1>12 DEF last

\* An SVN user's revision.
LEMMA Edited ==
    ASSUME TypeOK, NEW e \in UserEdits, UserSvnCommit(e[1], e[2])
    PROVE  LET r == [tree |-> [Youngest EXCEPT ![e[1]] = e[2]], of |-> 0] IN
           /\ r \in Revisions /\ svn' = Append(svn, r)
           /\ e[1] \in Paths /\ e[2] \in Files \cup {Missing}
<1>1. e[1] \in Paths /\ e[2] \in Files \cup {Missing}
  BY PersonalFilesAssumption
<1>2. Youngest \in [Paths -> Files \cup {Missing}]
  BY TreesOfSvn DEF Trees
<1>3. [Youngest EXCEPT ![e[1]] = e[2]] \in Trees
  BY <1>1, <1>2 DEF Trees
<1> QED BY <1>1, <1>3 DEF UserSvnCommit, Revisions

\* The tree a replay sends.
ReplayTree == [p \in Paths |-> IF p \in Local THEN Sent(p) ELSE Youngest[p]]

\* A replay's revision.
LEMMA Replayed ==
    ASSUME TypeOK, CommitToSvn
    PROVE  /\ [tree |-> ReplayTree, of |-> pr] \in Revisions
           /\ svn' = Append(svn, [tree |-> ReplayTree, of |-> pr])
           /\ disk' = [p \in Paths |-> IF p \in Local THEN disk[p] ELSE ReplayTree[p]]
           /\ ReplayTree \in Trees /\ disk' \in Trees
<1>1. /\ svn' = Append(svn, [tree |-> ReplayTree, of |-> pr])
      /\ disk' = [p \in Paths |-> IF p \in Local THEN disk[p] ELSE ReplayTree[p]]
  BY DEF CommitToSvn, ReplayTree
<1>2. /\ Youngest \in [Paths -> Files \cup {Missing}]
      /\ disk \in [Paths -> Files \cup {Missing}]
  BY TreesOfSvn DEF Trees, TypeOK
<1>3. ReplayTree \in [Paths -> Files \cup {Missing}]
  BY <1>2 DEF ReplayTree, Sent
<1>4. pr \in Nat
  BY Basics
<1>5. disk' \in [Paths -> Files \cup {Missing}]
  BY <1>1, <1>2, <1>3
<1> QED BY <1>1, <1>3, <1>4, <1>5 DEF Trees, Revisions

\* The request that is taken up is the first one not taken up yet.
LEMMA Taken ==
    ASSUME TypeOK, TakePr
    PROVE  \/ /\ UNCHANGED <<prLog, pr>> /\ pc' = "idle"
           \/ /\ pr' = pr + 1 /\ prLog' = 1..pr' /\ pr' <= Len(prs) /\ pc' = "update"
<1>1. CASE DOMAIN prs \subseteq prLog
  BY <1>1 DEF TakePr
<1>2. CASE ~(DOMAIN prs \subseteq prLog)
  <2>1. /\ DOMAIN prs = 1..Len(prs) /\ Len(prs) \in Nat /\ pr \in 0..Len(prs)
        /\ prLog = 1..pr
    BY Basics
  <2> DEFINE first == CHOOSE p \in DOMAIN prs \ prLog :
                          \A q \in DOMAIN prs \ prLog : p <= q
  <2>2. /\ prLog' = prLog \cup {first} /\ pr' = first /\ pc' = "update"
    BY <1>2 DEF TakePr
  <2>3. DOMAIN prs \ prLog = (pr + 1)..Len(prs) /\ pr + 1 <= Len(prs)
    BY <1>2, <2>1
  <2>4. /\ pr + 1 \in DOMAIN prs \ prLog
        /\ \A q \in DOMAIN prs \ prLog : pr + 1 <= q
    BY <2>1, <2>3
  <2>5. first \in DOMAIN prs \ prLog /\ \A q \in DOMAIN prs \ prLog : first <= q
    BY <2>4
  <2> HIDE DEF first
  <2>6. first = pr + 1
    BY <2>1, <2>3, <2>4, <2>5
  <2>7. prLog' = 1..(pr + 1)
    BY <2>1, <2>2, <2>6
  <2> QED BY <2>2, <2>3, <2>6, <2>7
<1> QED BY <1>1, <1>2

\* What is copied is a revision that SVN has.
LEMMA InHistory ==
    ASSUME TypeOK, SnapshotCopy \/ FullCopy \/ MirrorCopy
    PROVE  rev \in 1..Len(svn) /\ rev \in 0..Len(svn)
<1>1. rev \in Nat /\ upto \in Nat /\ upto <= Len(svn) /\ Len(svn) \in Nat
  BY Basics, TreesOfSvn
<1>2. CASE SnapshotCopy
  <2>1. rev \in 1..Len(svn)
    BY <1>2 DEF SnapshotCopy, TypeOK
  <2> QED BY <1>1, <2>1
<1>3. CASE FullCopy \/ MirrorCopy
  <2>1. rev <= upto /\ pc \in {"mirror", "full"}
    BY <1>3 DEF FullCopy, MirrorCopy
  <2>2. rev > 0
    BY <2>1 DEF TypeOK
  <2> QED BY <1>1, <2>1, <2>2
<1> QED BY <1>2, <1>3

\* The clone's variables have their types after a step that opens it, copies,
\* commits or pushes.
LEMMA CloneTypes ==
    ASSUME TypeOK, [Next]_vars
    PROVE  /\ work' \in Trees /\ attrs' \subseteq Paths
           /\ ahead' \in Seq(Commits) /\ branch' \in Seq(Commits)
<1> USE DEF clone, servers
<1>1. /\ work \in Trees /\ attrs \subseteq Paths /\ Empty \in Trees
      /\ ahead \in Seq(Commits) /\ branch \in Seq(Commits)
  BY TreesOfSvn DEF TypeOK
<1>2. CASE UNCHANGED <<work, attrs, ahead, branch>>
  BY <1>1, <1>2
<1>3. CASE OpenClone
  <2>1. CASE branch = <<>>
    BY <1>1, <1>3, <2>1, EmptySeq DEF OpenClone
  <2>2. CASE branch # <<>>
    <3>1. branch[Len(branch)] \in Commits
      BY <1>1, <2>2, LastElement
    <3>2. /\ branch[Len(branch)].tree \in Trees
          /\ branch[Len(branch)].attrs \subseteq Paths
      BY <3>1 DEF Commits
    <3> QED BY <1>1, <1>3, <2>2, <3>2, EmptySeq DEF OpenClone
  <2> QED BY <2>1, <2>2
<1>4. CASE RemoveClone
  BY <1>1, <1>4, EmptySeq DEF RemoveClone
<1>5. CASE SnapshotCopy \/ FullCopy \/ MirrorCopy
  <2>1. rev \in 0..Len(svn)
    BY <1>5, InHistory
  <2>2. CopyTreeWithPolicy(rev) /\ UNCHANGED <<ahead, branch>>
    BY <1>5 DEF SnapshotCopy, FullCopy, MirrorCopy
  <2> QED BY <1>1, <2>1, <2>2, CopyType
<1>6. CASE MirrorRemoveStale
  BY <1>1, <1>6 DEF MirrorRemoveStale, RemoveStaleFiles, Trees
<1>7. CASE SnapshotCommit \/ FullCommit \/ MirrorCommit
  <2>1. \E kind \in {"mirror", "import"} : Commit(kind, rev)
    BY <1>7 DEF SnapshotCommit, FullCommit, MirrorCommit
  <2>2. UNCHANGED <<work, attrs, branch>>
    BY <1>7 DEF SnapshotCommit, FullCommit, MirrorCommit
  <2> QED BY <1>1, <2>1, <2>2, Basics, CommitType
<1>8. CASE Push
  BY <1>1, <1>8, EitherPart, EmptySeq DEF Push
<1>9. CASE \E edits \in PrEdits : MergePullRequest(edits)
  <2>1. UNCHANGED <<work, attrs, ahead>>
    BY <1>9 DEF MergePullRequest
  <2>2. PICK c \in Commits : branch' = Append(branch, c)
    BY <1>9, Merged
  <2> QED BY <1>1, <2>1, <2>2, Appended
<1>10. CASE \E e \in UserEdits : UserSvnCommit(e[1], e[2])
  BY <1>2, <1>10 DEF UserSvnCommit
<1>11. CASE Import
  <2>1. CASE \E mode \in {"snapshot", "full"} : BeginImport(mode)
    BY <1>2, <2>1 DEF BeginImport
  <2>2. CASE SnapshotPush \/ FullPush
    BY <1>2, <1>8, <2>2 DEF SnapshotPush, FullPush
  <2>3. CASE SnapshotRecord \/ FullSkip \/ FullRecord
    BY <1>2, <2>3 DEF SnapshotRecord, FullSkip, FullRecord
  <2> QED BY <1>5, <1>7, <1>11, <2>1, <2>2, <2>3 DEF Import
<1>12. CASE Mirror
  <2>1. CASE MirrorPush
    BY <1>8, <2>1 DEF MirrorPush
  <2>2. CASE StartCycle \/ SkipRevision \/ MirrorRecord \/ MirrorDone \/ PushRejected
    BY <1>2, <2>2 DEF StartCycle, SkipRevision, MirrorRecord, MirrorDone, PushRejected
  <2> QED BY <1>5, <1>6, <1>7, <1>12, <2>1, <2>2 DEF Mirror
<1>13. CASE Replay
  BY <1>2, <1>13 DEF Replay, TakePr, Update, CommitNotFound, Stage, CommitToSvn,
                     CommitRefused, ApplyFile, SkipPointer
<1>14. CASE StepFails \/ UNCHANGED vars
  BY <1>2, <1>14 DEF StepFails, vars
<1> QED BY <1>3, <1>4, <1>9, <1>10, <1>11, <1>12, <1>13, <1>14 DEF Next, Users

\* So have SVN and its working copy.
LEMMA SvnTypes ==
    ASSUME TypeOK, [Next]_vars
    PROVE  /\ svn' \in Seq(Revisions) /\ svn' # <<>> /\ Len(svn') \in Nat
           /\ Len(svn') >= Len(svn)
           /\ disk' \in Trees /\ scheduled' \subseteq Paths /\ wcRev' \in 0..Len(svn')
<1> USE DEF clone, servers, wc
<1>1. /\ svn \in Seq(Revisions) /\ svn # <<>> /\ Len(svn) \in Nat /\ disk \in Trees
      /\ scheduled \subseteq Paths /\ wcRev \in 0..Len(svn)
  BY TreesOfSvn DEF TypeOK
<1>2. CASE UNCHANGED <<svn, disk, scheduled, wcRev>>
  BY <1>1, <1>2
<1>3. CASE \E e \in UserEdits : UserSvnCommit(e[1], e[2])
  <2>1. PICK r \in Revisions : svn' = Append(svn, r)
    BY <1>3, Edited
  <2>2. UNCHANGED <<disk, scheduled, wcRev>>
    BY <1>3 DEF UserSvnCommit
  <2>3. svn' \in Seq(Revisions) /\ svn' # <<>> /\ Len(svn') = Len(svn) + 1
    BY <1>1, <2>1, Appended
  <2> QED BY <1>1, <2>2, <2>3
<1>4. CASE CommitToSvn
  <2>1. /\ [tree |-> ReplayTree, of |-> pr] \in Revisions
        /\ svn' = Append(svn, [tree |-> ReplayTree, of |-> pr])
        /\ disk' \in Trees
    BY <1>4, Replayed
  <2>2. wcRev' = Len(svn') /\ scheduled' = {}
    BY <1>4 DEF CommitToSvn
  <2>3. svn' \in Seq(Revisions) /\ svn' # <<>> /\ Len(svn') = Len(svn) + 1
    BY <1>1, <2>1, Appended
  <2> QED BY <1>1, <2>1, <2>2, <2>3
<1>5. CASE Update
  <2>1. disk' \in Trees
    <3>1. disk' = [p \in Paths |-> IF Pristine(p) THEN Youngest[p] ELSE disk[p]]
      BY <1>5 DEF Update
    <3>2. Youngest \in Trees
      BY TreesOfSvn
    <3> QED BY <1>1, <3>1, <3>2 DEF Trees
  <2> QED BY <1>1, <1>5, <2>1 DEF Update
<1>6. CASE \E p \in Paths : ApplyFile(p) \/ SkipPointer(p)
  <2> PICK p \in Paths : ApplyFile(p) \/ SkipPointer(p)
    BY <1>6
  <2>1. UNCHANGED <<svn, scheduled, wcRev>>
    BY DEF ApplyFile, SkipPointer
  <2>2. disk' \in Trees
    <3>1. CASE disk' = disk
      BY <1>1, <3>1
    <3>2. CASE ApplyFile(p) /\ disk' # disk
      <4>1. pc = "apply" /\ p \in todo
        BY <3>2 DEF ApplyFile
      <4>2. pr \in DOMAIN prs /\ p \in DOMAIN prs[pr]
        BY <4>1, Basics DEF TypeOK
      <4>3. ContentAt(pr, p) \in Files \cup {Missing}
        BY <4>2, EditsOfPr DEF ContentAt
      <4>4. Resolved(ContentAt(pr, p)) \in Files \cup {Missing}
        BY <4>3, FileTypes DEF Resolved
      <4>5. \E file \in Files \cup {Missing} : disk' = [disk EXCEPT ![p] = file]
        BY <3>2, <4>4 DEF ApplyFile, Write
      <4> QED BY <1>1, <4>5 DEF Trees
    <3> QED BY <3>1, <3>2 DEF SkipPointer
  <2> QED BY <1>1, <2>1, <2>2
<1>7. CASE Stage
  <2>1. scheduled' \subseteq Paths
    BY <1>1, <1>7 DEF Stage, ToAdd, ToDelete
  <2> QED BY <1>1, <1>7, <2>1 DEF Stage
<1>8. CASE OpenClone \/ RemoveClone \/ (\E edits \in PrEdits : MergePullRequest(edits))
  BY <1>2, <1>8 DEF OpenClone, RemoveClone, MergePullRequest
<1>9. CASE Import
  BY <1>2, <1>9 DEF Import, BeginImport, SnapshotCopy, SnapshotCommit, SnapshotPush,
                    SnapshotRecord, FullCopy, FullSkip, FullCommit, FullPush, FullRecord, Push
<1>10. CASE Mirror
  BY <1>2, <1>10 DEF Mirror, StartCycle, SkipRevision, MirrorCopy, MirrorRemoveStale,
                     MirrorCommit, MirrorPush, MirrorRecord, MirrorDone, PushRejected, Push
<1>11. CASE TakePr \/ CommitNotFound \/ CommitRefused \/ StepFails \/ UNCHANGED vars
  BY <1>2, <1>11 DEF TakePr, CommitNotFound, CommitRefused, StepFails, vars
<1> QED BY <1>3, <1>4, <1>5, <1>6, <1>7, <1>8, <1>9, <1>10, <1>11 DEF Next, Users, Replay

\* So has what a command or a cycle keeps in its hands.
LEMMA CycleTypes ==
    ASSUME TypeOK, [Next]_vars
    PROVE  /\ wm' \in Nat /\ rev' \in Nat /\ upto' \in 0..Len(svn')
           /\ pc' \in {"idle"} \cup Importing \cup Mirroring \cup Replaying
           /\ (pc' \in {"stale", "commit", "snapshot", "snapshot commit", "full commit"})
              => rev' \in 1..Len(svn')
           /\ (pc' \in {"mirror", "full"}) => rev' > 0
<1> USE DEF clone, servers, wc, db, cycle, replay, rest, Importing, Mirroring, Replaying
<1>1. /\ rev \in Nat /\ upto \in Nat /\ wm \in Nat /\ upto <= Len(svn)
      /\ Len(svn) \in Nat \ {0}
  BY Basics, TreesOfSvn
<1>2. /\ pc \in {"idle"} \cup Importing \cup Mirroring \cup Replaying
      /\ (pc \in {"stale", "commit", "snapshot", "snapshot commit", "full commit"})
         => rev \in 1..Len(svn)
      /\ (pc \in {"mirror", "full"}) => rev > 0
  BY DEF TypeOK
<1>3. Len(svn') \in Nat /\ Len(svn') >= Len(svn)
  BY SvnTypes
<1>0. /\ upto \in 0..Len(svn')
      /\ rev \in 1..Len(svn) => rev \in 1..Len(svn')
      /\ Len(svn) \in 0..Len(svn') /\ rev + 1 \in Nat /\ rev + 1 > 0
      /\ wm + 1 \in Nat /\ wm + 1 > 0 /\ 1 \in 1..Len(svn) /\ Len(svn) \in 1..Len(svn)
      /\ Len(svn) > 0
  BY <1>1, <1>3
<1>4. CASE UNCHANGED <<wm, rev, upto, pc>>
  BY ONLY <1>0, <1>1, <1>2, <1>4
<1>5. CASE UNCHANGED <<wm, rev, upto, svn>>
           /\ pc' \in {"idle", "prs", "snapshot push", "snapshot record", "full record",
                       "push", "record", "update", "apply", "send"}
  BY ONLY <1>0, <1>1, <1>5 DEF Importing, Mirroring, Replaying
<1>6. CASE Users \/ OpenClone \/ RemoveClone \/ UNCHANGED vars
  BY <1>4, <1>6 DEF Users, UserSvnCommit, MergePullRequest, OpenClone, RemoveClone, vars
<1>7. CASE Replay
  <2>1. CASE CommitToSvn
    <3>1. pc' = "prs" /\ UNCHANGED <<wm, rev, upto>>
      BY <2>1 DEF CommitToSvn
    <3> QED BY ONLY <1>0, <1>1, <3>1 DEF Replaying
  <2>2. CASE TakePr \/ Update \/ CommitNotFound \/ Stage \/ CommitRefused
    BY <1>5, <2>2 DEF TakePr, Update, CommitNotFound, Stage, CommitRefused
  <2>3. CASE \E p \in Paths : ApplyFile(p) \/ SkipPointer(p)
    BY <1>4, <2>3 DEF ApplyFile, SkipPointer
  <2> QED BY <1>7, <2>1, <2>2, <2>3 DEF Replay
<1>8. CASE StepFails
  BY <1>5, <1>8 DEF StepFails
<1>9. CASE Import
  <2>1. CASE \E mode \in {"snapshot", "full"} : BeginImport(mode)
    <3>1. /\ upto' = Len(svn) /\ rev' \in {Len(svn), 1} /\ pc' \in {"snapshot", "full"}
          /\ UNCHANGED <<wm, svn>>
      BY <2>1 DEF BeginImport
    <3>2. rev' \in Nat /\ rev' > 0 /\ rev' \in 1..Len(svn')
      BY <1>0, <1>1, <3>1
    <3>3. upto' \in 0..Len(svn') /\ wm' \in Nat
      BY <1>0, <1>1, <3>1
    <3> QED BY ONLY <3>1, <3>2, <3>3 DEF Importing
  <2>2. CASE SnapshotCopy \/ FullCopy
    <3>1. rev \in 1..Len(svn)
      BY <2>2, InHistory
    <3>2. UNCHANGED <<wm, rev, upto, svn>> /\ pc' \in {"snapshot commit", "full commit"}
      BY <2>2 DEF SnapshotCopy, FullCopy
    <3> QED BY ONLY <1>0, <1>1, <3>1, <3>2 DEF Importing, Mirroring
  <2>3. CASE SnapshotCommit \/ SnapshotPush \/ FullPush
    BY <1>5, <2>3 DEF SnapshotCommit, SnapshotPush, FullPush, Push
  <2>4. CASE SnapshotRecord \/ FullRecord
    <3>1. /\ wm' \in {rev, upto} /\ pc' = "idle" /\ UNCHANGED <<rev, upto, svn>>
      BY <2>4 DEF SnapshotRecord, FullRecord
    <3> QED BY ONLY <1>0, <1>1, <3>1 DEF Importing, Mirroring, Replaying
  <2>5. CASE FullSkip \/ FullCommit
    <3>1. /\ rev' = rev + 1 /\ pc' = "full" /\ UNCHANGED <<wm, upto, svn>>
      BY <2>5 DEF FullSkip, FullCommit
    <3> QED BY ONLY <1>0, <1>1, <3>1 DEF Importing, Mirroring, Replaying
  <2> QED BY <1>9, <2>1, <2>2, <2>3, <2>4, <2>5 DEF Import
<1>10. CASE Mirror
  <2>1. CASE StartCycle
    <3>1. /\ upto' = Len(svn) /\ rev' = wm + 1 /\ pc' \in {"mirror", "prs"}
          /\ UNCHANGED <<wm, svn>>
      BY <2>1 DEF StartCycle
    <3> QED BY ONLY <1>0, <1>1, <3>1 DEF Importing, Mirroring, Replaying
  <2>2. CASE MirrorCopy
    <3>1. rev \in 1..Len(svn)
      BY <2>2, InHistory
    <3>2. UNCHANGED <<wm, rev, upto, svn>> /\ pc' = "stale"
      BY <2>2 DEF MirrorCopy
    <3> QED BY ONLY <1>0, <1>1, <3>1, <3>2 DEF Importing, Mirroring
  <2>3. CASE MirrorRemoveStale
    <3>1. pc = "stale" /\ UNCHANGED <<wm, rev, upto, svn>> /\ pc' = "commit"
      BY <2>3 DEF MirrorRemoveStale
    <3> QED BY ONLY <1>0, <1>1, <1>2, <3>1 DEF Mirroring
  <2>4. CASE MirrorCommit \/ MirrorPush \/ MirrorDone \/ PushRejected
    BY <1>5, <2>4 DEF MirrorCommit, MirrorPush, MirrorDone, PushRejected, Push
  <2>5. CASE SkipRevision \/ MirrorRecord
    <3>1. /\ wm' = rev /\ rev' = rev + 1 /\ pc' = "mirror" /\ UNCHANGED <<upto, svn>>
      BY <2>5 DEF SkipRevision, MirrorRecord
    <3> QED BY ONLY <1>0, <1>1, <3>1 DEF Importing, Mirroring, Replaying
  <2> QED BY <1>10, <2>1, <2>2, <2>3, <2>4, <2>5 DEF Mirror
<1> QED BY <1>6, <1>7, <1>8, <1>9, <1>10 DEF Next

\* What is kept of the requests and of the one in hand.
LEMMA PrTypes ==
    ASSUME TypeOK, [Next]_vars
    PROVE  /\ prs' \in Seq(Edits) /\ pr' \in 0..Len(prs') /\ prLog' = 1..pr'
           /\ (pc' \in {"update", "apply", "send"}) => pr' > 0
           /\ (pc' = "apply") => todo' \subseteq DOMAIN prs'[pr']
<1> USE DEF clone, servers, wc, db, cycle, replay, rest
<1>1. /\ prs \in Seq(Edits) /\ pr \in Nat /\ pr <= Len(prs) /\ Len(prs) \in Nat
      /\ prLog = 1..pr /\ DOMAIN prs = 1..Len(prs)
  BY Basics
<1>2. /\ (pc \in {"update", "apply", "send"}) => pr > 0
      /\ (pc = "apply") => todo \subseteq DOMAIN prs[pr]
  BY DEF TypeOK
<1>3. CASE /\ UNCHANGED <<prs, pr, prLog>>
           /\ (pc' \in {"update", "apply", "send"}) => pr > 0
           /\ (pc' = "apply") => todo' \subseteq DOMAIN prs[pr]
  <2>1. pr' \in 0..Len(prs')
    BY <1>1, <1>3
  <2> QED BY <1>1, <1>3, <2>1
<1>4. CASE UNCHANGED <<prs, pr, prLog, todo>>
           /\ (pc' = pc \/ pc' \notin {"update", "apply", "send"})
  BY <1>2, <1>3, <1>4
<1>5. CASE \E edits \in PrEdits : MergePullRequest(edits)
  <2>1. UNCHANGED <<pr, prLog, todo, pc>>
    BY <1>5 DEF MergePullRequest
  <2>2. PICK d \in Edits : prs' = Append(prs, d)
    BY <1>5, Merged
  <2>3. prs' \in Seq(Edits) /\ Len(prs') = Len(prs) + 1 /\ \A q \in 1..Len(prs) : prs'[q] = prs[q]
    BY <1>1, <2>2, Appended
  <2>4. pr' \in 0..Len(prs')
    BY <1>1, <2>1, <2>3
  <2>5. ASSUME pc' = "apply" PROVE todo' \subseteq DOMAIN prs'[pr']
    <3>1. pr > 0 /\ todo \subseteq DOMAIN prs[pr]
      BY <1>2, <2>1, <2>5
    <3>2. pr \in 1..Len(prs)
      BY <1>1, <3>1
    <3> QED BY <2>1, <2>3, <3>1, <3>2
  <2> QED BY <1>1, <1>2, <2>1, <2>3, <2>4, <2>5
<1>6. CASE TakePr
  <2>1. UNCHANGED <<prs, todo>>
    BY <1>6 DEF TakePr
  <2>2. CASE UNCHANGED <<prLog, pr>> /\ pc' = "idle"
    BY <1>3, <2>1, <2>2
  <2>3. CASE pr' = pr + 1 /\ prLog' = 1..pr' /\ pr' <= Len(prs) /\ pc' = "update"
    <3>1. pr' \in 0..Len(prs) /\ pr' > 0
      BY <1>1, <2>3
    <3> QED BY <1>1, <2>1, <2>3, <3>1
  <2> QED BY <1>6, <2>2, <2>3, Taken
<1>7. CASE Update
  <2>1. pc = "update" /\ todo' = DOMAIN prs[pr] /\ UNCHANGED <<prs, pr, prLog>>
    BY <1>7 DEF Update, ChangedFiles
  <2> QED BY <1>2, <1>3, <2>1
<1>8. CASE \E p \in Paths : ApplyFile(p) \/ SkipPointer(p)
  <2>1. /\ pc = "apply" /\ pc' = pc /\ todo' \subseteq todo
        /\ UNCHANGED <<prs, pr, prLog>>
    BY <1>8 DEF ApplyFile, SkipPointer, Write
  <2> QED BY <1>2, <1>3, <2>1
<1>9. CASE CommitNotFound \/ Stage \/ CommitToSvn \/ CommitRefused
  <2>1. /\ UNCHANGED <<prs, pr, prLog>>
        /\ pc' = "prs" \/ (pc = "apply" /\ pc' = "send")
    BY <1>9 DEF CommitNotFound, Stage, CommitToSvn, CommitRefused
  <2> QED BY <1>2, <1>3, <2>1
<1>10. CASE StepFails
  BY <1>3, <1>10 DEF StepFails
<1>11. CASE \/ \E e \in UserEdits : UserSvnCommit(e[1], e[2])
            \/ OpenClone \/ RemoveClone \/ UNCHANGED vars
  BY <1>4, <1>11 DEF UserSvnCommit, OpenClone, RemoveClone, vars
<1>12. CASE Import
  BY <1>4, <1>12 DEF Import, BeginImport, SnapshotCopy, SnapshotCommit, SnapshotPush,
                     SnapshotRecord, FullCopy, FullSkip, FullCommit, FullPush, FullRecord, Push
<1>13. CASE Mirror
  BY <1>4, <1>13 DEF Mirror, StartCycle, SkipRevision, MirrorCopy, MirrorRemoveStale,
                     MirrorCommit, MirrorPush, MirrorRecord, MirrorDone, PushRejected, Push
<1> QED BY <1>5, <1>6, <1>7, <1>8, <1>9, <1>10, <1>11, <1>12, <1>13 DEF Next, Users, Replay

LEMMA TypeStep ==
    ASSUME TypeOK, [Next]_vars
    PROVE  TypeOK'
  BY CloneTypes, SvnTypes, CycleTypes, PrTypes DEF TypeOK

-----------------------------------------------------------------------------
(* From SVN to Git: the invariant.                                         *)

\* Tree t has what an import, or a mirror, is to bring over from SVN's tree s,
\* and the paths that LFS is to track are.
ExactTo(s, kind, t, tracked) ==
    \A p \in Paths \ DotPaths :
        /\ (s[p] # Missing /\ ~Blocked(p, s[p])) =>
             /\ t[p] = s[p]
             /\ Policy(p, s[p]) = "lfs" => p \in tracked
        /\ (s[p] = Missing /\ kind = "mirror") => t[p] = Missing

\* Trees in which a file the policy forbids was put by a pull request.
AllowedTrees ==
    {t \in Trees : \A p \in Paths :
        \/ t[p] = Missing \/ ~Forbidden(p, t[p])
        \/ \E q \in DOMAIN prs : p \in DOMAIN prs[q] /\ prs[q][p] = t[p]}

\* Commits with such a tree; a copy of a revision that SVN has is exact.
GoodCommits ==
    {c \in Commits :
        /\ c.tree \in AllowedTrees
        /\ c.kind # "merge" => /\ c.n \in 1..Len(svn)
                               /\ ExactTo(svn[c.n].tree, c.kind, c.tree, c.attrs)}

\* The commits of the branch and of the clone are good, and its working tree
\* is what the next one needs.
FilesOK ==
    /\ work \in AllowedTrees
    /\ \A i \in DOMAIN branch : branch[i] \in GoodCommits
    /\ \A i \in DOMAIN ahead : ahead[i] \in GoodCommits
    /\ (pc \in {"stale", "snapshot commit", "full commit"})
       => ExactTo(svn[rev].tree, "import", work, attrs)
    /\ (pc = "commit") => ExactTo(svn[rev].tree, "mirror", work, attrs)

\* SVN's history only grows.
LEMMA SvnGrows ==
    ASSUME TypeOK, [Next]_vars
    PROVE  /\ Len(svn') >= Len(svn) /\ Len(svn) \in Nat /\ Len(svn') \in Nat
           /\ \A n \in 1..Len(svn) : n \in 1..Len(svn') /\ svn'[n] = svn[n]
<1> USE DEF clone, servers
<1>1. Len(svn') >= Len(svn) /\ Len(svn) \in Nat /\ Len(svn') \in Nat
  BY SvnTypes, TreesOfSvn
<1>2. svn' = svn \/ \E r \in Revisions : svn' = Append(svn, r)
  <2>1. CASE \E e \in UserEdits : UserSvnCommit(e[1], e[2])
    BY <2>1, Edited
  <2>2. CASE CommitToSvn
    BY <2>2, Replayed
  <2>3. CASE OpenClone \/ RemoveClone \/ (\E edits \in PrEdits : MergePullRequest(edits))
    BY <2>3 DEF OpenClone, RemoveClone, MergePullRequest
  <2>4. CASE Import
    BY <2>4 DEF Import, BeginImport, SnapshotCopy, SnapshotCommit, SnapshotPush,
                SnapshotRecord, FullCopy, FullSkip, FullCommit, FullPush, FullRecord, Push
  <2>5. CASE Mirror
    BY <2>5 DEF Mirror, StartCycle, SkipRevision, MirrorCopy, MirrorRemoveStale,
                MirrorCommit, MirrorPush, MirrorRecord, MirrorDone, PushRejected, Push
  <2>6. CASE Replay /\ ~CommitToSvn
    BY <2>6 DEF Replay, TakePr, Update, CommitNotFound, Stage, CommitRefused,
                ApplyFile, SkipPointer
  <2>7. CASE StepFails \/ UNCHANGED vars
    BY <2>7 DEF StepFails, vars
  <2> QED BY <2>1, <2>2, <2>3, <2>4, <2>5, <2>6, <2>7 DEF Next, Users
<1>3. \A n \in 1..Len(svn) : svn'[n] = svn[n]
  <2>1. CASE svn' = svn
    BY <2>1
  <2>2. CASE \E r \in Revisions : svn' = Append(svn, r)
    <3>1. svn \in Seq(Revisions)
      BY DEF TypeOK
    <3> QED BY <2>2, <3>1, Appended
  <2> QED BY <1>2, <2>1, <2>2
<1>4. \A n \in 1..Len(svn) : n \in 1..Len(svn')
  BY <1>1
<1> QED BY <1>1, <1>3, <1>4

\* So do the merged pull requests.
LEMMA PrsGrow ==
    ASSUME TypeOK, [Next]_vars
    PROVE  /\ \A q \in DOMAIN prs : q \in DOMAIN prs' /\ prs'[q] = prs[q]
           /\ Len(prs) <= Len(prs') /\ Len(prs') \in Nat
<1> USE DEF clone, servers
<1>1. /\ prs \in Seq(Edits) /\ DOMAIN prs = 1..Len(prs) /\ Len(prs) \in Nat
  BY Basics
<1>2. prs' = prs \/ \E d \in Edits : prs' = Append(prs, d)
  <2>1. CASE \E edits \in PrEdits : MergePullRequest(edits)
    BY <2>1, Merged
  <2>2. CASE OpenClone \/ RemoveClone \/ \E e \in UserEdits : UserSvnCommit(e[1], e[2])
    BY <2>2 DEF OpenClone, RemoveClone, UserSvnCommit
  <2>3. CASE Import
    BY <2>3 DEF Import, BeginImport, SnapshotCopy, SnapshotCommit, SnapshotPush,
                SnapshotRecord, FullCopy, FullSkip, FullCommit, FullPush, FullRecord, Push
  <2>4. CASE Mirror
    BY <2>4 DEF Mirror, StartCycle, SkipRevision, MirrorCopy, MirrorRemoveStale,
                MirrorCommit, MirrorPush, MirrorRecord, MirrorDone, PushRejected, Push
  <2>5. CASE Replay
    BY <2>5 DEF Replay, TakePr, Update, CommitNotFound, Stage, CommitToSvn, CommitRefused,
                ApplyFile, SkipPointer
  <2>6. CASE StepFails \/ UNCHANGED vars
    BY <2>6 DEF StepFails, vars
  <2> QED BY <2>1, <2>2, <2>3, <2>4, <2>5, <2>6 DEF Next, Users
<1>3. CASE prs' = prs
  BY <1>1, <1>3
<1>4. CASE \E d \in Edits : prs' = Append(prs, d)
  <2> PICK d \in Edits : prs' = Append(prs, d)
    BY <1>4
  <2>1. /\ DOMAIN prs' = 1..(Len(prs) + 1) /\ Len(prs') = Len(prs) + 1
        /\ \A q \in 1..Len(prs) : prs'[q] = prs[q]
    BY <1>1, Appended
  <2> QED BY <1>1, <2>1
<1> QED BY <1>2, <1>3, <1>4

\* What was good stays good.
LEMMA GoodStays ==
    ASSUME TypeOK, [Next]_vars
    PROVE  AllowedTrees \subseteq AllowedTrees' /\ GoodCommits \subseteq GoodCommits'
<1>1. \A q \in DOMAIN prs : q \in DOMAIN prs' /\ prs'[q] = prs[q]
  BY PrsGrow
<1>2. AllowedTrees \subseteq AllowedTrees'
  <2> SUFFICES ASSUME NEW t \in AllowedTrees, NEW p \in Paths,
                      t[p] # Missing, Forbidden(p, t[p])
               PROVE  \E q \in DOMAIN prs' : p \in DOMAIN prs'[q] /\ prs'[q][p] = t[p]
    BY DEF AllowedTrees, Forbidden
  <2>1. \E q \in DOMAIN prs : p \in DOMAIN prs[q] /\ prs[q][p] = t[p]
    BY DEF AllowedTrees
  <2> QED BY <1>1, <2>1
<1>3. GoodCommits \subseteq GoodCommits'
  <2> SUFFICES ASSUME NEW c \in GoodCommits PROVE c \in GoodCommits'
    OBVIOUS
  <2>1. c \in Commits /\ c.tree \in AllowedTrees'
    BY <1>2 DEF GoodCommits
  <2>2. ASSUME c.kind # "merge"
        PROVE  c.n \in 1..Len(svn') /\ ExactTo(svn'[c.n].tree, c.kind, c.tree, c.attrs)
    <3>1. c.n \in 1..Len(svn) /\ ExactTo(svn[c.n].tree, c.kind, c.tree, c.attrs)
      BY <2>2 DEF GoodCommits
    <3> QED BY <3>1, SvnGrows
  <2> QED BY <2>1, <2>2 DEF GoodCommits, ExactTo, Blocked, Policy
<1> QED BY <1>2, <1>3

\* A pass of the copy brings over what an import is to bring.
LEMMA CopyIsExact ==
    ASSUME TypeOK, NEW r \in 1..Len(svn), CopyTreeWithPolicy(r), work \in AllowedTrees
    PROVE  /\ work' \in AllowedTrees
           /\ ExactTo(svn[r].tree, "import", work', attrs')
<1>1. r # 0 /\ r \in 0..Len(svn) /\ Tree(r) = svn[r].tree
  BY TreesOfSvn DEF Tree
<1>2. Tree(r) \in Trees /\ work \in Trees
  BY <1>1, TreesOfSvn DEF TypeOK
<1>3. \A p \in Paths : work'[p] = IF p \in Copyable(r) THEN Tree(r)[p] ELSE work[p]
  BY DEF CopyTreeWithPolicy
<1>4. work' \in Trees
  BY <1>1, CopyType
<1>5. \A p \in Copyable(r) : ~Forbidden(p, Tree(r)[p])
  BY DEF Copyable, Forbidden, Blocked, Policy
<1>6. work' \in AllowedTrees
  <2> SUFFICES ASSUME NEW p \in Paths, work'[p] # Missing, Forbidden(p, work'[p])
               PROVE  \E q \in DOMAIN prs : p \in DOMAIN prs[q] /\ prs[q][p] = work'[p]
    BY <1>4 DEF AllowedTrees
  <2>1. work'[p] = work[p]
    BY <1>3, <1>5
  <2> QED BY <2>1 DEF AllowedTrees
<1>7. ExactTo(svn[r].tree, "import", work', attrs')
  <2> SUFFICES ASSUME NEW p \in Paths \ DotPaths, Tree(r)[p] # Missing,
                      ~Blocked(p, Tree(r)[p])
               PROVE  /\ work'[p] = Tree(r)[p]
                      /\ Policy(p, Tree(r)[p]) = "lfs" => p \in attrs'
    BY <1>1 DEF ExactTo
  <2>1. p \in Copyable(r)
    BY DEF Copyable
  <2> QED BY <1>3, <2>1 DEF CopyTreeWithPolicy
<1> QED BY <1>6, <1>7

\* Without its stale files such a tree is a mirror's.
LEMMA StaleRemoved ==
    ASSUME TypeOK, NEW r \in 1..Len(svn), RemoveStaleFiles(r), attrs' = attrs,
           work \in AllowedTrees, ExactTo(svn[r].tree, "import", work, attrs)
    PROVE  /\ work' \in AllowedTrees
           /\ ExactTo(svn[r].tree, "mirror", work', attrs')
<1>1. r # 0 /\ r \in 0..Len(svn) /\ Tree(r) = svn[r].tree
  BY TreesOfSvn DEF Tree
<1>2. work' = [p \in Paths |-> IF p \notin DotPaths /\ Tree(r)[p] = Missing
                               THEN Missing ELSE work[p]]
  BY DEF RemoveStaleFiles
<1>3. work' \in Trees
  BY <1>2 DEF TypeOK, Trees
<1>4. work' \in AllowedTrees
  <2> SUFFICES ASSUME NEW p \in Paths, work'[p] # Missing, Forbidden(p, work'[p])
               PROVE  \E q \in DOMAIN prs : p \in DOMAIN prs[q] /\ prs[q][p] = work'[p]
    BY <1>3 DEF AllowedTrees
  <2>1. work'[p] = work[p]
    BY <1>2
  <2> QED BY <2>1 DEF AllowedTrees
<1>5. ExactTo(svn[r].tree, "mirror", work', attrs')
  <2> SUFFICES ASSUME NEW p \in Paths \ DotPaths
               PROVE  /\ (Tree(r)[p] # Missing /\ ~Blocked(p, Tree(r)[p])) =>
                           /\ work'[p] = Tree(r)[p]
                           /\ Policy(p, Tree(r)[p]) = "lfs" => p \in attrs'
                      /\ Tree(r)[p] = Missing => work'[p] = Missing
    BY <1>1 DEF ExactTo
  <2> QED BY <1>1, <1>2 DEF ExactTo
<1> QED BY <1>4, <1>5

\* A commit of the clone is good when its working tree is.
LEMMA CommitIsGood ==
    ASSUME TypeOK, FilesOK, NEW kind \in {"mirror", "import"}, rev \in 1..Len(svn),
           Commit(kind, rev), ExactTo(svn[rev].tree, kind, work, attrs)
    PROVE  \A i \in DOMAIN ahead' : ahead'[i] \in GoodCommits
<1> DEFINE c == [kind |-> kind, n |-> rev, tree |-> work, attrs |-> attrs]
<1>1. \A i \in DOMAIN ahead' :
         ahead'[i] = c \/ \E j \in DOMAIN ahead : ahead'[i] = ahead[j]
  BY Basics, CommitType
<1>2. c \in Commits
  BY Basics DEF TypeOK, Commits
<1>3. c \in GoodCommits
  BY <1>2 DEF GoodCommits, FilesOK
<1> HIDE DEF c
<1> QED BY <1>1, <1>3 DEF FilesOK

\* Steps that leave the files of the clone and the branch alone.
LEMMA FilesKept ==
    ASSUME TypeOK, [Next]_vars, FilesOK,
           UNCHANGED <<work, attrs, branch, ahead>>,
           \/ UNCHANGED <<pc, rev>>
           \/ pc' \notin {"stale", "snapshot commit", "full commit", "commit"}
    PROVE  FilesOK'
<1>1. work' \in AllowedTrees' /\ \A i \in DOMAIN ahead' : ahead'[i] \in GoodCommits'
  BY GoodStays DEF FilesOK
<1>2. \A i \in DOMAIN branch' : branch'[i] \in GoodCommits'
  BY GoodStays DEF FilesOK
<1>3. /\ (pc' \in {"stale", "snapshot commit", "full commit"})
         => ExactTo(svn'[rev'].tree, "import", work', attrs')
      /\ (pc' = "commit") => ExactTo(svn'[rev'].tree, "mirror", work', attrs')
  <2>1. CASE UNCHANGED <<pc, rev>>
    <3>1. (pc \in {"stale", "snapshot commit", "full commit", "commit"})
          => rev \in 1..Len(svn)
      BY DEF TypeOK
    <3>2. (pc \in {"stale", "snapshot commit", "full commit", "commit"})
          => svn'[rev] = svn[rev]
      BY <3>1, SvnGrows
    <3> QED BY <2>1, <3>2 DEF FilesOK
  <2>2. CASE pc' \notin {"stale", "snapshot commit", "full commit", "commit"}
    BY <2>2
  <2> QED BY <2>1, <2>2
<1> QED BY <1>1, <1>2, <1>3 DEF FilesOK, ExactTo, Blocked, Policy

\* Opening the clone, and deleting it.
LEMMA OpenFiles ==
    ASSUME TypeOK, [Next]_vars, FilesOK, OpenClone \/ RemoveClone
    PROVE  FilesOK'
<1> USE DEF servers
<1>1. AllowedTrees \subseteq AllowedTrees' /\ GoodCommits \subseteq GoodCommits'
  BY GoodStays
<1>2. /\ branch' = branch /\ ahead' = <<>> /\ pc' = "idle"
  BY DEF OpenClone, RemoveClone
<1>3. Empty \in AllowedTrees
  BY TreesOfSvn DEF AllowedTrees, Empty
<1>4. work' \in AllowedTrees
  <2>1. CASE branch = <<>> \/ RemoveClone
    BY <1>3, <2>1 DEF OpenClone, RemoveClone
  <2>2. CASE branch # <<>> /\ OpenClone
    <3>1. Len(branch) \in DOMAIN branch
      BY <2>2, Basics, LastElement
    <3>2. branch[Len(branch)].tree \in AllowedTrees
      BY <3>1 DEF FilesOK, GoodCommits
    <3> QED BY <2>2, <3>2 DEF OpenClone
  <2> QED BY <2>1, <2>2
<1>5. DOMAIN ahead' = {}
  BY <1>2
<1>6. \A i \in DOMAIN branch' : branch'[i] \in GoodCommits'
  BY <1>1, <1>2 DEF FilesOK
<1> QED BY <1>1, <1>2, <1>4, <1>5, <1>6 DEF FilesOK

\* The merge of a pull request.
LEMMA MergeFiles ==
    ASSUME TypeOK, [Next]_vars, FilesOK, NEW edits \in PrEdits, MergePullRequest(edits)
    PROVE  FilesOK'
<1>1. AllowedTrees \subseteq AllowedTrees' /\ GoodCommits \subseteq GoodCommits'
  BY GoodStays
<1>2. UNCHANGED <<work, attrs, ahead, pc, rev>>
  BY DEF MergePullRequest, clone, cycle
<1>3. PICK d \in Edits, c \in Commits :
             /\ prs' = Append(prs, d) /\ branch' = Append(branch, c)
             /\ c.kind = "merge" /\ branch # <<>>
             /\ \A p \in Paths :
                   \/ p \in DOMAIN d /\ c.tree[p] = d[p]
                   \/ c.tree[p] = branch[Len(branch)].tree[p]
  BY Merged
<1>4. branch \in Seq(Commits) /\ prs \in Seq(Edits)
  BY Basics
<1>5. c \in GoodCommits'
  <2>1. Len(prs) + 1 \in DOMAIN prs' /\ prs'[Len(prs) + 1] = d
    BY <1>3, <1>4, Appended
  <2>2. branch[Len(branch)].tree \in AllowedTrees'
    BY <1>1, <1>3, <1>4, LastElement DEF FilesOK, GoodCommits
  <2>3. c.tree \in AllowedTrees'
    <3> SUFFICES ASSUME NEW p \in Paths, c.tree[p] # Missing, Forbidden(p, c.tree[p])
                 PROVE  \E q \in DOMAIN prs' : p \in DOMAIN prs'[q] /\ prs'[q][p] = c.tree[p]
      BY DEF AllowedTrees, Commits, Forbidden
    <3>1. CASE p \in DOMAIN d /\ c.tree[p] = d[p]
      BY <2>1, <3>1
    <3>2. CASE c.tree[p] = branch[Len(branch)].tree[p]
      BY <2>2, <3>2 DEF AllowedTrees, Forbidden
    <3> QED BY <1>3, <3>1, <3>2
  <2> QED BY <1>3, <2>3 DEF GoodCommits
<1>6. \A i \in DOMAIN branch' : branch'[i] \in GoodCommits'
  <2> SUFFICES ASSUME NEW i \in DOMAIN branch' PROVE branch'[i] \in GoodCommits'
    OBVIOUS
  <2>1. branch'[i] = c \/ (i \in DOMAIN branch /\ branch'[i] = branch[i])
    BY <1>3, <1>4, NewOrOld
  <2> QED BY <1>1, <1>5, <2>1 DEF FilesOK
<1>7. work' \in AllowedTrees' /\ \A i \in DOMAIN ahead' : ahead'[i] \in GoodCommits'
  BY <1>1, <1>2 DEF FilesOK
<1>8. svn' = svn
  BY DEF MergePullRequest
<1>9. /\ (pc' \in {"stale", "snapshot commit", "full commit"})
         => ExactTo(svn'[rev'].tree, "import", work', attrs')
      /\ (pc' = "commit") => ExactTo(svn'[rev'].tree, "mirror", work', attrs')
  BY <1>2, <1>8 DEF FilesOK
<1> QED BY <1>6, <1>7, <1>9 DEF FilesOK, ExactTo, Blocked, Policy

\* An empty sequence has no elements.
LEMMA EmptyDomain ==
    ASSUME NEW S, NEW log \in Seq(S), log = << >>
    PROVE  DOMAIN log = {}
<1>1. Len(log) = 0
  OBVIOUS
<1>2. DOMAIN log = 1..Len(log)
  BY LenProperties
<1> QED BY <1>1, <1>2

\* A push.
LEMMA PushFiles ==
    ASSUME TypeOK, [Next]_vars, FilesOK, Push,
           pc' \notin {"stale", "snapshot commit", "full commit", "commit"}
    PROVE  FilesOK'
<1>1. AllowedTrees \subseteq AllowedTrees' /\ GoodCommits \subseteq GoodCommits'
  BY GoodStays
<1>2. branch' = branch \o ahead /\ ahead' = <<>> /\ work' = work
  BY DEF Push
<1>3. \A i \in DOMAIN branch' : branch'[i] \in GoodCommits
  <2> SUFFICES ASSUME NEW i \in DOMAIN (branch \o ahead)
               PROVE  (branch \o ahead)[i] \in GoodCommits
    BY <1>2
  <2>1. branch \in Seq(Commits) /\ ahead \in Seq(Commits)
    BY Basics
  <2>2. \A k \in DOMAIN (branch \o ahead) :
           \/ k \in DOMAIN branch /\ (branch \o ahead)[k] = branch[k]
           \/ \E j \in DOMAIN ahead : (branch \o ahead)[k] = ahead[j]
    BY ONLY <2>1, EitherPart
  <2>3. /\ \A k \in DOMAIN branch : branch[k] \in GoodCommits
        /\ \A k \in DOMAIN ahead : ahead[k] \in GoodCommits
    BY DEF FilesOK
  <2> QED BY ONLY <2>2, <2>3, i \in DOMAIN (branch \o ahead)
<1>4. DOMAIN ahead' = {}
  BY <1>2, CloneTypes, EmptyDomain
<1> QED BY <1>1, <1>2, <1>3, <1>4 DEF FilesOK

\* Every step keeps the files that go to Git what they should be.
LEMMA FilesStep ==
    ASSUME TypeOK, [Next]_vars, FilesOK
    PROVE  FilesOK'
<1> USE DEF clone, servers, wc, db, cycle, replay, rest
<1>1. AllowedTrees \subseteq AllowedTrees' /\ GoodCommits \subseteq GoodCommits'
  BY GoodStays
<1>2. CASE SnapshotCopy \/ FullCopy \/ MirrorCopy
  <2>1. /\ CopyTreeWithPolicy(rev) /\ UNCHANGED <<svn, branch, ahead, rev>>
        /\ pc' \in {"snapshot commit", "full commit", "stale"}
    BY <1>2 DEF SnapshotCopy, FullCopy, MirrorCopy
  <2>2. rev \in 1..Len(svn)
    BY <1>2, InHistory
  <2>3. work' \in AllowedTrees /\ ExactTo(svn[rev].tree, "import", work', attrs')
    BY <2>1, <2>2, CopyIsExact DEF FilesOK
  <2>4. /\ \A i \in DOMAIN branch' : branch'[i] \in GoodCommits'
        /\ \A i \in DOMAIN ahead' : ahead'[i] \in GoodCommits'
    BY <1>1, <2>1 DEF FilesOK
  <2> QED BY <1>1, <2>1, <2>3, <2>4 DEF FilesOK, ExactTo, Blocked, Policy
<1>3. CASE MirrorRemoveStale
  <2>1. /\ RemoveStaleFiles(rev) /\ UNCHANGED <<svn, branch, ahead, rev, attrs>>
        /\ pc = "stale" /\ pc' = "commit"
    BY <1>3 DEF MirrorRemoveStale
  <2>2. rev \in 1..Len(svn)
    BY <2>1 DEF TypeOK
  <2>3. work' \in AllowedTrees /\ ExactTo(svn[rev].tree, "mirror", work', attrs')
    BY <2>1, <2>2, StaleRemoved DEF FilesOK
  <2>4. /\ \A i \in DOMAIN branch' : branch'[i] \in GoodCommits'
        /\ \A i \in DOMAIN ahead' : ahead'[i] \in GoodCommits'
    BY <1>1, <2>1 DEF FilesOK
  <2> QED BY <1>1, <2>1, <2>3, <2>4 DEF FilesOK, ExactTo, Blocked, Policy
<1>4. CASE SnapshotCommit \/ FullCommit \/ MirrorCommit
  <2>1. /\ UNCHANGED <<svn, branch, work>>
        /\ pc' \notin {"stale", "snapshot commit", "full commit", "commit"}
    BY <1>4 DEF SnapshotCommit, FullCommit, MirrorCommit
  <2>2. \/ pc \in {"snapshot commit", "full commit"} /\ Commit("import", rev)
        \/ pc = "commit" /\ Commit("mirror", rev)
    BY <1>4 DEF SnapshotCommit, FullCommit, MirrorCommit
  <2>3. rev \in 1..Len(svn)
    BY <2>2 DEF TypeOK
  <2>4. \A i \in DOMAIN ahead' : ahead'[i] \in GoodCommits
    <3>1. CASE pc \in {"snapshot commit", "full commit"} /\ Commit("import", rev)
      BY <2>3, <3>1, CommitIsGood DEF FilesOK
    <3>2. CASE pc = "commit" /\ Commit("mirror", rev)
      BY <2>3, <3>2, CommitIsGood DEF FilesOK
    <3> QED BY <2>2, <3>1, <3>2
  <2>5. work' \in AllowedTrees' /\ \A i \in DOMAIN branch' : branch'[i] \in GoodCommits'
    BY <1>1, <2>1 DEF FilesOK
  <2> QED BY <1>1, <2>1, <2>4, <2>5 DEF FilesOK
<1>5. CASE SnapshotPush \/ FullPush \/ MirrorPush
  <2>1. /\ Push \/ UNCHANGED <<work, attrs, branch, ahead>>
        /\ pc' \notin {"stale", "snapshot commit", "full commit", "commit"}
    BY <1>5 DEF SnapshotPush, FullPush, MirrorPush
  <2> QED BY <2>1, FilesKept, PushFiles
<1>6. CASE \E e \in UserEdits : UserSvnCommit(e[1], e[2])
  <2>1. UNCHANGED <<work, attrs, branch, ahead, pc, rev>>
    BY <1>6 DEF UserSvnCommit
  <2> QED BY <2>1, FilesKept
<1>7. CASE Import
  <2>1. CASE SnapshotRecord \/ FullSkip \/ FullRecord
             \/ \E mode \in {"snapshot", "full"} : BeginImport(mode)
    <3>1. /\ UNCHANGED <<work, attrs, branch, ahead>>
          /\ pc' \notin {"stale", "snapshot commit", "full commit", "commit"}
      BY <2>1 DEF SnapshotRecord, FullSkip, FullRecord, BeginImport
    <3> QED BY <3>1, FilesKept
  <2> QED BY <1>2, <1>4, <1>5, <1>7, <2>1 DEF Import
<1>8. CASE Mirror
  <2>1. CASE StartCycle \/ SkipRevision \/ MirrorRecord \/ MirrorDone \/ PushRejected
    <3>1. /\ UNCHANGED <<work, attrs, branch, ahead>>
          /\ pc' \notin {"stale", "snapshot commit", "full commit", "commit"}
      BY <2>1 DEF StartCycle, SkipRevision, MirrorRecord, MirrorDone, PushRejected
    <3> QED BY <3>1, FilesKept
  <2> QED BY <1>2, <1>3, <1>4, <1>5, <1>8, <2>1 DEF Mirror
<1>9. CASE Replay
  <2>1. /\ UNCHANGED <<work, attrs, branch, ahead>>
        /\ pc' \notin {"stale", "snapshot commit", "full commit", "commit"}
    BY <1>9 DEF Replay, TakePr, Update, CommitNotFound, Stage, CommitToSvn,
                CommitRefused, ApplyFile, SkipPointer
  <2> QED BY <2>1, FilesKept
<1>10. CASE StepFails
  <2>1. /\ UNCHANGED <<work, attrs, branch, ahead>>
        /\ pc' \notin {"stale", "snapshot commit", "full commit", "commit"}
    BY <1>10 DEF StepFails
  <2> QED BY <2>1, FilesKept
<1>11. CASE UNCHANGED vars
  <2>1. UNCHANGED <<work, attrs, branch, ahead, pc, rev>>
    BY <1>11 DEF vars
  <2> QED BY <2>1, FilesKept
<1> QED BY <1>6, <1>7, <1>8, <1>9, <1>10, <1>11, OpenFiles, MergeFiles DEF Next, Users

LEMMA InitTypes == Init => TypeOK /\ FilesOK
<1> SUFFICES ASSUME Init PROVE TypeOK /\ FilesOK
  OBVIOUS
<1>1. Initial \in Trees /\ Empty \in Trees /\ Empty \in AllowedTrees
  BY PersonalFilesAssumption DEF Empty, Trees, AllowedTrees
<1>2. /\ svn = <<[tree |-> Initial, of |-> 0]>> /\ branch = <<>> /\ prs = <<>>
      /\ ahead = <<>> /\ work = Empty /\ attrs = {} /\ wcRev = 0 /\ disk = Empty
      /\ scheduled = {} /\ wm = 0 /\ prLog = {} /\ pc = "idle" /\ rev = 0
      /\ upto = 0 /\ pr = 0 /\ todo = {}
  BY DEF Init
<1>3. [tree |-> Initial, of |-> 0] \in Revisions
  BY <1>1 DEF Revisions
<1>4. svn \in Seq(Revisions) /\ svn # <<>> /\ Len(svn) = 1
  BY <1>2, <1>3
<1>5. /\ branch \in Seq(Commits) /\ ahead \in Seq(Commits) /\ prs \in Seq(Edits)
      /\ Len(prs) = 0 /\ DOMAIN branch = {} /\ DOMAIN ahead = {}
  BY <1>2, EmptySeq
<1>6. wcRev \in 0..Len(svn) /\ upto \in 0..Len(svn) /\ pr \in 0..Len(prs) /\ prLog = 1..pr
  BY <1>2, <1>4, <1>5
<1>7. TypeOK
  BY <1>1, <1>2, <1>4, <1>5, <1>6 DEF TypeOK
<1>8. FilesOK
  BY <1>1, <1>2, <1>5 DEF FilesOK
<1> QED BY <1>7, <1>8

\* The types, and what the files of the clone and the branch are, hold in
\* every state.
THEOREM FilesInvariant == Spec => [](TypeOK /\ FilesOK)
<1>1. TypeOK /\ FilesOK /\ [Next]_vars => (TypeOK /\ FilesOK)'
  BY TypeStep, FilesStep
<1> QED BY <1>1, InitTypes, PTL DEF Spec

\* Every variable keeps its type.
THEOREM TypeCorrect == Spec => []TypeOK
  BY FilesInvariant, PTL

\* Whatever was in the clone before, whatever fails and however often people
\* import again, a mirrored commit is its revision as far as the policy lets
\* it through, and a file the policy forbids is in a copy only where a pull
\* request put it.
THEOREM CopiesFromSvn == Spec => []CopiesAreFaithful
<1>1. TypeOK /\ FilesOK => CopiesAreFaithful
  <2> SUFFICES ASSUME TypeOK, FilesOK, NEW i \in Copies
               PROVE  /\ \A p \in Paths \ DotPaths :
                         LET file == svn[branch[i].n].tree[p] IN
                         /\ p \in Copyable(branch[i].n) =>
                              /\ branch[i].tree[p] = file
                              /\ Policy(p, file) = "lfs" => p \in branch[i].attrs
                         /\ (file = Missing /\ branch[i].kind = "mirror")
                            => branch[i].tree[p] = Missing
                      /\ \A p \in Paths :
                         LET file == branch[i].tree[p] IN
                         file # Missing /\ Forbidden(p, file) =>
                           \E q \in DOMAIN prs : p \in DOMAIN prs[q] /\ prs[q][p] = file
    BY DEF CopiesAreFaithful, MirrorsAreExact, OnlyAllowedFilesReachGit
  <2>1. branch[i] \in GoodCommits /\ branch[i].kind # "merge"
    BY DEF Copies, FilesOK
  <2>2. /\ branch[i].n \in 1..Len(svn) /\ branch[i].tree \in AllowedTrees
        /\ ExactTo(svn[branch[i].n].tree, branch[i].kind, branch[i].tree, branch[i].attrs)
    BY <2>1 DEF GoodCommits
  <2>3. Tree(branch[i].n) = svn[branch[i].n].tree
    BY <2>2, TreesOfSvn DEF Tree
  <2>4. \A p \in Paths \ DotPaths :
           LET file == svn[branch[i].n].tree[p] IN
           /\ p \in Copyable(branch[i].n) =>
                /\ branch[i].tree[p] = file
                /\ Policy(p, file) = "lfs" => p \in branch[i].attrs
           /\ (file = Missing /\ branch[i].kind = "mirror")
              => branch[i].tree[p] = Missing
    BY <2>2, <2>3 DEF ExactTo, Copyable
  <2>5. \A p \in Paths :
           LET file == branch[i].tree[p] IN
           file # Missing /\ Forbidden(p, file) =>
             \E q \in DOMAIN prs : p \in DOMAIN prs[q] /\ prs[q][p] = file
    BY <2>2 DEF AllowedTrees
  <2> QED BY <2>4, <2>5
<1> QED BY <1>1, FilesInvariant, PTL

-----------------------------------------------------------------------------
(* From Git to SVN: the invariant.                                         *)

\* What the requests taken up so far may leave on the disk of the working
\* copy: a file they set, resolved, or none.
Outcomes ==
    {o \in Paths \X (Files \cup {Missing}) :
        \E q \in 1..pr : /\ o[1] \in DOMAIN prs[q]
                         /\ o[2] \in {Missing, Plain(prs[q][o[1]].blob)}}

\* What differs from the revision the working copy is at, or is scheduled to,
\* is there because a request taken up wrote it, in whatever cycle that was.
WcOK ==
    \A p \in Paths : (p \in scheduled \/ disk[p] # Base(p)) => <<p, disk[p]>> \in Outcomes

\* Revisions are of requests taken up; the first one is not.
OfTaken == svn[1].of = 0 /\ \A r \in DOMAIN svn : svn[r].of <= pr

ReplayOK == WcOK /\ OfTaken /\ ReplayWritesOnlyItsFiles

LEMMA OutcomesGrow ==
    ASSUME TypeOK, [Next]_vars
    PROVE  pr <= pr' /\ pr' \in Nat /\ Outcomes \subseteq Outcomes'
<1> USE DEF clone, servers, wc, db, cycle, replay, rest
<1>1. /\ pr \in Nat /\ pr <= Len(prs) /\ DOMAIN prs = 1..Len(prs) /\ Len(prs) \in Nat
      /\ \A q \in DOMAIN prs : q \in DOMAIN prs' /\ prs'[q] = prs[q]
  BY Basics, PrsGrow
<1>2. pr' = pr \/ pr' = pr + 1
  <2>1. CASE Users \/ OpenClone \/ RemoveClone \/ StepFails \/ UNCHANGED vars
    BY <2>1 DEF Users, UserSvnCommit, MergePullRequest, OpenClone, RemoveClone, StepFails, vars
  <2>2. CASE Import
    BY <2>2 DEF Import, BeginImport, SnapshotCopy, SnapshotCommit, SnapshotPush,
                SnapshotRecord, FullCopy, FullSkip, FullCommit, FullPush, FullRecord
  <2>3. CASE Mirror
    BY <2>3 DEF Mirror, StartCycle, SkipRevision, MirrorCopy, MirrorRemoveStale,
                MirrorCommit, MirrorPush, MirrorRecord, MirrorDone, PushRejected
  <2>4. CASE TakePr
    BY <2>4, Taken
  <2>5. CASE Replay /\ ~TakePr
    BY <2>5 DEF Replay, Update, CommitNotFound, Stage, CommitToSvn, CommitRefused,
                ApplyFile, SkipPointer
  <2> QED BY <2>1, <2>2, <2>3, <2>4, <2>5 DEF Next, Replay
<1>3. pr <= pr' /\ pr' \in Nat
  BY <1>1, <1>2
<1>4. \A q \in 1..pr : q \in 1..pr' /\ prs'[q] = prs[q]
  BY <1>1, <1>3
<1>5. Outcomes \subseteq Outcomes'
  BY <1>4 DEF Outcomes
<1> QED BY <1>3, <1>5

\* The revision a working copy is at does not change under it.
LEMMA BaseKept ==
    ASSUME TypeOK, [Next]_vars, wcRev' = wcRev
    PROVE  \A p \in Paths : Base(p)' = Base(p)
<1>1. wcRev = 0 \/ wcRev \in 1..Len(svn)
  BY Basics, TreesOfSvn
<1>2. ASSUME NEW p \in Paths PROVE Base(p)' = Base(p)
  <2>1. CASE wcRev = 0
    BY <2>1 DEF Base, Tree, Empty
  <2>2. CASE wcRev \in 1..Len(svn)
    <3>1. svn'[wcRev] = svn[wcRev] /\ wcRev # 0
      BY <2>2, SvnGrows
    <3> QED BY <3>1 DEF Base, Tree
  <2> QED BY <1>1, <2>1, <2>2
<1> QED BY <1>2

\* A step that leaves the working copy alone.
LEMMA WcKept ==
    ASSUME TypeOK, [Next]_vars, WcOK, UNCHANGED <<disk, scheduled, wcRev>>
    PROVE  WcOK'
<1> SUFFICES ASSUME NEW p \in Paths, p \in scheduled' \/ disk'[p] # Base(p)'
             PROVE  <<p, disk'[p]>> \in Outcomes'
  BY DEF WcOK
<1>1. Base(p)' = Base(p) /\ disk' = disk /\ scheduled' = scheduled
  BY BaseKept
<1> QED BY <1>1, OutcomesGrow DEF WcOK

\* An update brings in what the working copy has not touched.
LEMMA WcUpdated ==
    ASSUME TypeOK, [Next]_vars, WcOK, Update
    PROVE  WcOK'
<1> SUFFICES ASSUME NEW p \in Paths, p \in scheduled' \/ disk'[p] # Base(p)'
             PROVE  <<p, disk'[p]>> \in Outcomes'
  BY DEF WcOK
<1>1. /\ disk'[p] = IF Pristine(p) THEN Youngest[p] ELSE disk[p]
      /\ scheduled' = scheduled /\ wcRev' = Len(svn) /\ svn' = svn
  BY DEF Update, servers
<1>2. Base(p)' = Youngest[p]
  BY <1>1, TreesOfSvn DEF Base, Tree, Youngest
<1>3. ~Pristine(p)
  BY <1>1, <1>2 DEF Pristine
<1>4. disk'[p] = disk[p] /\ (p \in scheduled \/ disk[p] # Base(p))
  BY <1>1, <1>3 DEF Pristine
<1> QED BY <1>4, OutcomesGrow DEF WcOK

\* What is written for a request is an outcome of it.
LEMMA WcWritten ==
    ASSUME TypeOK, [Next]_vars, WcOK, NEW w \in Paths, ApplyFile(w) \/ SkipPointer(w)
    PROVE  WcOK'
<1>1. /\ UNCHANGED <<scheduled, wcRev, svn, pr, prs>> /\ pc = "apply" /\ w \in todo
      /\ disk' \in {disk, [disk EXCEPT ![w] = Missing],
                    [disk EXCEPT ![w] = Plain(prs[pr][w].blob)]}
  BY DEF ApplyFile, SkipPointer, Write, ContentAt, Resolved, servers
<1>2. pr \in 1..pr /\ pr \in DOMAIN prs /\ w \in DOMAIN prs[pr]
  BY <1>1, Basics DEF TypeOK
<1>3. disk \in [Paths -> Files \cup {Missing}]
  BY DEF TypeOK, Trees
<1>4. Plain(prs[pr][w].blob) \in Files \cup {Missing}
  BY <1>2, EditsOfPr, FileTypes
<1>5. <<w, Missing>> \in Outcomes /\ <<w, Plain(prs[pr][w].blob)>> \in Outcomes
  BY <1>2, <1>4 DEF Outcomes
<1> SUFFICES ASSUME NEW p \in Paths, p \in scheduled' \/ disk'[p] # Base(p)'
             PROVE  <<p, disk'[p]>> \in Outcomes'
  BY DEF WcOK
<1>6. CASE disk'[p] = disk[p]
  BY <1>1, <1>6, OutcomesGrow, BaseKept DEF WcOK
<1>7. CASE disk'[p] # disk[p]
  <2>1. p = w /\ disk'[p] \in {Missing, Plain(prs[pr][w].blob)}
    BY <1>1, <1>3, <1>7
  <2> QED BY <1>5, <2>1, OutcomesGrow
<1> QED BY <1>6, <1>7

\* Only what differs is scheduled.
LEMMA WcStaged ==
    ASSUME TypeOK, [Next]_vars, WcOK, Stage
    PROVE  WcOK'
<1>1. /\ scheduled' \subseteq scheduled \cup ToAdd \cup ToDelete
      /\ UNCHANGED <<disk, wcRev>>
  BY DEF Stage
<1>2. \A p \in ToAdd \cup ToDelete : disk[p] # Base(p)
  BY DEF ToAdd, ToDelete
<1> QED BY <1>1, <1>2, OutcomesGrow, BaseKept DEF WcOK

\* A replay's revision, and the working copy it leaves.
LEMMA WcSent ==
    ASSUME TypeOK, [Next]_vars, ReplayOK, CommitToSvn
    PROVE  ReplayOK'
<1> DEFINE r == [tree |-> ReplayTree, of |-> pr]
<1>1. /\ svn \in Seq(Revisions) /\ r \in Revisions
      /\ svn' = Append(svn, r) /\ pr' = pr /\ prs' = prs /\ scheduled' = {}
      /\ wcRev' = Len(svn')
      /\ disk' = [p \in Paths |-> IF p \in Local THEN disk[p] ELSE ReplayTree[p]]
  BY Replayed DEF CommitToSvn, TypeOK, replay
<1> HIDE DEF r
<1>2. /\ Len(svn') = Len(svn) + 1 /\ Len(svn) \in Nat \ {0} /\ DOMAIN svn = 1..Len(svn)
      /\ svn'[Len(svn) + 1] = r /\ \A n \in 1..Len(svn) : svn'[n] = svn[n]
      /\ DOMAIN svn' = 1..(Len(svn) + 1)
  BY <1>1, Appended, TreesOfSvn
<1>3. r.tree = ReplayTree /\ r.of = pr /\ pr \in Nat
  BY Basics DEF r
<1>4. \A p \in Local : <<p, disk[p]>> \in Outcomes
  BY DEF Local, Sent, ReplayOK, WcOK
<1>5. \A p \in Local : <<p, ReplayTree[p]>> \in Outcomes
  <2> SUFFICES ASSUME NEW p \in Local PROVE <<p, ReplayTree[p]>> \in Outcomes
    OBVIOUS
  <2>1. p \in Paths /\ ReplayTree[p] \in {Missing, disk[p]}
    BY DEF Local, ReplayTree, Sent
  <2>2. <<p, Missing>> \in Outcomes
    BY <1>4 DEF Outcomes
  <2> QED BY <1>4, <2>1, <2>2
<1>6. WcOK'
  <2> SUFFICES ASSUME NEW p \in Paths, p \in scheduled' \/ disk'[p] # Base(p)'
               PROVE  <<p, disk'[p]>> \in Outcomes'
    BY DEF WcOK
  <2>1. Base(p)' = ReplayTree[p]
    BY <1>1, <1>2, <1>3 DEF Base, Tree
  <2>2. p \in Local /\ disk'[p] = disk[p]
    BY <1>1, <2>1
  <2> QED BY <1>4, <2>2, OutcomesGrow
<1>7. OfTaken'
  <2>1. svn'[1] = svn[1] /\ svn[1].of = 0
    BY <1>2 DEF ReplayOK, OfTaken
  <2>2. \A n \in DOMAIN svn' : svn'[n].of <= pr
    <3> SUFFICES ASSUME NEW n \in DOMAIN svn' PROVE svn'[n].of <= pr
      OBVIOUS
    <3>1. CASE n = Len(svn) + 1
      BY <1>2, <1>3, <3>1
    <3>2. CASE n \in DOMAIN svn
      BY <1>2, <3>2 DEF ReplayOK, OfTaken
    <3> QED BY <1>2, <3>1, <3>2
  <2> QED BY <1>1, <2>1, <2>2 DEF OfTaken
<1>8. ReplayWritesOnlyItsFiles'
  <2> SUFFICES ASSUME NEW n \in DOMAIN svn', svn'[n].of # 0, NEW p \in Paths,
                      svn'[n].tree[p] # svn'[n - 1].tree[p]
               PROVE  \E q \in 1..svn'[n].of :
                         /\ p \in DOMAIN prs[q]
                         /\ svn'[n].tree[p] \in {Missing, Plain(prs[q][p].blob)}
    BY <1>1 DEF ReplayWritesOnlyItsFiles
  <2>1. CASE n = Len(svn) + 1
    <3>1. svn'[n].tree[p] = ReplayTree[p] /\ svn'[n].of = pr /\ svn'[n - 1] = svn[Len(svn)]
      BY <1>2, <1>3, <2>1
    <3>2. p \in Local
      BY <3>1 DEF ReplayTree, Youngest
    <3>3. <<p, ReplayTree[p]>> \in Outcomes
      BY <1>5, <3>2
    <3> QED BY <3>1, <3>3 DEF Outcomes
  <2>2. CASE n \in DOMAIN svn
    <3>1. n # 1
      BY <1>2, <2>2 DEF ReplayOK, OfTaken
    <3>2. n - 1 \in 1..Len(svn) /\ n \in 1..Len(svn)
      BY <1>2, <2>2, <3>1
    <3>3. svn'[n] = svn[n] /\ svn'[n - 1] = svn[n - 1]
      BY <1>2, <3>2
    <3> QED BY <2>2, <3>3 DEF ReplayOK, ReplayWritesOnlyItsFiles
  <2> QED BY <1>2, <2>1, <2>2
<1> QED BY <1>6, <1>7, <1>8 DEF ReplayOK

\* What happens at SVN and in the working copy when no replay is at work.
LEMMA ReplayKept ==
    ASSUME TypeOK, [Next]_vars, ReplayOK, UNCHANGED svn, WcOK'
    PROVE  ReplayOK'
<1>1. /\ DOMAIN svn = 1..Len(svn) /\ Len(svn) \in Nat \ {0}
      /\ DOMAIN prs = 1..Len(prs) /\ Len(prs) \in Nat /\ pr \in Nat /\ pr <= Len(prs)
  BY Basics, TreesOfSvn
<1>2. \A n \in DOMAIN svn : svn[n].of \in Nat
  <2>1. svn \in Seq(Revisions)
    BY DEF TypeOK
  <2>2. \A n \in 1..Len(svn) : svn[n] \in Revisions
    BY <2>1, ElementOfSeq
  <2> QED BY <1>1, <2>2 DEF Revisions
<1>3. pr <= pr' /\ pr' \in Nat /\ \A q \in DOMAIN prs : prs'[q] = prs[q]
  BY OutcomesGrow, PrsGrow
<1>4. OfTaken'
  BY <1>1, <1>2, <1>3 DEF ReplayOK, OfTaken
<1>5. ReplayWritesOnlyItsFiles'
  <2> SUFFICES ASSUME NEW n \in DOMAIN svn, svn[n].of # 0, NEW p \in Paths,
                      svn[n].tree[p] # svn[n - 1].tree[p]
               PROVE  \E q \in 1..svn[n].of :
                         /\ p \in DOMAIN prs'[q]
                         /\ svn[n].tree[p] \in {Missing, Plain(prs'[q][p].blob)}
    BY DEF ReplayWritesOnlyItsFiles
  <2>1. PICK q \in 1..svn[n].of :
                         /\ p \in DOMAIN prs[q]
                         /\ svn[n].tree[p] \in {Missing, Plain(prs[q][p].blob)}
    BY DEF ReplayOK, ReplayWritesOnlyItsFiles
  <2>2. svn[n].of <= pr
    BY DEF ReplayOK, OfTaken
  <2>3. q \in DOMAIN prs
    BY <1>1, <1>2, <2>2
  <2> QED BY <1>3, <2>1, <2>3
<1> QED BY <1>4, <1>5 DEF ReplayOK

\* A revision of an SVN user.
LEMMA ReplayBesideUsers ==
    ASSUME TypeOK, [Next]_vars, ReplayOK, NEW e \in UserEdits, UserSvnCommit(e[1], e[2])
    PROVE  ReplayOK'
<1> DEFINE r == [tree |-> [Youngest EXCEPT ![e[1]] = e[2]], of |-> 0]
<1>1. /\ svn \in Seq(Revisions) /\ r \in Revisions /\ svn' = Append(svn, r) /\ r.of = 0
      /\ UNCHANGED <<disk, scheduled, wcRev, pr, prs>>
  BY Edited DEF UserSvnCommit, TypeOK, wc, replay
<1> HIDE DEF r
<1>2. WcOK'
  BY <1>1, WcKept DEF ReplayOK
<1>3. /\ Len(svn) \in Nat \ {0} /\ DOMAIN svn = 1..Len(svn)
      /\ svn'[Len(svn) + 1] = r /\ \A n \in 1..Len(svn) : svn'[n] = svn[n]
      /\ DOMAIN svn' = 1..(Len(svn) + 1)
  BY <1>1, Appended, TreesOfSvn
<1>4. svn'[1] = svn[1] /\ svn[1].of = 0 /\ pr \in Nat
  BY <1>3, Basics DEF ReplayOK, OfTaken
<1>5. \A n \in DOMAIN svn' : svn'[n].of <= pr
  <2> SUFFICES ASSUME NEW n \in DOMAIN svn' PROVE svn'[n].of <= pr
    OBVIOUS
  <2>1. CASE n = Len(svn) + 1
    BY <1>1, <1>3, <1>4, <2>1
  <2>2. CASE n \in DOMAIN svn
    BY <1>3, <2>2 DEF ReplayOK, OfTaken
  <2> QED BY <1>3, <2>1, <2>2
<1>6. OfTaken'
  BY <1>1, <1>4, <1>5 DEF OfTaken
<1>7. ReplayWritesOnlyItsFiles'
  <2> SUFFICES ASSUME NEW n \in DOMAIN svn', svn'[n].of # 0, NEW p \in Paths,
                      svn'[n].tree[p] # svn'[n - 1].tree[p]
               PROVE  \E q \in 1..svn'[n].of :
                         /\ p \in DOMAIN prs[q]
                         /\ svn'[n].tree[p] \in {Missing, Plain(prs[q][p].blob)}
    BY <1>1 DEF ReplayWritesOnlyItsFiles
  <2>1. n # Len(svn) + 1
    BY <1>1, <1>3
  <2>2. n # 1
    BY <1>4
  <2>3. n - 1 \in 1..Len(svn) /\ n \in 1..Len(svn)
    BY <1>3, <2>1, <2>2
  <2>4. svn'[n] = svn[n] /\ svn'[n - 1] = svn[n - 1]
    BY <1>3, <2>3
  <2> QED BY <1>3, <2>3, <2>4 DEF ReplayOK, ReplayWritesOnlyItsFiles
<1> QED BY <1>2, <1>6, <1>7 DEF ReplayOK

LEMMA ReplayStep ==
    ASSUME TypeOK, [Next]_vars, ReplayOK
    PROVE  ReplayOK'
<1> USE DEF clone, servers, wc, db, cycle, replay, rest
<1>1. WcOK
  BY DEF ReplayOK
<1>2. CASE UNCHANGED <<svn, disk, scheduled, wcRev>>
  BY <1>1, <1>2, WcKept, ReplayKept
<1>3. CASE Update
  <2>1. UNCHANGED svn
    BY <1>3 DEF Update
  <2> QED BY <1>1, <1>3, <2>1, WcUpdated, ReplayKept
<1>4. CASE \E p \in Paths : ApplyFile(p) \/ SkipPointer(p)
  <2>1. UNCHANGED svn
    BY <1>4 DEF ApplyFile, SkipPointer
  <2> QED BY <1>1, <1>4, <2>1, WcWritten, ReplayKept
<1>5. CASE Stage
  <2>1. UNCHANGED svn
    BY <1>5 DEF Stage
  <2> QED BY <1>1, <1>5, <2>1, WcStaged, ReplayKept
<1>6. CASE OpenClone \/ RemoveClone \/ (\E edits \in PrEdits : MergePullRequest(edits))
  BY <1>2, <1>6 DEF OpenClone, RemoveClone, MergePullRequest
<1>7. CASE Import
  BY <1>2, <1>7 DEF Import, BeginImport, SnapshotCopy, SnapshotCommit, SnapshotPush,
              SnapshotRecord, FullCopy, FullSkip, FullCommit, FullPush, FullRecord, Push
<1>8. CASE Mirror
  BY <1>2, <1>8 DEF Mirror, StartCycle, SkipRevision, MirrorCopy, MirrorRemoveStale,
              MirrorCommit, MirrorPush, MirrorRecord, MirrorDone, PushRejected, Push
<1>9. CASE TakePr \/ CommitNotFound \/ CommitRefused \/ StepFails \/ UNCHANGED vars
  BY <1>2, <1>9 DEF TakePr, CommitNotFound, CommitRefused, StepFails, vars
<1> QED BY <1>3, <1>4, <1>5, <1>6, <1>7, <1>8, <1>9, WcSent, ReplayBesideUsers
        DEF Next, Users, Replay

\* In every state, what differs from SVN in the working copy was written for a
\* pull request, and a replay's revision changes the files of pull requests
\* taken up by then, to what those set.
LEMMA ReplayInvariant == Spec => [](TypeOK /\ FilesOK /\ ReplayOK)
<1>1. Init => ReplayOK
  <2> SUFFICES ASSUME Init PROVE ReplayOK
    OBVIOUS
  <2>1. /\ svn = <<[tree |-> Initial, of |-> 0]>> /\ wcRev = 0 /\ disk = Empty
        /\ scheduled = {} /\ pr = 0
    BY DEF Init
  <2>2. DOMAIN svn = {1} /\ svn[1].of = 0
    BY <2>1
  <2>3. \A p \in Paths : Base(p) = disk[p]
    BY <2>1 DEF Base, Tree
  <2> QED BY <2>1, <2>2, <2>3 DEF ReplayOK, WcOK, OfTaken, ReplayWritesOnlyItsFiles
<1>2. TypeOK /\ ReplayOK /\ [Next]_vars => ReplayOK'
  BY ReplayStep
<1> QED BY <1>1, <1>2, FilesInvariant, PTL DEF Spec

-----------------------------------------------------------------------------
(* Pointers.                                                               *)

\* What SVN users commit is no LFS pointer, nor what they started with.
UsersCommitContents ==
    /\ \A e \in UserEdits : ~e[2].pointer
    /\ \A p \in Paths : ~Initial[p].pointer

PlainTrees == {t \in Trees : \A p \in Paths : ~t[p].pointer}

PlainOK == disk \in PlainTrees /\ \A r \in DOMAIN svn : svn[r].tree \in PlainTrees

LEMMA PlainStep ==
    ASSUME UsersCommitContents, TypeOK, [Next]_vars, PlainOK
    PROVE  PlainOK'
<1> USE DEF clone, servers, wc, db, cycle, replay, rest
<1>1. /\ DOMAIN svn = 1..Len(svn) /\ Len(svn) \in Nat \ {0} /\ svn \in Seq(Revisions)
      /\ disk \in Trees
  BY TreesOfSvn DEF TypeOK
<1>2. Youngest \in PlainTrees /\ disk \in PlainTrees
  BY <1>1 DEF Youngest, PlainOK
<1>3. disk' \in Trees
  BY SvnTypes
<1>4. CASE UNCHANGED <<svn, disk>>
  BY <1>4 DEF PlainOK
<1>5. ASSUME NEW r \in Revisions, svn' = Append(svn, r), r.tree \in PlainTrees
      PROVE  \A n \in DOMAIN svn' : svn'[n].tree \in PlainTrees
  <2> SUFFICES ASSUME NEW n \in DOMAIN svn' PROVE svn'[n].tree \in PlainTrees
    OBVIOUS
  <2>1. svn'[n] = r \/ (n \in DOMAIN svn /\ svn'[n] = svn[n])
    BY <1>1, <1>5, NewOrOld
  <2> QED BY <1>5, <2>1 DEF PlainOK
<1>6. CASE Update
  <2>1. \A p \in Paths : disk'[p] \in {Youngest[p], disk[p]}
    BY <1>6 DEF Update
  <2>2. svn' = svn
    BY <1>6 DEF Update
  <2> QED BY <1>2, <1>3, <2>1, <2>2 DEF PlainOK, PlainTrees
<1>7. CASE \E p \in Paths : ApplyFile(p) \/ SkipPointer(p)
  <2> PICK w \in Paths : ApplyFile(w) \/ SkipPointer(w)
    BY <1>7
  <2>1. /\ svn' = svn
        /\ disk' \in {disk, [disk EXCEPT ![w] = Missing],
                      [disk EXCEPT ![w] = Plain(prs[pr][w].blob)]}
    BY DEF ApplyFile, SkipPointer, Write, ContentAt, Resolved
  <2>2. disk \in [Paths -> Files \cup {Missing}] /\ \A p \in Paths : ~disk[p].pointer
    BY <1>2 DEF PlainTrees, Trees
  <2>3. ~Missing.pointer /\ ~Plain(prs[pr][w].blob).pointer
    BY DEF Missing, Plain
  <2>4. \A p \in Paths : ~disk'[p].pointer
    <3> SUFFICES ASSUME NEW p \in Paths PROVE ~disk'[p].pointer
      OBVIOUS
    <3>1. disk'[p] \in {disk[p], Missing, Plain(prs[pr][w].blob)}
      BY <2>1, <2>2
    <3> QED BY <2>2, <2>3, <3>1
  <2> QED BY <1>3, <2>1, <2>4 DEF PlainOK, PlainTrees
<1>8. CASE CommitToSvn
  <2> DEFINE r == [tree |-> ReplayTree, of |-> pr]
  <2>1. /\ r \in Revisions /\ svn' = Append(svn, r) /\ ReplayTree \in Trees
        /\ disk' = [p \in Paths |-> IF p \in Local THEN disk[p] ELSE ReplayTree[p]]
    BY <1>8, Replayed
  <2>2. \A p \in Paths : ReplayTree[p] \in {Missing, disk[p], Youngest[p]}
    BY DEF ReplayTree, Sent
  <2>3. ReplayTree \in PlainTrees
    BY <1>2, <2>1, <2>2 DEF PlainTrees, Missing
  <2>4. disk' \in PlainTrees
    <3>1. \A p \in Paths : disk'[p] \in {disk[p], ReplayTree[p]}
      BY <2>1
    <3> QED BY <1>2, <1>3, <2>3, <3>1 DEF PlainTrees
  <2> QED BY <1>5, <2>1, <2>3, <2>4 DEF PlainOK
<1>9. CASE \E e \in UserEdits : UserSvnCommit(e[1], e[2])
  <2> PICK e \in UserEdits : UserSvnCommit(e[1], e[2])
    BY <1>9
  <2> DEFINE r == [tree |-> [Youngest EXCEPT ![e[1]] = e[2]], of |-> 0]
  <2>1. /\ r \in Revisions /\ svn' = Append(svn, r) /\ disk' = disk /\ e[1] \in Paths
    BY Edited DEF UserSvnCommit
  <2>2. Youngest \in [Paths -> Files \cup {Missing}] /\ ~e[2].pointer
    BY <1>2 DEF PlainTrees, Trees, UsersCommitContents
  <2>3. \A p \in Paths : r.tree[p] \in {Youngest[p], e[2]}
    BY <2>1, <2>2
  <2>4. r.tree \in PlainTrees
    BY <1>2, <2>1, <2>2, <2>3 DEF PlainTrees, Revisions
  <2> QED BY <1>2, <1>5, <2>1, <2>4 DEF PlainOK
<1>10. CASE OpenClone \/ RemoveClone \/ (\E edits \in PrEdits : MergePullRequest(edits))
  BY <1>4, <1>10 DEF OpenClone, RemoveClone, MergePullRequest
<1>11. CASE Import
  BY <1>4, <1>11 DEF Import, BeginImport, SnapshotCopy, SnapshotCommit, SnapshotPush,
              SnapshotRecord, FullCopy, FullSkip, FullCommit, FullPush, FullRecord, Push
<1>12. CASE Mirror
  BY <1>4, <1>12 DEF Mirror, StartCycle, SkipRevision, MirrorCopy, MirrorRemoveStale,
              MirrorCommit, MirrorPush, MirrorRecord, MirrorDone, PushRejected, Push
<1>13. CASE TakePr \/ CommitNotFound \/ Stage \/ CommitRefused \/ StepFails \/ UNCHANGED vars
  BY <1>4, <1>13 DEF TakePr, CommitNotFound, Stage, CommitRefused, StepFails, vars
<1> QED BY <1>6, <1>7, <1>8, <1>9, <1>10, <1>11, <1>12, <1>13 DEF Next, Users, Replay

\* Whatever is in the working copy from earlier cycles that failed, a replay
\* changes no file that no pull request taken up has set.
THEOREM ReplaysTouchOnlyTheirs == Spec => []ReplayWritesOnlyItsFiles
  BY ReplayInvariant, PTL DEF ReplayOK

\* Where SVN users commit no LFS pointers themselves, replays are faithful:
\* no pointer gets into SVN, also when smudging fails, and only the files that
\* pull requests set are changed.
THEOREM ReplaysFromGit ==
    ASSUME UsersCommitContents
    PROVE  Spec => []ReplaysAreFaithful
<1>1. Init => PlainOK
  <2> SUFFICES ASSUME Init PROVE PlainOK
    OBVIOUS
  <2>1. svn = <<[tree |-> Initial, of |-> 0]>> /\ disk = Empty
    BY DEF Init
  <2>2. Initial \in PlainTrees /\ Empty \in PlainTrees
    BY PersonalFilesAssumption DEF UsersCommitContents, PlainTrees, Empty, Trees, Missing
  <2>3. DOMAIN svn = {1} /\ svn[1].tree = Initial
    BY <2>1
  <2> QED BY <2>1, <2>2, <2>3 DEF PlainOK
<1>2. TypeOK /\ PlainOK /\ [Next]_vars => PlainOK'
  BY PlainStep
<1>3. PlainOK /\ ReplayOK => ReplaysAreFaithful
  BY DEF PlainOK, PlainTrees, ReplayOK, ReplaysAreFaithful, NoPointerInSvn
<1> QED BY <1>1, <1>2, <1>3, ReplayInvariant, PTL DEF Spec
=============================================================================
