------------------------ MODULE HistoryImportProofs ------------------------
(***************************************************************************)
(* Proofs about HistoryImport for every choice of its constants: any       *)
(* histories and policies, any number of imports, faults and pushes.       *)
(***************************************************************************)
EXTENDS HistoryImport, SequenceTheorems, TLAPS

-----------------------------------------------------------------------------
(* Types.                                                                  *)

\* A commit that replays no revision has no author.
Authors == STRING \cup {""}

CommitType ==
    [rev : Nat, tree : Trees, pointers : SUBSET Files, attrs : SUBSET Files,
     author : Authors, identity : {"file", "ldap", "domain", "svn"},
     missed : SUBSET Nat, lfs : BOOLEAN]

\* Every variable has the type the code gives it, and the loop stays within
\* the history.
TypeOK ==
    /\ svn \in Histories
    /\ remote \in Seq(CommitType) /\ local \in Seq(CommitType)
    /\ cloned \in BOOLEAN /\ worktree \in Trees /\ attrs \subseteq Files
    /\ pc \in {"off", "connect", "tree", "commit", "push", "mark"}
    /\ idx \in Nat /\ since \in Nat /\ base \in 0..Len(local)
    /\ cli \in BOOLEAN /\ lfs \in BOOLEAN
    /\ missed \subseteq Nat /\ pushed \in Nat /\ faults \in Nat
    /\ pc = "connect" => base = Len(local)
    /\ pc \in {"tree", "commit", "push"} => idx > 0 /\ idx <= Len(svn) + 1
    /\ pc \in {"commit", "push"} => idx <= Len(svn)

\* An import has a clone; until there is one only others have pushed, and
\* nothing but what an empty repository holds.
UnclonedOK ==
    ~cloned => /\ pc = "off" /\ local = <<>>
               /\ \A i \in DOMAIN remote : remote[i].tree = EmptyTree

-----------------------------------------------------------------------------
(* Lemmas about the data.                                                  *)

\* A revision of the history has a tree and an author.
LEMMA History ==
    ASSUME TypeOK
    PROVE  /\ Len(svn) \in Nat
           /\ \A r \in 1..Len(svn) : Tree(r) \in Trees /\ svn[r].author \in STRING
<1>1. svn \in Seq([tree : Trees, author : STRING])
  <2>1. svn \in Histories
    BY DEF TypeOK
  <2>2. \A h \in Histories : h \in Seq([tree : Trees, author : STRING])
    BY HistoryImportAssumption
  <2> QED BY ONLY <2>1, <2>2
<1>2. Len(svn) \in Nat
  BY <1>1
<1>3. \A r \in 1..Len(svn) : svn[r] \in [tree : Trees, author : STRING]
  BY <1>1, ElementOfSeq
<1> QED BY <1>2, <1>3 DEF Tree

\* The clone and the remote are sequences of commits.
LEMMA Commits ==
    ASSUME TypeOK
    PROVE  /\ Len(local) \in Nat /\ DOMAIN local = 1..Len(local)
           /\ \A i \in DOMAIN local : local[i] \in CommitType
           /\ Len(remote) \in Nat /\ DOMAIN remote = 1..Len(remote)
           /\ \A i \in DOMAIN remote : remote[i] \in CommitType
           /\ base \in Nat /\ ThisRun \subseteq DOMAIN local
<1>1. /\ Len(local) \in Nat /\ DOMAIN local = 1..Len(local)
      /\ \A i \in DOMAIN local : local[i] \in CommitType
      /\ Len(remote) \in Nat /\ DOMAIN remote = 1..Len(remote)
      /\ \A i \in DOMAIN remote : remote[i] \in CommitType
  BY DEF TypeOK
<1>2. base \in 0..Len(local)
  BY DEF TypeOK
<1> QED BY <1>1, <1>2 DEF ThisRun

\* Sequences of commits to which one is appended.
LEMMA AppendCommit ==
    ASSUME NEW S, NEW log \in Seq(S), NEW x \in S
    PROVE  /\ Append(log, x) \in Seq(S)
           /\ Len(Append(log, x)) = Len(log) + 1
           /\ Append(log, x)[Len(log) + 1] = x
           /\ \A i \in 1..Len(log) : Append(log, x)[i] = log[i]
           /\ Last(Append(log, x)) = x /\ Append(log, x) # <<>>
           /\ IsPrefix(log, Append(log, x))
<1> DEFINE new == Append(log, x)
<1>1. /\ new \in Seq(S) /\ Len(new) = Len(log) + 1 /\ Len(log) \in Nat
      /\ \A i \in 1..Len(log) : new[i] = log[i]
      /\ new[Len(log) + 1] = x
  BY AppendProperties
<1>2. new # <<>>
  BY <1>1
<1>3. Last(new) = x
  BY <1>1 DEF Last
<1>4. SubSeq(log, 1, Len(log)) = SubSeq(new, 1, Len(log))
  <2>1. \A i \in 1..Len(log) : log[i] = new[i]
    BY <1>1
  <2> QED BY <1>1, <2>1
<1>5. IsPrefix(log, new)
  BY <1>1, <1>4 DEF IsPrefix
<1> QED BY <1>1, <1>2, <1>3, <1>5

LEMMA BlankType == Blank \in CommitType /\ EmptyTree \in Trees
<1>1. EmptyTree \in Trees
  BY DEF EmptyTree, Trees
<1> QED BY <1>1 DEF Blank, CommitType, Authors

\* The commit that is checked out.
LEMMA HeadType ==
    ASSUME NEW commits \in Seq(CommitType)
    PROVE  /\ HeadOf(commits) \in CommitType
           /\ HeadOf(commits).tree \in Trees
           /\ HeadOf(commits).attrs \subseteq Files
           /\ commits # <<>> => HeadOf(commits) = commits[Len(commits)]
                                /\ Len(commits) \in DOMAIN commits
<1>1. commits # <<>> => Len(commits) \in DOMAIN commits
  <2>1. DOMAIN commits = 1..Len(commits)
    BY LenProperties
  <2>2. commits # <<>> => Len(commits) \in Nat \ {0}
    BY EmptySeq
  <2> QED BY <2>1, <2>2
<1>2. commits # <<>> => Last(commits) \in CommitType
  BY <1>1 DEF Last
<1>3. HeadOf(commits) \in CommitType
  BY <1>2, BlankType DEF HeadOf
<1> QED BY <1>1, <1>3 DEF HeadOf, Last, CommitType

\* Every sequence is a prefix of itself, and one it is a prefix of may grow.
LEMMA PrefixOfItself ==
    ASSUME NEW S, NEW log \in Seq(S) PROVE IsPrefix(log, log)
  BY DEF IsPrefix

LEMMA PrefixKept ==
    ASSUME NEW S, NEW s \in Seq(S), NEW log \in Seq(S), NEW x \in S, IsPrefix(s, log)
    PROVE  IsPrefix(s, Append(log, x))
<1> DEFINE new == Append(log, x)
<1>1. /\ new \in Seq(S) /\ Len(new) = Len(log) + 1 /\ Len(log) \in Nat /\ Len(s) \in Nat
      /\ \A i \in 1..Len(log) : new[i] = log[i]
  BY AppendProperties
<1>2. Len(s) <= Len(log) /\ SubSeq(s, 1, Len(s)) = SubSeq(log, 1, Len(s))
  BY DEF IsPrefix
<1> HIDE DEF new
<1>3. SubSeq(log, 1, Len(s)) = SubSeq(new, 1, Len(s))
  <2>1. \A i \in 1..Len(s) : log[i] = new[i]
    BY <1>1, <1>2
  <2> QED BY <1>1, <1>2, <2>1
<1>4. IsPrefix(s, new)
  BY <1>1, <1>2, <1>3 DEF IsPrefix
<1> QED BY <1>4 DEF new

\* What a commit stores.
LEMMA PointersType ==
    ASSUME TypeOK
    PROVE  /\ Parent \in CommitType /\ Pointers \subseteq Files
<1>1. Parent \in CommitType
  BY HeadType DEF Parent, TypeOK
<1>2. Parent.pointers \subseteq Files
  BY <1>1 DEF CommitType
<1>3. attrs \subseteq Files
  BY DEF TypeOK
<1> QED BY <1>1, <1>2, <1>3 DEF Pointers

\* The commit of the revision in hand, with an identity of its author.
LEMMA Committed ==
    ASSUME TypeOK, Commit
    PROVE  \E up \in BOOLEAN :
             LET a == svn[idx].author
                 c == CommitOf(a, Identity(a, up)) IN
             /\ c \in CommitType /\ local' = Append(local, c)
             /\ cached' = (IF up THEN Learns(a) ELSE cached)
             /\ ~up => NeedsLdap(a)
<1> DEFINE a == svn[idx].author
<1>1. idx \in 1..Len(svn) /\ idx \in Nat
  <2>1. Len(svn) \in Nat
    BY History
  <2> QED BY <2>1 DEF Commit, TypeOK
<1>2. a \in STRING
  BY <1>1, History
<1> HIDE DEF a
<1>3. \A up \in BOOLEAN : Identity(a, up) \in {"file", "ldap", "domain", "svn"}
  BY DEF Identity
<1>4. \A up \in BOOLEAN : CommitOf(a, Identity(a, up)) \in CommitType
  <2> SUFFICES ASSUME NEW up \in BOOLEAN PROVE CommitOf(a, Identity(a, up)) \in CommitType
    OBVIOUS
  <2>1. worktree \in Trees /\ attrs \subseteq Files /\ missed \subseteq Nat /\ lfs \in BOOLEAN
    BY DEF TypeOK
  <2> QED BY <1>1, <1>2, <1>3, <2>1, PointersType DEF CommitOf, CommitType, Authors
<1>5. \/ /\ local' = Append(local, CommitOf(a, Identity(a, TRUE)))
         /\ cached' = Learns(a)
      \/ /\ NeedsLdap(a) /\ cached' = cached
         /\ local' = Append(local, CommitOf(a, Identity(a, FALSE)))
  BY DEF Commit, a
<1> QED BY <1>4, <1>5 DEF a

\* The tree of a revision, as far as it was copied.
LEMMA CopiedType ==
    ASSUME TypeOK, idx \in 1..Len(svn), NEW removed, NEW copied
    PROVE  Copied(removed, copied) \in Trees
<1>1. worktree \in Trees /\ Tree(idx) \in Trees
  BY History DEF TypeOK
<1> QED BY <1>1 DEF Copied, Trees

LEMMA OpenType ==
    ASSUME NEW commits \in Seq(CommitType), Open(commits)
    PROVE  /\ cloned' = TRUE /\ local' \in Seq(CommitType) /\ worktree' \in Trees
           /\ attrs' \subseteq Files
  BY HeadType DEF Open

LEMMA TypeStep ==
    ASSUME TypeOK, [Next]_vars
    PROVE  TypeOK'
<1> USE DEF clone, run, progress, ghosts, bounds, Fault
<1>1. Len(svn) \in Nat /\ Len(local) \in Nat /\ base \in Nat
  BY History, Commits
<1>0. /\ \A kind : Fault(kind) => faults' \in Nat
      /\ faults' \in {faults, faults + 1} => faults' \in Nat
  <2>1. faults \in Nat
    BY DEF TypeOK
  <2> QED BY <2>1
<1>2. CASE Begin
  <2>1. /\ cloned' \in BOOLEAN /\ local' \in Seq(CommitType) /\ worktree' \in Trees
        /\ attrs' \subseteq Files
    <3>1. CASE UNCHANGED clone
      BY <3>1 DEF TypeOK
    <3>2. CASE Open(remote)
      BY <3>2, OpenType DEF TypeOK
    <3>3. CASE Open(<<>>)
      BY <3>3, OpenType, EmptySeq
    <3> QED BY <1>2, <3>1, <3>2, <3>3 DEF Begin
  <2>2. base' \in 0..Len(local') /\ base' = Len(local')
    <3>1. Len(local') \in Nat
      BY <2>1, LenProperties
    <3> QED BY <1>2, <3>1 DEF Begin, NewProgress
  <2>3. faults' \in Nat /\ pushed' = 0 /\ pc' = "connect"
    BY <1>2 DEF Begin, NewProgress, TypeOK
  <2> QED BY <1>2, <2>1, <2>2, <2>3 DEF Begin, NewProgress, TypeOK
<1>3. CASE BeginWithReset
  <2>0. <<Blank>> \in Seq(CommitType)
    BY BlankType
  <2>1. /\ cloned' \in BOOLEAN /\ local' \in Seq(CommitType) /\ worktree' \in Trees
        /\ attrs' \subseteq Files
    BY <1>3, <2>0, OpenType DEF BeginWithReset
  <2>2. base' \in 0..Len(local') /\ base' = Len(local')
    <3>1. Len(local') \in Nat
      BY <2>1, LenProperties
    <3> QED BY <1>3, <3>1 DEF BeginWithReset, NewProgress
  <2>3. /\ faults' \in Nat /\ pushed' = 0 /\ pc' = "connect"
        /\ remote' \in Seq(CommitType)
    <3>1. faults' \in {faults, faults + 1} /\ remote' \in {remote, <<Blank>>}
      BY <1>3 DEF BeginWithReset
    <3>2. pushed' = 0 /\ pc' = "connect"
      BY <1>3 DEF BeginWithReset, NewProgress
    <3> QED BY <1>0, <2>0, <3>1, <3>2 DEF TypeOK
  <2> QED BY <1>3, <2>1, <2>2, <2>3 DEF BeginWithReset, NewProgress, TypeOK
<1>4. CASE Connect
  <2>1. lfs' \in BOOLEAN /\ idx' = 1 /\ since' = 0 /\ missed' = {} /\ pc' = "tree"
    BY <1>4 DEF Connect, LfsEnabled
  <2> QED BY <1>1, <1>4, <2>1 DEF Connect, TypeOK
<1>5. CASE ConnectFails \/ Crash
  <2>1. /\ pc' = "off" /\ pushed' \in {0, pushed}
        /\ UNCHANGED <<svn, remote, clone, run, missed>>
    BY <1>5 DEF ConnectFails, Crash
  <2>2. faults' \in Nat
    BY <1>0, <1>5 DEF ConnectFails, Crash
  <2> QED BY <2>1, <2>2 DEF TypeOK
<1>6. CASE ApplyDiff
  <2>1. idx \in 1..Len(svn) /\ idx > 1
    BY <1>1, <1>6 DEF ApplyDiff, More, TypeOK
  <2>2. worktree' \in Trees
    <3>1. worktree \in Trees /\ Tree(idx) \in Trees
      BY <2>1, History DEF TypeOK
    <3>2. worktree' = [f \in Files |->
             IF f \in Changed(idx) THEN Tree(idx)[f] ELSE worktree[f]]
      BY <1>6 DEF ApplyDiff
    <3> QED BY <3>1, <3>2 DEF Trees
  <2>3. /\ pc' = "commit" /\ cli' = FALSE
        /\ UNCHANGED <<svn, remote, cloned, local, attrs, idx, since, lfs, base,
                       pushed, missed, faults>>
    BY <1>6 DEF ApplyDiff
  <2>4. idx' > 0 /\ idx' <= Len(svn') /\ idx' <= Len(svn') + 1
    <3>1. idx' = idx /\ svn' = svn
      BY <2>3
    <3>2. idx > 0 /\ idx <= Len(svn) /\ idx <= Len(svn) + 1
      BY <1>1, <2>1
    <3> QED BY <3>1, <3>2
  <2> QED BY <2>2, <2>3, <2>4 DEF TypeOK
<1>7. CASE ExportFails
  BY <1>1, <1>7 DEF ExportFails, NextRevision, More, TypeOK
<1>8. CASE Export
  <2>1. idx \in 1..Len(svn)
    BY <1>1, <1>8 DEF Export, More, TypeOK
  <2>2. worktree' \in Trees
    BY <1>8, <2>1, CopiedType DEF Export
  <2>3. attrs' \subseteq Files /\ cli' \in BOOLEAN
    <3>1. attrs' = attrs \cup Large(Tree(idx)) /\ cli' = (lfs /\ Large(Tree(idx)) # {})
      BY <1>8 DEF Export
    <3>2. Large(Tree(idx)) \subseteq Files
      BY DEF Large
    <3>3. attrs \subseteq Files
      BY DEF TypeOK
    <3> QED BY ONLY <3>1, <3>2, <3>3
  <2>4. missed' \subseteq Nat
    BY <1>8, <2>1 DEF Export, TypeOK
  <2>5. faults' \in Nat
    <3>1. faults' \in {faults, faults + 1}
      BY <1>8 DEF Export
    <3> QED BY <1>0, <3>1
  <2>6. /\ pc' = "commit"
        /\ UNCHANGED <<svn, remote, cloned, local, idx, since, lfs, base, pushed>>
    BY <1>8 DEF Export
  <2> QED BY <1>1, <2>1, <2>2, <2>3, <2>4, <2>5, <2>6 DEF TypeOK
<1>9. CASE CopyFails
  <2>1. idx \in 1..Len(svn)
    BY <1>1, <1>9 DEF CopyFails, More, TypeOK
  <2>2. worktree' \in Trees
    BY <1>9, <2>1, CopiedType DEF CopyFails
  <2>3. attrs' \subseteq Files /\ missed' \subseteq Nat /\ faults' \in Nat
    BY <1>9, <2>1 DEF CopyFails, Large, TypeOK
  <2> QED BY <1>1, <1>9, <2>1, <2>2, <2>3 DEF CopyFails, NextRevision, TypeOK
<1>10. CASE Commit
  <2>1. PICK c \in CommitType : local' = Append(local, c)
    BY <1>10, Committed
  <2>2. local' \in Seq(CommitType) /\ Len(local') = Len(local) + 1
    BY <2>1, AppendCommit DEF TypeOK
  <2>3. since' \in Nat /\ faults' \in Nat
    <3>1. since' = since + 1 /\ faults' \in {faults, faults + 1}
      BY <1>10 DEF Commit
    <3>2. since \in Nat
      BY DEF TypeOK
    <3> QED BY <1>0, <3>1, <3>2
  <2>4. idx' \in Nat /\ pc' \in {"push", "tree"} /\ idx' > 0 /\ idx' <= Len(svn) + 1
        /\ (pc' = "push" => idx' <= Len(svn))
    BY <1>1, <1>10 DEF Commit, NextRevision, TypeOK
  <2>5. base' \in 0..Len(local')
    BY <1>1, <1>10, <2>2 DEF Commit, TypeOK
  <2> QED BY <1>10, <2>2, <2>3, <2>4, <2>5 DEF Commit, TypeOK
<1>11. CASE Skip
  BY <1>1, <1>11 DEF Skip, NextRevision, TypeOK
<1>12. CASE BatchPush
  <2>1. remote' \in Seq(CommitType) /\ pushed' \in Nat /\ faults' \in Nat
    BY <1>12 DEF BatchPush, PushWorks, PushFails, TypeOK
  <2> QED BY <1>1, <1>12, <2>1 DEF BatchPush, NextRevision, TypeOK
<1>13. CASE FinalPush
  <2>1. remote' \in Seq(CommitType) /\ pushed' \in Nat /\ faults' \in Nat
    BY <1>13 DEF FinalPush, PushWorks, PushFails, TypeOK
  <2> QED BY <1>1, <1>13, <2>1 DEF FinalPush, TypeOK
<1>14. CASE NothingLeft \/ Complete
  BY <1>14 DEF NothingLeft, Complete, TypeOK
<1>15. CASE DeveloperPushes
  <2>1. [HeadOf(remote) EXCEPT !.rev = 0, !.missed = {}] \in CommitType
    BY HeadType DEF TypeOK, CommitType
  <2>2. remote' \in Seq(CommitType)
    BY <1>15, <2>1, AppendCommit DEF DeveloperPushes, TypeOK
  <2> QED BY <1>15, <2>2 DEF DeveloperPushes, TypeOK
<1>16. CASE UNCHANGED vars
  BY <1>16 DEF vars, TypeOK
<1> QED BY <1>2, <1>3, <1>4, <1>5, <1>6, <1>7, <1>8, <1>9, <1>10, <1>11, <1>12,
           <1>13, <1>14, <1>15, <1>16 DEF Next, Step

-----------------------------------------------------------------------------
(* What the commits of an import hold: the invariant.                      *)

Exact(t, r) == \A x \in Files : Blocked(x, Tree(r)[x]) \/ t[x] = Tree(r)[x]

\* The revision whose tree the clone's files are, from the first one on.
Shown == IF pc = "tree" THEN idx - 1 ELSE idx
IsShown == pc \in {"commit", "push"} \/ (pc = "tree" /\ idx > 1)

\* The clone's files are those of the revision shown, unless one was missed.
TreeOK == IsShown /\ missed = {} => Exact(worktree, Shown)

\* A content that the policy blocks came by a diff.
PolicyOK ==
    \A x \in Files :
        \/ worktree[x] = Absent \/ <<x, worktree[x]>> \in unfiltered
        \/ ~Blocked(x, worktree[x])

\* A large file of the revision shown that did not come by a diff is about to
\* be stored as a pointer or is one in the commit that is checked out.
LargeOK ==
    IsShown /\ missed = {} => \A x \in Files :
        LET c == worktree[x] IN
        c # Absent /\ c = Tree(Shown)[x] /\ <<x, c>> \notin unfiltered
          /\ Decision(x, c) = "lfs" /\ lfs
        => IF pc = "commit" THEN x \in Pointers
           ELSE x \in Parent.pointers /\ Parent.tree[x] = c

\* Whom LDAP named once in this import the mapper's cache still knows.
AuthorOK ==
    \A i \in ThisRun :
        local[i].identity = "ldap" => local[i].author \in cached \ InFile

\* Everything but the types.
FaithInv ==
    UnclonedOK /\ TreeOK /\ PolicyOK /\ LargeOK /\ AuthorOK /\ CommitsAreFaithful

-----------------------------------------------------------------------------
(* The clone.                                                              *)

\* A clone is made of commits without files, or only by Begin.
LEMMA UnclonedStep ==
    ASSUME TypeOK, TypeOK', UnclonedOK, [Next]_vars
    PROVE  UnclonedOK'
<1> USE DEF clone, run
<1>1. CASE Begin
  <2>1. cloned'
    BY <1>1 DEF Begin, Open, UnclonedOK
  <2> QED BY <2>1 DEF UnclonedOK
<1>2. CASE BeginWithReset
  <2>1. cloned'
    BY <1>2 DEF BeginWithReset, Open
  <2> QED BY <2>1 DEF UnclonedOK
<1>3. CASE pc # "off" /\ cloned' = cloned
  BY <1>3 DEF UnclonedOK
<1>4. CASE DeveloperPushes
  <2> DEFINE x == [HeadOf(remote) EXCEPT !.rev = 0, !.missed = {}]
  <2>1. remote \in Seq(CommitType)
    BY DEF TypeOK
  <2>2. x \in CommitType /\ x.tree = HeadOf(remote).tree
    BY <2>1, HeadType DEF CommitType
  <2>3. remote' = Append(remote, x) /\ UNCHANGED <<cloned, local, pc>>
    BY <1>4 DEF DeveloperPushes
  <2> HIDE DEF x
  <2>4. ASSUME ~cloned PROVE \A i \in DOMAIN remote' : remote'[i].tree = EmptyTree
    <3>1. \A i \in DOMAIN remote : remote[i].tree = EmptyTree
      BY <2>4 DEF UnclonedOK
    <3>2. HeadOf(remote).tree = EmptyTree
      <4>1. CASE remote = <<>>
        BY <4>1 DEF HeadOf, Blank
      <4>2. CASE remote # <<>>
        BY <2>1, <3>1, <4>2, HeadType
      <4> QED BY <4>1, <4>2
    <3>3. /\ remote' \in Seq(CommitType) /\ Len(remote') = Len(remote) + 1
          /\ remote'[Len(remote) + 1] = x /\ Len(remote) \in Nat
          /\ \A i \in 1..Len(remote) : remote'[i] = remote[i]
      BY <2>1, <2>2, <2>3, AppendCommit
    <3>4. DOMAIN remote = 1..Len(remote) /\ DOMAIN remote' = 1..(Len(remote) + 1)
      BY <2>1, <3>3
    <3>5. \A i \in DOMAIN remote' : i \in 1..Len(remote) \/ i = Len(remote) + 1
      BY <3>3, <3>4
    <3> QED BY <2>2, <3>1, <3>2, <3>3, <3>4, <3>5
  <2> QED BY <2>3, <2>4 DEF UnclonedOK
<1>5. CASE UNCHANGED vars
  BY <1>5 DEF vars, UnclonedOK
<1> QED
  <2>1. CASE Step
    BY <1>3, <2>1 DEF Step, Connect, ApplyDiff, Export, Commit, Skip, BatchPush,
                      FinalPush, NothingLeft, Complete
  <2>2. CASE ConnectFails \/ ExportFails \/ CopyFails \/ Crash
    BY <1>3, <2>2 DEF ConnectFails, ExportFails, CopyFails, Crash
  <2> QED BY <1>1, <1>2, <1>4, <1>5, <2>1, <2>2 DEF Next

\* A clone that was just opened has no content of which the policy could say
\* anything, or it is the one an earlier import left.
LEMMA OpenPolicy ==
    ASSUME TypeOK, UnclonedOK, PolicyOK, Begin \/ BeginWithReset
    PROVE  PolicyOK'
<1> USE DEF clone, ghosts
<1>1. CASE UNCHANGED <<worktree, unfiltered>>
  BY <1>1 DEF PolicyOK
<1>2. CASE worktree' = EmptyTree
  BY <1>2 DEF PolicyOK, EmptyTree
<1>3. CASE ~cloned /\ Open(remote)
  <2>1. HeadOf(remote).tree = EmptyTree
    <3>1. remote \in Seq(CommitType)
      BY DEF TypeOK
    <3>2. CASE remote = <<>>
      BY <3>2 DEF HeadOf, Blank
    <3>3. CASE remote # <<>>
      BY <1>3, <3>1, <3>3, HeadType DEF UnclonedOK
    <3> QED BY <3>2, <3>3
  <2>2. worktree' = EmptyTree
    BY <1>3, <2>1 DEF Open
  <2> QED BY <1>2, <2>2
<1>4. CASE BeginWithReset
  <2>1. <<Blank>> \in Seq(CommitType) /\ <<Blank>> # <<>> /\ Len(<<Blank>>) = 1
    BY BlankType
  <2>2. HeadOf(<<Blank>>) = Blank
    BY <2>1, HeadType
  <2>3. Blank.tree = EmptyTree
    BY DEF Blank
  <2>4. worktree' = HeadOf(<<Blank>>).tree
    BY <1>4 DEF BeginWithReset, Open
  <2> QED BY <1>2, <2>2, <2>3, <2>4
<1>5. CASE Begin
  <2>1. CASE Open(<<>>)
    BY <1>2, <2>1 DEF Open, HeadOf, Blank
  <2> QED BY <1>1, <1>3, <1>5, <2>1 DEF Begin
<1> QED BY <1>4, <1>5

\* After a diff the files are those of its revision.
LEMMA DiffTree ==
    ASSUME TypeOK, TreeOK, PolicyOK, LargeOK, ApplyDiff
    PROVE  TreeOK' /\ PolicyOK' /\ LargeOK'
<1>1. /\ pc = "tree" /\ idx > 1 /\ pc' = "commit" /\ idx' = idx /\ cli' = FALSE
      /\ svn' = svn /\ missed' = missed /\ local' = local /\ lfs' = lfs
  BY DEF ApplyDiff
<1>2. /\ worktree' = [x \in Files |->
              IF x \in Changed(idx) THEN Tree(idx)[x] ELSE worktree[x]]
      /\ unfiltered' = unfiltered \cup {<<x, Tree(idx)[x]>> : x \in Changed(idx)}
  BY DEF ApplyDiff
<1>3. IsShown /\ Shown = idx - 1 /\ Shown' = idx /\ (pc = "commit")' /\ pc # "commit"
  BY <1>1 DEF IsShown, Shown
<1>4. \A x \in Files : Tree(idx)' = Tree(idx) /\ Tree(Shown)' = Tree(idx)
  BY <1>1, <1>3 DEF Tree
<1>5. \A x \in Files : x \notin Changed(idx) => /\ Tree(idx)[x] = Tree(Shown)[x]
                                              /\ worktree'[x] = worktree[x]
  BY <1>2, <1>3 DEF Changed
<1>6. \A x \in Files : x \in Changed(idx) => /\ worktree'[x] = Tree(idx)[x]
                                            /\ <<x, worktree'[x]>> \in unfiltered'
  BY <1>2
<1>7. TreeOK'
  <2> SUFFICES ASSUME missed = {}, NEW x \in Files
               PROVE  Blocked(x, Tree(idx)[x]) \/ worktree'[x] = Tree(idx)[x]
    BY <1>1, <1>3, <1>4 DEF TreeOK, Exact, Blocked, Decision
  <2>1. Blocked(x, Tree(Shown)[x]) \/ worktree[x] = Tree(Shown)[x]
    BY <1>3 DEF TreeOK, Exact
  <2> QED BY <1>5, <1>6, <2>1
<1>8. PolicyOK'
  <2> SUFFICES ASSUME NEW x \in Files
               PROVE  \/ worktree'[x] = Absent \/ <<x, worktree'[x]>> \in unfiltered'
                      \/ ~Blocked(x, worktree'[x])
    BY DEF PolicyOK, Blocked, Decision
  <2> QED BY <1>2, <1>5, <1>6 DEF PolicyOK
<1>9. LargeOK'
  <2> SUFFICES ASSUME missed = {}, NEW x \in Files,
                      worktree'[x] # Absent, worktree'[x] = Tree(idx)[x],
                      <<x, worktree'[x]>> \notin unfiltered',
                      Decision(x, worktree'[x]) = "lfs", lfs
               PROVE  x \in Pointers'
    BY <1>1, <1>3, <1>4 DEF LargeOK, Decision
  <2>1. x \notin Changed(idx) /\ worktree'[x] = worktree[x]
    BY <1>5, <1>6
  <2>2. x \in Parent.pointers /\ Parent.tree[x] = worktree[x]
    <3>1. worktree[x] = Tree(Shown)[x] /\ <<x, worktree[x]>> \notin unfiltered
      BY <1>2, <1>5, <2>1
    <3> QED BY <1>3, <2>1, <3>1 DEF LargeOK
  <2>3. Pointers' = {y \in Parent.pointers : worktree'[y] = Parent.tree[y]}
    BY <1>1 DEF Pointers, Parent
  <2> QED BY <2>1, <2>2, <2>3
<1> QED BY <1>7, <1>8, <1>9

\* After an export they are so too, and the large ones are tracked.
LEMMA ExportTree ==
    ASSUME TypeOK, TreeOK, PolicyOK, LargeOK, Export
    PROVE  TreeOK' /\ PolicyOK' /\ LargeOK'
<1>1. /\ pc' = "commit" /\ idx' = idx /\ svn' = svn /\ lfs' = lfs
      /\ unfiltered' = unfiltered
      /\ attrs' = attrs \cup Large(Tree(idx))
      /\ cli' = (lfs /\ Large(Tree(idx)) # {})
  BY DEF Export
<1>2. PICK removed \in SUBSET Files :
        /\ removed \in {Stale, {}} /\ worktree' = Copied(removed, Wanted)
        /\ missed' = {} => removed = Stale
  <2>1. Stale \subseteq Files
    BY DEF Stale
  <2> QED BY <2>1 DEF Export
<1>3. Shown' = idx /\ (pc = "commit")' /\ Tree(Shown)' = Tree(idx)
  BY <1>1 DEF Shown, Tree
<1>4. \A x \in Files : worktree'[x] = IF x \in removed THEN Absent
                        ELSE IF x \in Wanted THEN Tree(idx)[x] ELSE worktree[x]
  BY <1>2 DEF Copied
<1>5. TreeOK'
  <2> SUFFICES ASSUME missed' = {}, NEW x \in Files
               PROVE  Blocked(x, Tree(idx)[x]) \/ worktree'[x] = Tree(idx)[x]
    BY <1>1, <1>3 DEF TreeOK, Exact, Blocked, Decision
  <2> QED BY <1>2, <1>4 DEF Stale, Wanted
<1>6. PolicyOK'
  <2> SUFFICES ASSUME NEW x \in Files
               PROVE  \/ worktree'[x] = Absent \/ <<x, worktree'[x]>> \in unfiltered'
                      \/ ~Blocked(x, worktree'[x])
    BY DEF PolicyOK, Blocked, Decision
  <2> QED BY <1>1, <1>4 DEF PolicyOK, Wanted
<1>7. LargeOK'
  <2> SUFFICES ASSUME NEW x \in Files,
                      worktree'[x] # Absent, worktree'[x] = Tree(idx)[x],
                      Decision(x, worktree'[x]) = "lfs", lfs
               PROVE  x \in Pointers'
    BY <1>1, <1>3 DEF LargeOK, Decision
  <2>1. x \in Large(Tree(idx))
    BY DEF Large
  <2>2. cli' /\ x \in attrs'
    BY <1>1, <2>1
  <2> QED BY <2>2 DEF Pointers
<1> QED BY <1>5, <1>6, <1>7

\* What a failed copy leaves behind the policy has seen.
LEMMA CopyTree ==
    ASSUME TypeOK, TreeOK, PolicyOK, LargeOK, CopyFails
    PROVE  TreeOK' /\ PolicyOK' /\ LargeOK'
<1>1. missed' # {} /\ unfiltered' = unfiltered
  BY DEF CopyFails
<1>2. PICK some \in SUBSET Wanted : worktree' = Copied(Stale, some)
  BY DEF CopyFails
<1>3. \A x \in Files : worktree'[x] = IF x \in Stale THEN Absent
                        ELSE IF x \in some THEN Tree(idx)[x] ELSE worktree[x]
  BY <1>2 DEF Copied
<1>4. PolicyOK'
  <2> SUFFICES ASSUME NEW x \in Files
               PROVE  \/ worktree'[x] = Absent \/ <<x, worktree'[x]>> \in unfiltered'
                      \/ ~Blocked(x, worktree'[x])
    BY DEF PolicyOK, Blocked, Decision
  <2> QED BY <1>1, <1>2, <1>3 DEF PolicyOK, Wanted
<1> QED BY <1>1, <1>4 DEF TreeOK, LargeOK

\* A commit stores what the clone has.
LEMMA CommitTree ==
    ASSUME TypeOK, TypeOK', TreeOK, PolicyOK, LargeOK, Commit
    PROVE  TreeOK' /\ PolicyOK' /\ LargeOK'
<1>1. /\ pc = "commit" /\ svn' = svn /\ lfs' = lfs /\ worktree' = worktree
      /\ unfiltered' = unfiltered /\ missed' = missed
      /\ \/ pc' = "push" /\ idx' = idx
         \/ pc' = "tree" /\ idx' = idx + 1
  BY DEF Commit, NextRevision, ghosts
<1>2. IsShown /\ Shown = idx /\ Shown' = idx /\ (pc # "commit")'
  <2>1. idx \in Nat /\ pc # "tree" /\ pc # "push"
    BY <1>1 DEF TypeOK
  <2>2. CASE pc' = "push" /\ idx' = idx
    BY <1>1, <2>2 DEF IsShown, Shown
  <2>3. CASE pc' = "tree" /\ idx' = idx + 1
    BY <1>1, <2>1, <2>3 DEF IsShown, Shown
  <2> QED BY <1>1, <2>2, <2>3
<1>3. Tree(Shown)' = Tree(Shown)
  BY <1>1, <1>2 DEF Tree
<1>4. Parent'.tree = worktree /\ Parent'.pointers = Pointers
  <2>1. PICK c \in CommitType : /\ local' = Append(local, c)
                                /\ c.tree = worktree /\ c.pointers = Pointers
    BY Committed DEF CommitOf
  <2>2. Parent' = c
    BY <2>1, AppendCommit DEF Parent, HeadOf, TypeOK
  <2> QED BY <2>1, <2>2
<1>5. TreeOK' /\ PolicyOK'
  BY <1>1, <1>2, <1>3 DEF TreeOK, PolicyOK, Exact, Blocked, Decision
<1>6. LargeOK'
  <2> SUFFICES ASSUME missed = {}, NEW x \in Files,
                      worktree[x] # Absent, worktree[x] = Tree(Shown)[x],
                      <<x, worktree[x]>> \notin unfiltered,
                      Decision(x, worktree[x]) = "lfs", lfs
               PROVE  x \in Parent'.pointers /\ Parent'.tree[x] = worktree[x]
    BY <1>1, <1>2, <1>3 DEF LargeOK, Decision
  <2>1. x \in Pointers
    BY <1>1, <1>2 DEF LargeOK
  <2> QED BY <1>4, <2>1
<1> QED BY <1>5, <1>6

\* So does the parent when there is nothing to commit; what a commit that
\* failed did not store counts as unfiltered.
LEMMA SkipTree ==
    ASSUME TypeOK, TreeOK, PolicyOK, LargeOK, Skip
    PROVE  TreeOK' /\ PolicyOK' /\ LargeOK'
<1>1. /\ pc = "commit" /\ svn' = svn /\ lfs' = lfs /\ worktree' = worktree
      /\ missed' = missed /\ local' = local
      /\ pc' = "tree" /\ idx' = idx + 1
      /\ unfiltered \subseteq unfiltered'
      /\ \/ SameTree
         \/ unfiltered' = unfiltered \cup {<<x, worktree[x]>> : x \in Large(worktree)}
  BY DEF Skip, NextRevision, clone
<1>2. IsShown /\ Shown = idx /\ Shown' = idx /\ (pc # "commit")'
  BY <1>1 DEF IsShown, Shown, TypeOK
<1>3. Tree(Shown)' = Tree(Shown)
  BY <1>1, <1>2 DEF Tree
<1>4. Parent' = Parent
  BY <1>1 DEF Parent
<1>5. TreeOK' /\ PolicyOK'
  BY <1>1, <1>2, <1>3 DEF TreeOK, PolicyOK, Exact, Blocked, Decision
<1>6. LargeOK'
  <2> SUFFICES ASSUME missed = {}, NEW x \in Files,
                      worktree[x] # Absent, worktree[x] = Tree(Shown)[x],
                      <<x, worktree[x]>> \notin unfiltered',
                      Decision(x, worktree[x]) = "lfs", lfs
               PROVE  x \in Parent.pointers /\ Parent.tree[x] = worktree[x]
    BY <1>1, <1>2, <1>3, <1>4 DEF LargeOK, Decision
  <2>1. x \in Large(worktree)
    BY DEF Large
  <2>2. SameTree
    BY <1>1, <2>1
  <2>3. x \in Pointers
    BY <1>1, <1>2 DEF LargeOK
  <2> QED BY <2>2, <2>3 DEF SameTree
<1> QED BY <1>5, <1>6

\* Steps that leave the clone and what it shows alone.
LEMMA KeepTree ==
    ASSUME TypeOK, TreeOK, PolicyOK, LargeOK,
           UNCHANGED <<svn, local, worktree, missed, lfs, unfiltered>>,
           pc # "commit",
           \/ UNCHANGED <<pc, idx>> \/ BatchPush \/ pc' \in {"off", "mark"}
    PROVE  TreeOK' /\ PolicyOK' /\ LargeOK'
<1>1. ~IsShown' \/ (IsShown /\ Shown' = Shown /\ (pc # "commit")')
  <2>1. CASE UNCHANGED <<pc, idx>>
    BY <2>1 DEF IsShown, Shown
  <2>2. CASE BatchPush
    <3>1. pc = "push" /\ pc' = "tree" /\ idx' = idx + 1
      BY <2>2 DEF BatchPush, NextRevision
    <3>2. idx \in Nat
      BY DEF TypeOK
    <3> QED BY <3>1, <3>2 DEF IsShown, Shown
  <2>3. CASE pc' \in {"off", "mark"}
    BY <2>3 DEF IsShown
  <2> QED BY <2>1, <2>2, <2>3
<1>2. PolicyOK'
  BY DEF PolicyOK, Blocked, Decision
<1>3. CASE IsShown /\ Shown' = Shown /\ (pc # "commit")'
  <2>1. Tree(Shown)' = Tree(Shown) /\ Parent' = Parent
    BY <1>3 DEF Tree, Parent
  <2>2. TreeOK'
    BY <1>3, <2>1 DEF TreeOK, Exact, Blocked, Decision
  <2>3. LargeOK'
    <3> SUFFICES ASSUME missed = {}, NEW x \in Files,
                        worktree[x] # Absent, worktree[x] = Tree(Shown)[x],
                        <<x, worktree[x]>> \notin unfiltered,
                        Decision(x, worktree[x]) = "lfs", lfs
                 PROVE  x \in Parent.pointers /\ Parent.tree[x] = worktree[x]
      BY <1>3, <2>1 DEF LargeOK, Decision
    <3> QED BY <1>3 DEF LargeOK
  <2> QED BY <1>2, <2>2, <2>3
<1>4. CASE ~IsShown'
  BY <1>2, <1>4 DEF TreeOK, LargeOK
<1> QED BY <1>1, <1>3, <1>4

\* Every step keeps the clone's files what they should be.
LEMMA TreeStep ==
    ASSUME TypeOK, TypeOK', UnclonedOK, TreeOK, PolicyOK, LargeOK, [Next]_vars
    PROVE  TreeOK' /\ PolicyOK' /\ LargeOK'
<1> USE DEF clone, run, ghosts
<1>1. CASE Begin \/ BeginWithReset
  <2>1. PolicyOK'
    BY <1>1, OpenPolicy
  <2>2. ~IsShown'
    BY <1>1 DEF Begin, BeginWithReset, NewProgress, IsShown
  <2> QED BY <2>1, <2>2 DEF TreeOK, LargeOK
<1>2. CASE Connect
  <2>1. PolicyOK'
    BY <1>2 DEF Connect, PolicyOK, Blocked, Decision
  <2>2. ~IsShown'
    BY <1>2 DEF Connect, IsShown
  <2> QED BY <2>1, <2>2 DEF TreeOK, LargeOK
<1>3. CASE ExportFails
  <2>1. missed' # {} /\ UNCHANGED <<worktree, unfiltered>>
    BY <1>3 DEF ExportFails
  <2>2. PolicyOK'
    BY <2>1 DEF PolicyOK, Blocked, Decision
  <2> QED BY <2>1, <2>2 DEF TreeOK, LargeOK
<1>4. CASE ConnectFails \/ Complete \/ NothingLeft \/ FinalPush
  <2>1. /\ UNCHANGED <<svn, local, worktree, missed, lfs, unfiltered>>
        /\ pc # "commit"
        /\ UNCHANGED <<pc, idx>> \/ pc' \in {"off", "mark"}
    BY <1>4 DEF ConnectFails, Complete, NothingLeft, FinalPush
  <2> QED BY <2>1, KeepTree
<1>5. CASE BatchPush
  <2>1. /\ UNCHANGED <<svn, local, worktree, missed, lfs, unfiltered>>
        /\ pc # "commit"
    BY <1>5 DEF BatchPush
  <2> QED BY <1>5, <2>1, KeepTree
<1>6. CASE Crash
  <2>1. /\ UNCHANGED <<worktree, unfiltered>> /\ ~IsShown'
    BY <1>6 DEF Crash, IsShown
  <2> QED BY <2>1 DEF TreeOK, LargeOK, PolicyOK, Blocked, Decision
<1>7. CASE DeveloperPushes \/ UNCHANGED vars
  <2>1. UNCHANGED <<svn, local, worktree, attrs, pc, idx, cli, missed, lfs, unfiltered>>
    BY <1>7 DEF DeveloperPushes, vars
  <2> USE <2>1
  <2>2. Shown' = Shown /\ IsShown' = IsShown /\ Parent' = Parent
    BY DEF Shown, IsShown, Parent
  <2>3. Tree(Shown)' = Tree(Shown) /\ Pointers' = Pointers
    BY <2>2 DEF Tree, Pointers
  <2>4. TreeOK' /\ PolicyOK'
    BY <2>2, <2>3 DEF TreeOK, Exact, PolicyOK, Blocked, Decision
  <2>5. LargeOK'
    BY <2>2, <2>3 DEF LargeOK, Decision
  <2> QED BY <2>4, <2>5
<1> QED BY <1>1, <1>2, <1>3, <1>4, <1>5, <1>6, <1>7, DiffTree, ExportTree, CopyTree,
           CommitTree, SkipTree DEF Next, Step

-----------------------------------------------------------------------------
(* The commits.                                                            *)

\* An import that has just begun has made none.
LEMMA NoCommits ==
    ASSUME ThisRun' = {} PROVE AuthorOK' /\ CommitsAreFaithful'
  BY DEF AuthorOK, CommitsAreFaithful, TreesAreExact, PolicyBypassedOnlyByDiffs,
         AuthorsAreStable

\* Those that are made stay what they are.
LEMMA KeptCommits ==
    ASSUME AuthorOK, CommitsAreFaithful, UNCHANGED <<svn, local, base>>,
           unfiltered \subseteq unfiltered', cached \subseteq cached'
    PROVE  AuthorOK' /\ CommitsAreFaithful'
<1>1. ThisRun' = ThisRun
  BY DEF ThisRun
<1>2. AuthorOK'
  BY <1>1 DEF AuthorOK
<1>3. \A r : Tree(r)' = Tree(r)
  BY DEF Tree
<1>4. TreesAreExact'
  <2> SUFFICES ASSUME NEW i \in ThisRun, local[i].missed = {}, NEW x \in Files
               PROVE  LET c == Tree(local[i].rev)[x] IN
                      Blocked(x, c) \/ local[i].tree[x] = c
    BY <1>1, <1>3 DEF TreesAreExact, Tree, Blocked, Decision
  <2> QED BY DEF CommitsAreFaithful, TreesAreExact
<1>5. PolicyBypassedOnlyByDiffs'
  <2> SUFFICES ASSUME NEW i \in ThisRun, NEW x \in Files,
                      local[i].tree[x] # Absent,
                      <<x, local[i].tree[x]>> \notin unfiltered
               PROVE  LET c == local[i].tree[x] IN
                      /\ ~Blocked(x, c)
                      /\ (local[i].missed = {} /\ c = Tree(local[i].rev)[x]
                           /\ local[i].lfs /\ Decision(x, c) = "lfs")
                         => x \in local[i].pointers
    BY <1>1, <1>3 DEF PolicyBypassedOnlyByDiffs, Tree, Blocked, Decision
  <2> QED BY DEF CommitsAreFaithful, PolicyBypassedOnlyByDiffs
<1>6. AuthorsAreStable'
  BY <1>1 DEF CommitsAreFaithful, AuthorsAreStable
<1> QED BY <1>2, <1>4, <1>5, <1>6 DEF CommitsAreFaithful

\* A commit adds one to them.
LEMMA OneMore ==
    ASSUME TypeOK, NEW c \in CommitType, local' = Append(local, c), base' = base
    PROVE  /\ Len(local) + 1 \in ThisRun' /\ local'[Len(local) + 1] = c
           /\ \A i \in ThisRun' : i = Len(local) + 1 \/ (i \in ThisRun /\ local'[i] = local[i]
                                                         /\ i < Len(local) + 1)
<1>1. /\ Len(local) \in Nat /\ base \in Nat /\ base <= Len(local)
      /\ \A i \in ThisRun : i \in 1..Len(local)
  BY Commits DEF TypeOK
<1>2. /\ Len(local') = Len(local) + 1 /\ local'[Len(local) + 1] = c
      /\ \A i \in 1..Len(local) : local'[i] = local[i]
  BY AppendCommit DEF TypeOK
<1>3. \A i \in ThisRun' : i \in Int /\ i >= base + 1 /\ i <= Len(local) + 1
  BY <1>1, <1>2 DEF ThisRun
<1>4. Len(local) + 1 \in ThisRun'
  BY <1>1, <1>2 DEF ThisRun
<1>5. ASSUME NEW i \in ThisRun', i # Len(local) + 1
      PROVE  i \in ThisRun /\ i < Len(local) + 1
  BY <1>1, <1>3, <1>5 DEF ThisRun
<1>6. ASSUME NEW i \in ThisRun', i # Len(local) + 1
      PROVE  i \in ThisRun /\ local'[i] = local[i] /\ i < Len(local) + 1
  BY <1>1, <1>2, <1>5, <1>6
<1> QED BY <1>2, <1>4, <1>6

\* What LDAP has named stays named so; what it names now is cached.
LEMMA Named ==
    ASSUME NEW a, NEW up \in BOOLEAN
    PROVE  /\ a \in cached \ InFile => Identity(a, up) = "ldap"
           /\ Identity(a, up) = "ldap"
              => a \notin InFile /\ (a \in cached \/ (up /\ a \in Learns(a)))
           /\ cached \subseteq Learns(a)
<1>1. HasLdap \in BOOLEAN
  BY HistoryImportAssumption
<1> QED BY <1>1 DEF Identity, Learns

\* The commit of a revision is faithful to it.
LEMMA CommitFaithful ==
    ASSUME TypeOK, TypeOK', FaithInv, Commit
    PROVE  AuthorOK' /\ CommitsAreFaithful'
<1> USE DEF FaithInv
<1> DEFINE a == svn[idx].author
           n == Len(local) + 1
<1>1. PICK up \in BOOLEAN :
        LET c == CommitOf(a, Identity(a, up)) IN
        /\ c \in CommitType /\ local' = Append(local, c)
        /\ cached' = (IF up THEN Learns(a) ELSE cached)
        /\ ~up => NeedsLdap(a)
  BY Committed
<1> DEFINE id == Identity(a, up)
           c == CommitOf(a, id)
<1>2. /\ c.rev = idx /\ c.tree = worktree /\ c.pointers = Pointers
      /\ c.author = a /\ c.identity = id /\ c.missed = missed /\ c.lfs = lfs
  BY DEF CommitOf
<1>3. UNCHANGED <<svn, base, unfiltered>> /\ pc = "commit"
  BY DEF Commit, ghosts
<1>4. /\ n \in ThisRun' /\ local'[n] = c
      /\ \A i \in ThisRun' : i = n \/ (i \in ThisRun /\ local'[i] = local[i] /\ i < n)
  BY <1>1, <1>3, OneMore
<1>5. /\ a \in cached \ InFile => id = "ldap"
      /\ id = "ldap" => a \in cached' \ InFile
      /\ cached \subseteq cached'
  <2>1. /\ a \in cached \ InFile => id = "ldap"
        /\ id = "ldap" => a \notin InFile /\ (a \in cached \/ (up /\ a \in Learns(a)))
        /\ cached \subseteq Learns(a)
    BY Named
  <2> HIDE DEF a, id
  <2>2. cached' = (IF up THEN Learns(a) ELSE cached)
    BY <1>1
  <2> QED BY ONLY <2>1, <2>2
<1>6. IsShown /\ Shown = idx
  BY <1>3 DEF IsShown, Shown
<1> HIDE DEF a, id, c, n
<1>7. AuthorOK'
  <2> SUFFICES ASSUME NEW i \in ThisRun', local'[i].identity = "ldap"
               PROVE  local'[i].author \in cached' \ InFile
    BY DEF AuthorOK
  <2>1. CASE i = n
    BY <1>2, <1>4, <1>5, <2>1
  <2>2. CASE i # n
    BY <1>4, <1>5, <2>2 DEF AuthorOK
  <2> QED BY <2>1, <2>2
<1>8. \A r : Tree(r)' = Tree(r)
  BY <1>3 DEF Tree
<1>9. TreesAreExact'
  <2> SUFFICES ASSUME NEW i \in ThisRun', local'[i].missed = {}, NEW x \in Files
               PROVE  LET t == Tree(local'[i].rev)[x] IN
                      Blocked(x, t) \/ local'[i].tree[x] = t
    BY <1>3 DEF TreesAreExact, Tree, Blocked, Decision
  <2>1. CASE i = n
    BY <1>2, <1>4, <1>6, <2>1 DEF TreeOK, Exact
  <2>2. CASE i # n
    BY <1>4, <2>2 DEF CommitsAreFaithful, TreesAreExact
  <2> QED BY <2>1, <2>2
<1>10. PolicyBypassedOnlyByDiffs'
  <2> SUFFICES ASSUME NEW i \in ThisRun', NEW x \in Files,
                      local'[i].tree[x] # Absent,
                      <<x, local'[i].tree[x]>> \notin unfiltered
               PROVE  LET t == local'[i].tree[x] IN
                      /\ ~Blocked(x, t)
                      /\ (local'[i].missed = {} /\ t = Tree(local'[i].rev)[x]
                           /\ local'[i].lfs /\ Decision(x, t) = "lfs")
                         => x \in local'[i].pointers
    BY <1>3 DEF PolicyBypassedOnlyByDiffs, Tree, Blocked, Decision
  <2>1. CASE i = n
    <3>1. local'[i] = c
      BY <1>4, <2>1
    <3>2. ~Blocked(x, worktree[x])
      BY <1>2, <3>1 DEF PolicyOK
    <3>3. ASSUME missed = {}, worktree[x] = Tree(idx)[x], lfs,
                 Decision(x, worktree[x]) = "lfs"
          PROVE  x \in Pointers
      BY <1>2, <1>3, <1>6, <3>1, <3>3 DEF LargeOK
    <3> QED BY <1>2, <3>1, <3>2, <3>3
  <2>2. CASE i # n
    BY <1>4, <2>2 DEF CommitsAreFaithful, PolicyBypassedOnlyByDiffs
  <2> QED BY <2>1, <2>2
<1>11. AuthorsAreStable'
  <2> SUFFICES ASSUME NEW i \in ThisRun', NEW j \in ThisRun', i < j,
                      local'[i].author = local'[j].author,
                      local'[i].identity = "ldap"
               PROVE  local'[j].identity = "ldap"
    BY DEF AuthorsAreStable
  <2>0. i \in Int /\ j \in Int
    BY DEF ThisRun
  <2>1. i \in ThisRun /\ local'[i] = local[i]
    <3>1. CASE i = n
      <4>1. j = n \/ j < n
        BY <1>4
      <4> QED BY <2>0, <3>1, <4>1
    <3>2. CASE i # n
      BY <1>4, <3>2
    <3> QED BY <3>1, <3>2
  <2>2. CASE j = n
    <3>1. a \in cached \ InFile
      BY <1>2, <1>4, <2>1, <2>2 DEF AuthorOK
    <3> QED BY <1>2, <1>4, <1>5, <2>2, <3>1
  <2>3. CASE j # n
    BY <1>4, <2>1, <2>3 DEF CommitsAreFaithful, AuthorsAreStable
  <2> QED BY <2>2, <2>3
<1> QED BY <1>7, <1>9, <1>10, <1>11 DEF CommitsAreFaithful

\* Every step keeps what the commits hold faithful.
LEMMA FaithStep ==
    ASSUME TypeOK, TypeOK', FaithInv, [Next]_vars
    PROVE  FaithInv'
<1>1. UnclonedOK' /\ TreeOK' /\ PolicyOK' /\ LargeOK'
  BY UnclonedStep, TreeStep DEF FaithInv
<1>2. AuthorOK' /\ CommitsAreFaithful'
  <2>1. CASE Begin \/ BeginWithReset \/ Connect
    <3>1. Len(local') \in Nat /\ base' = Len(local')
      <4>1. Len(local') \in Nat
        BY DEF TypeOK
      <4> QED BY <2>1, <4>1 DEF Begin, BeginWithReset, NewProgress, Connect, TypeOK, clone
    <3>2. ThisRun' = {}
      BY <3>1 DEF ThisRun
    <3> QED BY <3>2, NoCommits
  <2>2. CASE Commit
    BY <2>2, CommitFaithful
  <2>3. CASE UNCHANGED <<svn, local, base>> /\ unfiltered \subseteq unfiltered'
             /\ cached \subseteq cached'
    BY <2>3, KeptCommits DEF FaithInv
  <2> USE DEF clone, run, ghosts
  <2>4. CASE ApplyDiff \/ Export \/ Skip \/ BatchPush \/ FinalPush \/ NothingLeft \/ Complete
    BY <2>3, <2>4 DEF ApplyDiff, Export, Skip, BatchPush, FinalPush, NothingLeft, Complete
  <2>5. CASE ConnectFails \/ ExportFails \/ CopyFails \/ Crash \/ DeveloperPushes
    BY <2>3, <2>5 DEF ConnectFails, ExportFails, CopyFails, Crash, DeveloperPushes
  <2>6. CASE UNCHANGED vars
    BY <2>3, <2>6 DEF vars
  <2> QED BY <2>1, <2>2, <2>4, <2>5, <2>6 DEF Next, Step
<1> QED BY <1>1, <1>2 DEF FaithInv

LEMMA InitOK == Init => TypeOK /\ FaithInv
<1> SUFFICES ASSUME Init PROVE TypeOK /\ FaithInv
  OBVIOUS
<1>1. /\ remote = <<>> /\ local = <<>> /\ base = 0 /\ pc = "off" /\ idx = 0 /\ since = 0
      /\ worktree = EmptyTree /\ attrs = {} /\ cloned = FALSE /\ cli = FALSE
      /\ lfs = FALSE /\ missed = {} /\ pushed = 0 /\ faults = 0 /\ svn \in Histories
  BY DEF Init
<1>2. /\ local \in Seq(CommitType) /\ Len(local) = 0 /\ DOMAIN remote = {}
  BY <1>1, EmptySeq
<1>3. TypeOK
  <2>1. base \in 0..Len(local) /\ pc # "connect" /\ remote \in Seq(CommitType)
    BY <1>1, <1>2
  <2>2. worktree \in Trees /\ attrs \subseteq Files /\ missed \subseteq Nat
    BY <1>1, BlankType
  <2> QED BY <1>1, <1>2, <2>1, <2>2 DEF TypeOK
<1>4. AuthorOK /\ CommitsAreFaithful
  <2>1. ThisRun = {}
    BY <1>1, <1>2 DEF ThisRun
  <2> QED BY <2>1 DEF AuthorOK, CommitsAreFaithful, TreesAreExact,
                      PolicyBypassedOnlyByDiffs, AuthorsAreStable
<1>5. ~IsShown
  BY <1>1 DEF IsShown
<1>6. UnclonedOK /\ TreeOK /\ PolicyOK /\ LargeOK
  BY <1>1, <1>2, <1>5 DEF UnclonedOK, TreeOK, PolicyOK, LargeOK, EmptyTree
<1> QED BY <1>3, <1>4, <1>6 DEF FaithInv

\* The types, and what the files and the commits of an import are, hold in
\* every state.
THEOREM FaithInvariant == Spec => [](TypeOK /\ FaithInv)
<1>1. Init => TypeOK /\ FaithInv
  BY InitOK
<1>2. TypeOK /\ FaithInv /\ [Next]_vars => (TypeOK /\ FaithInv)'
  <2> SUFFICES ASSUME TypeOK, FaithInv, [Next]_vars PROVE TypeOK' /\ FaithInv'
    OBVIOUS
  <2>1. TypeOK'
    BY TypeStep
  <2> QED BY <2>1, FaithStep
<1> QED BY <1>1, <1>2, PTL DEF Spec

\* Every variable keeps its type.
THEOREM TypeCorrect == Spec => []TypeOK
  BY FaithInvariant, PTL

\* Whatever fails and however often the import is begun again, a commit of an
\* import holds SVN's tree of its revision but for what the policy blocks; it
\* stores a large file as it is, or takes a blocked content, only by way of a
\* diff or of a commit that failed; and an author whom LDAP named keeps that
\* identity while the import lasts.
THEOREM RevisionsAreFaithful == Spec => []CommitsAreFaithful
<1>1. TypeOK /\ FaithInv => CommitsAreFaithful
  BY DEF FaithInv
<1> QED BY <1>1, FaithInvariant, PTL

-----------------------------------------------------------------------------
(* Pushing.                                                                *)

\* What a push that was not forced replaces, it extends.
LEMMA AcceptedExtends ==
    ASSUME TypeOK, PushWorks \/ PushFails, pushed > 0
    PROVE  IsPrefix(remote, remote')
<1>1. remote' = remote \/ (Accepted /\ remote' = local)
  BY DEF PushWorks, PushFails, Fault
<1>2. CASE remote' = remote
  BY <1>2, PrefixOfItself DEF TypeOK
<1>3. CASE Accepted /\ remote' = local
  <2>1. pushed \in Nat
    BY DEF TypeOK
  <2>2. ~Forced
    BY <2>1 DEF Forced
  <2> QED BY <1>3, <2>2 DEF Accepted
<1> QED BY <1>1, <1>2, <1>3

\* A step of an import that knows of a push that worked only adds to the remote.
LEMMA OverwriteStep ==
    ASSUME TypeOK, [Next]_vars, pushed > 0, pc # "off"
    PROVE  IsPrefix(remote, remote')
<1>1. CASE BatchPush \/ FinalPush
  BY <1>1, AcceptedExtends DEF BatchPush, FinalPush
<1>2. CASE DeveloperPushes
  <2>1. [HeadOf(remote) EXCEPT !.rev = 0, !.missed = {}] \in CommitType
    BY HeadType DEF TypeOK, CommitType
  <2> QED BY <1>2, <2>1, AppendCommit DEF DeveloperPushes, TypeOK
<1>3. CASE remote' = remote
  BY <1>3, PrefixOfItself DEF TypeOK
<1>4. CASE Begin \/ BeginWithReset
  BY <1>4 DEF Begin, BeginWithReset
<1>5. CASE Connect \/ ApplyDiff \/ Export \/ Commit \/ Skip \/ NothingLeft \/ Complete
  BY <1>3, <1>5 DEF Connect, ApplyDiff, Export, Commit, Skip, NothingLeft, Complete
<1>6. CASE ConnectFails \/ ExportFails \/ CopyFails \/ Crash \/ UNCHANGED vars
  BY <1>3, <1>6 DEF ConnectFails, ExportFails, CopyFails, Crash, vars
<1> QED BY <1>1, <1>2, <1>4, <1>5, <1>6 DEF Next, Step

\* Whoever pushes, and whatever fails, an import that has pushed once forces
\* nothing on the remote that drops a commit.
THEOREM ImportOverwritesNothing == Spec => NothingOverwritten
<1>1. TypeOK /\ [Next]_vars => [pushed > 0 /\ pc # "off" => IsPrefix(remote, remote')]_vars
  BY OverwriteStep
<1> QED BY <1>1, TypeCorrect, PTL DEF Spec, NothingOverwritten

\* The import has committed something and nothing failed that no error records.
Good == ThisRun # {} /\ ~unreported

\* Between two batches, and when the import is over, the remote has what the
\* clone has; only a finished import is saved as completed.
PushOK ==
    /\ (pc \in {"tree", "commit"} /\ since = 0 /\ Good) => IsPrefix(local, remote)
    /\ (pc = "mark" /\ Clean /\ Good) => IsPrefix(local, remote)
    /\ (saved.phase = "completed") => pc \in {"off", "connect"}
    /\ (saved.phase = "completed" /\ saved.clean /\ Good) => IsPrefix(local, remote)
    /\ (phase = "completed")
       => pc = "off" /\ saved = [phase |-> "completed", clean |-> Clean]

\* While an import runs, neither it nor its row is completed.
LEMMA Running ==
    ASSUME PushOK, pc \notin {"off", "connect"}
    PROVE  saved.phase # "completed" /\ phase # "completed"
  BY DEF PushOK

\* A step inside an import, which does not end it.
LEMMA InsideStep ==
    ASSUME PushOK, pc \notin {"off", "connect"},
           \/ saved' = saved
           \/ saved' = [phase |-> phase, clean |-> Clean],
           phase' = phase,
           (pc' \in {"tree", "commit"} /\ since' = 0 /\ Good') => IsPrefix(local', remote'),
           (pc' = "mark" /\ Clean' /\ Good') => IsPrefix(local', remote')
    PROVE  PushOK'
<1>1. saved'.phase # "completed" /\ phase' # "completed"
  BY Running
<1> QED BY <1>1 DEF PushOK

LEMMA PushStep ==
    ASSUME TypeOK, TypeOK', PushOK, [Next]_vars
    PROVE  PushOK'
<1> USE DEF clone, run, ghosts, progress
<1>1. CASE Begin \/ BeginWithReset
  <2>1. ~Good'
    <3>1. Len(local') \in Nat /\ base' = Len(local')
      BY <1>1 DEF Begin, BeginWithReset, NewProgress, TypeOK
    <3> QED BY <3>1 DEF ThisRun, Good
  <2>2. pc' = "connect" /\ phase' = "importing"
    BY <1>1 DEF Begin, BeginWithReset, NewProgress
  <2> QED BY <2>1, <2>2 DEF PushOK
<1>2. CASE Connect
  <2>1. ~Good'
    <3>1. Len(local') \in Nat /\ base' = Len(local')
      BY <1>2 DEF Connect, TypeOK
    <3> QED BY <3>1 DEF ThisRun, Good
  <2>2. phase # "completed" /\ phase' = phase /\ saved'.phase = phase
    BY <1>2 DEF Connect, PushOK
  <2> QED BY <2>1, <2>2 DEF PushOK
<1>3. CASE ConnectFails
  <2>1. pc' = "off" /\ phase' = "failed" /\ saved'.phase = "failed"
    BY <1>3 DEF ConnectFails
  <2> QED BY <2>1 DEF PushOK
<1>4. CASE ApplyDiff \/ Export \/ ExportFails \/ CopyFails
  <2>1. /\ pc = "tree" /\ pc' \in {"tree", "commit"}
        /\ UNCHANGED <<local, remote, base, since, unreported, saved, phase>>
    BY <1>4 DEF ApplyDiff, Export, ExportFails, CopyFails, NextRevision
  <2>2. Good' = Good
    BY <2>1 DEF Good, ThisRun
  <2>3. (since' = 0 /\ Good') => IsPrefix(local', remote')
    BY <2>1, <2>2 DEF PushOK
  <2> QED BY <2>1, <2>3, InsideStep
<1>5. CASE Commit
  <2>1. pc = "commit" /\ pc' \in {"tree", "push"} /\ since' = since + 1
        /\ UNCHANGED <<saved, phase>>
    BY <1>5 DEF Commit, NextRevision
  <2>2. since' # 0
    BY <2>1 DEF TypeOK
  <2> QED BY <2>1, <2>2, InsideStep
<1>6. CASE Skip
  <2>1. /\ pc = "commit" /\ pc' = "tree"
        /\ UNCHANGED <<local, remote, base, since, saved, phase>>
        /\ unreported' = unreported \/ unreported'
    BY <1>6 DEF Skip, NextRevision
  <2>2. Good' => Good
    BY <2>1 DEF Good, ThisRun
  <2>3. (since' = 0 /\ Good') => IsPrefix(local', remote')
    BY <2>1, <2>2 DEF PushOK
  <2> QED BY <2>1, <2>3, InsideStep
<1>7. CASE BatchPush
  <2>1. /\ pc = "push" /\ pc' = "tree" /\ phase' = phase
        /\ saved' = saved \/ saved' = [phase |-> phase, clean |-> Clean]
        /\ PushWorks \/ unreported'
        /\ local' = local
    BY <1>7 DEF BatchPush, NextRevision
  <2>2. Good' => IsPrefix(local', remote')
    <3>1. PushWorks => remote' = local
      BY DEF PushWorks
    <3>2. IsPrefix(local, local)
      BY PrefixOfItself DEF TypeOK
    <3> QED BY <2>1, <3>1, <3>2 DEF Good
  <2> QED BY <2>1, <2>2, InsideStep
<1>8. CASE FinalPush
  <2>1. /\ pc = "tree" /\ since > 0 /\ since' = since
        /\ UNCHANGED <<saved, phase, local>>
        /\ pc' \in {"tree", "mark"}
        /\ pc' = "mark" => remote' = local \/ errors' = GivenUp
    BY <1>8 DEF FinalPush, PushWorks
  <2>2. since' # 0
    BY <2>1 DEF TypeOK
  <2>3. (pc' = "mark" /\ Clean') => IsPrefix(local', remote')
    <3>1. IsPrefix(local, local)
      BY PrefixOfItself DEF TypeOK
    <3>2. errors' = GivenUp => ~Clean'
      BY DEF GivenUp, Clean
    <3> QED BY <2>1, <3>1, <3>2
  <2> QED BY <2>1, <2>2, <2>3, InsideStep
<1>9. CASE NothingLeft
  <2>1. /\ pc = "tree" /\ since = 0 /\ pc' = "mark"
        /\ UNCHANGED <<local, remote, base, unreported, saved, phase>>
    BY <1>9 DEF NothingLeft
  <2>2. Good' = Good
    BY <2>1 DEF Good, ThisRun
  <2>3. Good' => IsPrefix(local', remote')
    BY <2>1, <2>2 DEF PushOK
  <2> QED BY <2>1, <2>3, InsideStep
<1>10. CASE Complete
  <2>1. /\ pc = "mark" /\ pc' = "off" /\ phase' = "completed"
        /\ saved' = [phase |-> "completed", clean |-> Clean]
        /\ UNCHANGED <<local, remote, base, unreported, errors>>
    BY <1>10 DEF Complete
  <2>2. Good' = Good /\ Clean' = Clean
    BY <2>1 DEF Good, ThisRun, Clean
  <2>3. saved'.clean = Clean
    BY <2>1
  <2>4. (saved'.clean /\ Good') => IsPrefix(local', remote')
    BY <2>1, <2>2, <2>3 DEF PushOK
  <2> QED BY <2>1, <2>2, <2>4 DEF PushOK
<1>11. CASE Crash
  <2>1. /\ pc' = "off" /\ phase' = "idle"
        /\ UNCHANGED <<local, remote, base, unreported, saved>>
    BY <1>11 DEF Crash
  <2>2. Good' = Good
    BY <2>1 DEF Good, ThisRun
  <2> QED BY <2>1, <2>2 DEF PushOK
<1>12. CASE DeveloperPushes
  <2>1. [HeadOf(remote) EXCEPT !.rev = 0, !.missed = {}] \in CommitType
    BY HeadType DEF TypeOK, CommitType
  <2>2. IsPrefix(local, remote) => IsPrefix(local', remote')
    BY <1>12, <2>1, PrefixKept DEF DeveloperPushes, TypeOK
  <2>3. UNCHANGED <<pc, local, base, since, unreported, saved, phase, errors>>
    BY <1>12 DEF DeveloperPushes
  <2>4. Good' = Good /\ Clean' = Clean
    BY <2>3 DEF Good, ThisRun, Clean
  <2> QED BY <2>2, <2>3, <2>4 DEF PushOK
<1>13. CASE UNCHANGED vars
  <2>1. Good' = Good /\ Clean' = Clean
    BY <1>13 DEF vars, Good, ThisRun, Clean
  <2> QED BY <1>13, <2>1 DEF vars, PushOK
<1> QED BY <1>1, <1>2, <1>3, <1>4, <1>5, <1>6, <1>7, <1>8, <1>9, <1>10, <1>11,
           <1>12, <1>13 DEF Next, Step

\* An import that is shown as completed without an error, and that has made a
\* commit, has pushed all of the clone, whatever crashed, failed or was begun
\* again on the way, unless a failure that no error records is to blame.
THEOREM CompletedIsPushed == Spec => []CompletedMeansPushed
<1>1. Init => PushOK
  BY DEF Init, PushOK, Idle
<1>2. TypeOK /\ TypeOK' /\ PushOK /\ [Next]_vars => PushOK'
  BY PushStep
<1>3. PushOK => CompletedMeansPushed
  BY DEF PushOK, CompletedMeansPushed, Status, Good
<1> QED BY <1>1, <1>2, <1>3, TypeCorrect, PTL DEF Spec
=============================================================================
