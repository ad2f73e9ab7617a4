--------------------------- MODULE TeamSyncProofs ---------------------------
(***************************************************************************)
(* Proofs about TeamSync for every choice of its constants: any files and  *)
(* contents, any number of commits, crashes, failures and resets.          *)
(***************************************************************************)
EXTENDS TeamSync, SequenceTheorems, FiniteSetTheorems, WellFoundedInduction,
        TLAPS

-----------------------------------------------------------------------------
(* The inductive invariant.                                                *)

SvnPositions == 1..Len(svnLog)
GitPositions == 1..Len(remote)

\* A commit made by the engine on the Git side: it carries the marker, and
\* what it copies does not.
GitCopyOK(commit) ==
    commit.origin # 0 => /\ commit.marked
                         /\ commit.origin \in SvnPositions
                         /\ ~svnLog[commit.origin].marked

SvnCopyOK(commit) ==
    commit.origin # 0 => /\ commit.marked
                         /\ commit.origin \in GitPositions
                         /\ ~remote[commit.origin].marked

CopiesOK ==
    /\ \A s \in GitPositions : GitCopyOK(remote[s])
    /\ \A r \in SvnPositions : SvnCopyOK(svnLog[r])
    /\ unpushed \in Commit => GitCopyOK(unpushed)

\* The change lists hold no echoes.
TodoOK ==
    /\ \A r \in svnTodo : ~svnLog[r].marked
    /\ \A s \in gitTodo : ~remote[s].marked

\* What the locals of the running cycle mean in each phase.
PhaseOK ==
    /\ pc = "push" =>
         /\ unpushed \in Commit /\ unpushed.origin = cur
         /\ cur \in SvnPositions
    /\ pc \in {"s2g_record", "s2g_kv", "s2g_row"} =>
         /\ cur \in SvnPositions /\ out \in GitPositions
         /\ remote[out].origin = cur
    /\ pc \in {"svn_commit", "skip_kv", "skip_row"} =>
         cur \in GitPositions /\ ~remote[cur].marked
    /\ pc \in {"g2s_record", "g2s_kv", "g2s_row"} =>
         /\ cur \in GitPositions /\ out \in SvnPositions
         /\ svnLog[out].origin = cur

IInv == TypeOK /\ CopiesOK /\ TodoOK /\ PhaseOK /\ RecordsTruthful

-----------------------------------------------------------------------------
(* Lemmas about the data.                                                  *)

\* A history that grows keeps every commit at its position.
LEMMA AppendKeeps ==
    ASSUME NEW S, NEW log \in Seq(S), NEW c \in S
    PROVE  /\ Append(log, c) \in Seq(S)
           /\ Len(Append(log, c)) = Len(log) + 1
           /\ \A i \in 1..Len(log) : Append(log, c)[i] = log[i]
           /\ Append(log, c)[Len(log) + 1] = c
  OBVIOUS

\* The tree at any position of a history is a tree.
LEMMA TreeAtType ==
    ASSUME NEW log \in Seq(Commit), NEW i \in 0..Len(log)
    PROVE  TreeAt(log, i) \in Tree
<1>1. CASE i = 0
  <2>1. EmptyTree \in Tree
    BY DEF EmptyTree, Tree
  <2> QED BY <1>1, <2>1 DEF TreeAt
<1>2. CASE i # 0
  <2>1. log[i] \in Commit
    BY <1>2
  <2> QED BY <1>2, <2>1 DEF TreeAt, Commit
<1> QED BY <1>1, <1>2

\* Copying files of a commit onto a tree gives a tree.
LEMMA OverlayType ==
    ASSUME NEW tree \in Tree, NEW log \in Seq(Commit), NEW i \in 1..Len(log),
           NEW which
    PROVE  Overlay(tree, log, i, which) \in Tree
<1>1. log[i] \in Commit
  OBVIOUS
<1>2. log[i].tree \in Tree
  BY <1>1 DEF Commit
<1> QED BY <1>2 DEF Overlay, Tree

\* What a user commits is a commit.
LEMMA UserEditType ==
    ASSUME NEW log \in Seq(Commit), NEW f \in Files,
           NEW c \in Contents \cup {Absent}, NEW m \in BOOLEAN, NEW b \in BOOLEAN
    PROVE  \E commit \in Commit : /\ commit.origin = 0
                                  /\ UserEdit(log, f, c, m, b) = Append(log, commit)
<1>1. TreeAt(log, Len(log)) \in Tree
  BY TreeAtType
<1> DEFINE commit == [tree |-> [TreeAt(log, Len(log)) EXCEPT ![f] = c],
                      origin |-> 0, marked |-> m, blank |-> b]
<1>2. commit.tree \in Tree
  BY <1>1 DEF Tree
<1>3. commit \in Commit /\ commit.origin = 0
  BY <1>2 DEF Commit
<1>4. UserEdit(log, f, c, m, b) = Append(log, commit)
  BY DEF UserEdit
<1> QED BY <1>3, <1>4
\* Appending to a history keeps what holds of the copies and the records.
LEMMA SvnGrows ==
    ASSUME IInv, NEW c \in Commit, SvnCopyOK(c),
           svnLog' = Append(svnLog, c),
           UNCHANGED <<remote, records>>, unpushed' \in {unpushed, NoCommit}
    PROVE  CopiesOK' /\ RecordsTruthful'
<1> USE DEF IInv
<1>1. /\ Len(svnLog') = Len(svnLog) + 1
      /\ Len(svnLog) \in Nat
      /\ \A i \in SvnPositions : svnLog'[i] = svnLog[i]
      /\ svnLog'[Len(svnLog) + 1] = c
      /\ DOMAIN svnLog = SvnPositions /\ DOMAIN svnLog' = SvnPositions'
      /\ DOMAIN remote = GitPositions
  BY AppendKeeps DEF TypeOK, SvnPositions, GitPositions
<1>2. CopiesOK'
  BY <1>1, NoCommitAssumption
     DEF CopiesOK, GitCopyOK, SvnCopyOK, SvnPositions, GitPositions
<1>3. RecordsTruthful'
  BY <1>1 DEF RecordsTruthful, SvnPositions
<1> QED BY <1>2, <1>3

\* The same for a commit more on the branch.
LEMMA GitGrows ==
    ASSUME IInv, NEW c \in Commit, GitCopyOK(c),
           remote' = Append(remote, c),
           UNCHANGED <<svnLog, records>>, unpushed' \in {unpushed, NoCommit}
    PROVE  CopiesOK' /\ RecordsTruthful'
<1> USE DEF IInv
<1>1. /\ Len(remote') = Len(remote) + 1
      /\ Len(remote) \in Nat
      /\ \A i \in GitPositions : remote'[i] = remote[i]
      /\ remote'[Len(remote) + 1] = c
      /\ DOMAIN remote = GitPositions /\ DOMAIN remote' = GitPositions'
      /\ DOMAIN svnLog = SvnPositions
  BY AppendKeeps DEF TypeOK, SvnPositions, GitPositions
<1>2. CopiesOK'
  BY <1>1, NoCommitAssumption
     DEF CopiesOK, GitCopyOK, SvnCopyOK, SvnPositions, GitPositions
<1>3. RecordsTruthful'
  BY <1>1 DEF RecordsTruthful, GitPositions
<1> QED BY <1>2, <1>3

\* A step that touches neither history nor the clone nor the records keeps
\* what holds of them.
LEMMA CopiesStable ==
    ASSUME CopiesOK, UNCHANGED <<svnLog, remote, unpushed>> PROVE CopiesOK'
  BY DEF CopiesOK, GitCopyOK, SvnCopyOK, SvnPositions, GitPositions

\* What the sync records say depends on the histories only.
LEMMA RecordsStable ==
    ASSUME RecordsTruthful, UNCHANGED <<svnLog, remote, records>>
    PROVE  RecordsTruthful'
  BY DEF RecordsTruthful

\* What git log shows the recovery code is a revision that exists.
LEMMA DetectedRevType ==
    ASSUME TypeOK PROVE DetectedRev \subseteq 0..Len(svnLog)
<1>1. DOMAIN svnLog = 1..Len(svnLog) /\ Len(svnLog) \in Nat
  BY DEF TypeOK
<1>2. DetectedRevs \subseteq 1..Len(svnLog)
  BY <1>1 DEF DetectedRevs, ShowsMarker
<1>3. DetectedRevs \cup {0} \subseteq 0..Len(svnLog)
  BY <1>1, <1>2
<1> QED BY <1>3 DEF DetectedRev, MaxOf

\* The stored watermark is a revision number.
LEMMA StoredRevType ==
    ASSUME TypeOK PROVE StoredRev \subseteq Nat
<1>1. \A i \in DOMAIN records : records[i].rev \in Nat
  <2>1. records \in Seq(Record)
    BY DEF TypeOK
  <2>2. \A i \in DOMAIN records : records[i] \in Record
    BY <2>1
  <2> QED BY <2>2 DEF Record
<1>2. RecordedRev \subseteq Nat
  BY <1>1 DEF RecordedRev, MaxOf
<1>3. wmRev \in Nat /\ kvRev \in Nat
  BY DEF TypeOK
<1> QED BY <1>2, <1>3 DEF StoredRev

\* Rebuilding the repositories row gives it positions that exist.
LEMMA RecoverRowType ==
    ASSUME TypeOK,
           NEW rowRev \in 0..Len(svnLog), NEW rowSha \in Sha,
           NEW keyRev \in 0..Len(svnLog), NEW keySha \in Sha,
           RecoverRow(rowRev, rowSha, keyRev, keySha)
    PROVE  wmRev' \in 0..Len(svnLog) /\ wmSha' \in Sha
<1>1. LocalHead \in Sha
  BY DEF LocalHead, Sha, TypeOK
<1> QED BY <1>1, DetectedRevType DEF RecoverRow

-----------------------------------------------------------------------------
(* One lemma per kind of step: it keeps the inductive invariant.           *)

\* A step that leaves both histories, the clone and the records alone, and
\* puts nothing into the change lists, keeps what holds of them.
LEMMA QuietStep ==
    ASSUME IInv, UNCHANGED <<svnLog, remote, unpushed, records>>,
           svnTodo' \in {svnTodo, {}}, gitTodo' \in {gitTodo, {}}
    PROVE  CopiesOK' /\ TodoOK' /\ RecordsTruthful'
  BY CopiesStable, RecordsStable DEF IInv, TodoOK

\* Steps that only move the phase, the watermarks or the cycle's locals.
LEMMA BookkeepingSteps ==
    ASSUME IInv,
           \/ ResolveConflict
           \/ CommandError
           \/ StartCycle
           \/ PushRejected
           \/ SaveRevisionKey
           \/ RevisionsApplied
           \/ SkipKey
           \/ SkipRow
           \/ SvnCommitRefused
           \/ SaveCommitKey
           \/ SaveCommitRow
           \/ FinishCycle
    PROVE  IInv'
<1> USE DEF IInv, servers, clone, row, kv, db, memory, bounds, history, Goto,
            ForgetCycle, Abort, CanFail, WriteIgnoringErrors
<1>1. CASE ResolveConflict
  <2>1. TypeOK'
    BY <1>1 DEF ResolveConflict, TypeOK, Sha, Phases, SyncStates, PhaseOK,
           SvnPositions, GitPositions
  <2>2. PhaseOK'
    BY <1>1 DEF ResolveConflict, PhaseOK, SvnPositions, GitPositions
  <2> QED BY <1>1, <2>1, <2>2, QuietStep DEF ResolveConflict
<1>2. CASE CommandError
  <2>1. TypeOK'
    BY <1>2 DEF CommandError, TypeOK, Sha, Phases, SyncStates, PhaseOK,
           SvnPositions, GitPositions
  <2>2. PhaseOK'
    BY <1>2 DEF CommandError, PhaseOK, SvnPositions, GitPositions
  <2> QED BY <1>2, <2>1, <2>2, QuietStep DEF CommandError
<1>3. CASE StartCycle
  <2>1. TypeOK'
    BY <1>3 DEF StartCycle, TypeOK, Sha, Phases, SyncStates, PhaseOK,
           SvnPositions, GitPositions
  <2>2. PhaseOK'
    BY <1>3 DEF StartCycle, PhaseOK, SvnPositions, GitPositions
  <2> QED BY <1>3, <2>1, <2>2, QuietStep DEF StartCycle
<1>4. CASE PushRejected
  <2>1. TypeOK'
    BY <1>4 DEF PushRejected, TypeOK, Sha, Phases, SyncStates, PhaseOK,
           SvnPositions, GitPositions
  <2>2. PhaseOK'
    BY <1>4 DEF PushRejected, PhaseOK, SvnPositions, GitPositions
  <2> QED BY <1>4, <2>1, <2>2, QuietStep DEF PushRejected
<1>5. CASE SaveRevisionKey
  <2>1. TypeOK'
    <3>1. cur \in SvnPositions
      BY <1>5 DEF SaveRevisionKey, PhaseOK
    <3>2. kvRev' \in 0..Len(svnLog)
      BY <1>5, <3>1 DEF SaveRevisionKey, TypeOK, Sha, SvnPositions
    <3> QED BY <1>5, <3>2 DEF SaveRevisionKey, TypeOK, Sha, Phases
  <2>2. PhaseOK'
    BY <1>5 DEF SaveRevisionKey, PhaseOK, SvnPositions, GitPositions
  <2> QED BY <1>5, <2>1, <2>2, QuietStep DEF SaveRevisionKey
<1>6. CASE RevisionsApplied
  <2>1. TypeOK'
    BY <1>6 DEF RevisionsApplied, TypeOK, Sha, Phases, SyncStates, PhaseOK,
           SvnPositions, GitPositions
  <2>2. PhaseOK'
    BY <1>6 DEF RevisionsApplied, PhaseOK, SvnPositions, GitPositions
  <2> QED BY <1>6, <2>1, <2>2, QuietStep DEF RevisionsApplied
<1>7. CASE SkipKey
  <2>1. TypeOK'
    <3>1. cur \in GitPositions
      BY <1>7 DEF SkipKey, PhaseOK
    <3>2. kvSha' \in Sha
      BY <1>7, <3>1 DEF SkipKey, TypeOK, Sha, GitPositions
    <3> QED BY <1>7, <3>2 DEF SkipKey, TypeOK, Sha, Phases
  <2>2. PhaseOK'
    BY <1>7 DEF SkipKey, PhaseOK, SvnPositions, GitPositions
  <2> QED BY <1>7, <2>1, <2>2, QuietStep DEF SkipKey
<1>8. CASE SkipRow
  <2>1. TypeOK'
    <3>1. cur \in GitPositions
      BY <1>8 DEF SkipRow, PhaseOK
    <3>2. wmSha' \in Sha
      BY <1>8, <3>1 DEF SkipRow, TypeOK, Sha, GitPositions
    <3> QED BY <1>8, <3>2 DEF SkipRow, TypeOK, Sha, Phases
  <2>2. PhaseOK'
    BY <1>8 DEF SkipRow, PhaseOK, SvnPositions, GitPositions
  <2> QED BY <1>8, <2>1, <2>2, QuietStep DEF SkipRow
<1>9. CASE SvnCommitRefused
  <2>1. TypeOK'
    BY <1>9 DEF SvnCommitRefused, TypeOK, Sha, Phases, SyncStates, PhaseOK,
           SvnPositions, GitPositions
  <2>2. PhaseOK'
    BY <1>9 DEF SvnCommitRefused, PhaseOK, SvnPositions, GitPositions
  <2> QED BY <1>9, <2>1, <2>2, QuietStep DEF SvnCommitRefused
<1>10. CASE SaveCommitKey
  <2>1. TypeOK'
    <3>1. cur \in GitPositions
      BY <1>10 DEF SaveCommitKey, PhaseOK
    <3>2. kvSha' \in Sha
      BY <1>10, <3>1 DEF SaveCommitKey, TypeOK, Sha, GitPositions
    <3> QED BY <1>10, <3>2 DEF SaveCommitKey, TypeOK, Sha, Phases
  <2>2. PhaseOK'
    BY <1>10 DEF SaveCommitKey, PhaseOK, SvnPositions, GitPositions
  <2> QED BY <1>10, <2>1, <2>2, QuietStep DEF SaveCommitKey
<1>11. CASE SaveCommitRow
  <2>1. TypeOK'
    <3>1. cur \in GitPositions /\ out \in SvnPositions
      BY <1>11 DEF SaveCommitRow, PhaseOK
    <3>2. wmRev' \in 0..Len(svnLog) /\ wmSha' \in Sha
      BY <1>11, <3>1 DEF SaveCommitRow, TypeOK, Sha, SvnPositions, GitPositions
    <3> QED BY <1>11, <3>2 DEF SaveCommitRow, TypeOK, Sha, Phases
  <2>2. PhaseOK'
    BY <1>11 DEF SaveCommitRow, PhaseOK, SvnPositions, GitPositions
  <2> QED BY <1>11, <2>1, <2>2, QuietStep DEF SaveCommitRow
<1>12. CASE FinishCycle
  <2>1. TypeOK'
    BY <1>12 DEF FinishCycle, TypeOK, Sha, Phases, SyncStates, PhaseOK,
           SvnPositions, GitPositions
  <2>2. PhaseOK'
    BY <1>12 DEF FinishCycle, PhaseOK, SvnPositions, GitPositions
  <2> QED BY <1>12, <2>1, <2>2, QuietStep DEF FinishCycle
<1> QED BY <1>1, <1>2, <1>3, <1>4, <1>5, <1>6, <1>7, <1>8, <1>9, <1>10, <1>11, <1>12

\* A crash forgets the cycle and rebuilds the row; a new database also
\* forgets everything else that was stored.
LEMMA RestartSteps ==
    ASSUME IInv, Crash \/ FreshDb
    PROVE  IInv'
<1> USE DEF IInv, servers, clone, kv, memory, history
<1>1. CASE Crash
  <2>1. wmRev' \in 0..Len(svnLog) /\ wmSha' \in Sha
    <3>1. RecoverRow(wmRev, wmSha, kvRev, kvSha)
      BY <1>1 DEF Crash
    <3>2. /\ wmRev \in 0..Len(svnLog) /\ wmSha \in Sha
          /\ kvRev \in 0..Len(svnLog) /\ kvSha \in Sha
      BY DEF TypeOK
    <3> QED BY <3>1, <3>2, RecoverRowType
  <2>2. TypeOK'
    BY <1>1, <2>1 DEF Crash, ForgetCycle, TypeOK, Sha, Phases
  <2>3. CopiesOK' /\ RecordsTruthful'
    BY <1>1, CopiesStable, RecordsStable DEF Crash
  <2>4. TodoOK' /\ PhaseOK'
    BY <1>1 DEF Crash, ForgetCycle, TodoOK, PhaseOK
  <2> QED BY <2>2, <2>3, <2>4
<1>2. CASE FreshDb
  <2>1. wmRev' \in 0..Len(svnLog) /\ wmSha' \in Sha
    <3>1. RecoverRow(0, 0, 0, 0) \/ (wmRev' = 0 /\ wmSha' = 0)
      BY <1>2 DEF FreshDb
    <3>2. 0 \in 0..Len(svnLog) /\ 0 \in Sha
      BY DEF TypeOK, Sha
    <3> QED BY <3>1, <3>2, RecoverRowType
  <2>2. TypeOK'
    <3>1. records' \in Seq(Record)
      BY <1>2 DEF FreshDb
    <3> QED BY <1>2, <2>1, <3>1 DEF FreshDb, TypeOK, Sha, Phases, SyncStates
  <2>3. CopiesOK'
    BY <1>2, CopiesStable DEF FreshDb
  <2>4. RecordsTruthful'
    <3>1. DOMAIN records' = {}
      BY <1>2 DEF FreshDb
    <3> QED BY <3>1 DEF RecordsTruthful
  <2>5. TodoOK' /\ PhaseOK'
    BY <1>2 DEF FreshDb, TodoOK, PhaseOK
  <2> QED BY <2>2, <2>3, <2>4, <2>5
<1> QED BY <1>1, <1>2

\* Fetching fills the change lists with commits that exist and are no echoes.
LEMMA FetchSteps ==
    ASSUME IInv, FetchSvn \/ FetchGit \/ DetectConflicts
    PROVE  IInv'
<1> USE DEF IInv, servers, clone, row, kv, db, history, bounds, Goto
<1>1. CASE FetchSvn
  <2>1. PICK stored \in StoredRev, d \in DetectedRev :
          LET last == IF stored = 0 THEN d ELSE stored IN
          /\ svnTodo' = NewRevisions(last)
          /\ fetched' = fetched \cup NewRevisions(last)
          /\ IF stored = 0 /\ d > 0
             THEN kvRev' = d /\ wmRev' = d /\ wmSha' = 0
             ELSE UNCHANGED <<kvRev, wmRev, wmSha>>
    BY <1>1 DEF FetchSvn
  <2> DEFINE last == IF stored = 0 THEN d ELSE stored
  <2>2. stored \in Nat /\ d \in 0..Len(svnLog) /\ Len(svnLog) \in Nat
    BY StoredRevType, DetectedRevType DEF TypeOK
  <2>3. NewRevisions(last) \subseteq 1..Len(svnLog)
    BY <2>2 DEF NewRevisions
  <2>4. svnTodo' \subseteq 1..Len(svnLog) /\ fetched' \subseteq 1..Len(svnLog)
    BY <2>1, <2>3 DEF TypeOK
  <2>5. kvRev' \in 0..Len(svnLog) /\ wmRev' \in 0..Len(svnLog) /\ wmSha' \in Sha
    BY <2>1, <2>2 DEF TypeOK, Sha
  <2>6. TypeOK'
    BY <1>1, <2>4, <2>5 DEF FetchSvn, TypeOK, Sha, Phases
  <2>7. TodoOK'
    BY <1>1, <2>1 DEF FetchSvn, TodoOK, NewRevisions, IsEcho
  <2>8. CopiesOK' /\ RecordsTruthful'
    BY <1>1, CopiesStable, RecordsStable DEF FetchSvn
  <2>9. PhaseOK'
    BY <1>1 DEF FetchSvn, PhaseOK
  <2> QED BY <2>6, <2>7, <2>8, <2>9
<1>2. CASE FetchGit
  <2>1. CommitsSince(SinceSha) \subseteq 1..Len(remote)
    BY DEF CommitsSince, TypeOK
  <2>2. TypeOK'
    BY <1>2, <2>1 DEF FetchGit, Pulled, TypeOK, Sha, Phases
  <2>3. CopiesOK'
    BY <1>2, NoCommitAssumption
       DEF FetchGit, Pulled, CopiesOK, GitCopyOK, SvnCopyOK, SvnPositions, GitPositions
  <2>4. TodoOK'
    BY <1>2 DEF FetchGit, Pulled, TodoOK, IsEcho
  <2>5. RecordsTruthful'
    BY <1>2, RecordsStable DEF FetchGit, Pulled
  <2>6. PhaseOK'
    BY <1>2 DEF FetchGit, Pulled, PhaseOK
  <2> QED BY <2>2, <2>3, <2>4, <2>5, <2>6
<1>3. CASE DetectConflicts
  <2>1. conflicts' \subseteq Files /\ faults' \in Nat
    BY <1>3 DEF DetectConflicts, DetectedConflicts, TypeOK
  <2>2. TypeOK'
    BY <1>3, <2>1 DEF DetectConflicts, TypeOK, Sha, Phases, SyncStates
  <2>3. CopiesOK' /\ RecordsTruthful'
    BY <1>3, CopiesStable, RecordsStable DEF DetectConflicts
  <2>4. TodoOK' /\ PhaseOK'
    BY <1>3 DEF DetectConflicts, TodoOK, PhaseOK
  <2> QED BY <2>2, <2>3, <2>4
<1> QED BY <1>1, <1>2, <1>3

\* A record is written when both its commits exist.
LEMMA WriteRecordKeeps ==
    ASSUME IInv, NEW from, NEW to \in Phases, NEW dir \in Directions,
           NEW rev \in SvnPositions, NEW sha \in GitPositions,
           IF dir = "svn_to_git" THEN remote[sha].origin = rev
                                 ELSE svnLog[rev].origin = sha,
           WriteRecord(from, to, dir, rev, sha)
    PROVE  TypeOK' /\ CopiesOK' /\ TodoOK' /\ RecordsTruthful'
<1> USE DEF IInv, servers, clone, row, kv, history
<1> DEFINE rec == [dir |-> dir, rev |-> rev, sha |-> sha]
<1>1. rec \in Record
  BY DEF Record, SvnPositions, GitPositions
<1>2. records' \in {records, Append(records, rec)}
  BY DEF WriteRecord
<1>3. records \in Seq(Record)
  BY DEF TypeOK
<1>4. records' \in Seq(Record)
  BY <1>1, <1>2, <1>3
<1>5. TypeOK'
  <2>1. /\ pc' \in Phases /\ syncState' \in SyncStates /\ faults' \in Nat
        /\ svnTodo' \in {svnTodo, {}} /\ gitTodo' \in {gitTodo, {}}
        /\ cur' \in {cur, 0} /\ out' \in {out, 0} /\ wcRev' \in {wcRev, 0}
    BY DEF WriteRecord, Abort, ForgetCycle, Goto, TypeOK, Phases, SyncStates
  <2>2. UNCHANGED <<servers, clone, row, kv, conflicts, history, resets, resolves>>
    BY DEF WriteRecord
  <2>3. /\ svnTodo' \subseteq 1..Len(svnLog) /\ gitTodo' \subseteq 1..Len(remote)
        /\ cur' \in Nat /\ out' \in Nat /\ wcRev' \in 0..Len(svnLog)
    <3>1. /\ svnTodo \subseteq 1..Len(svnLog) /\ gitTodo \subseteq 1..Len(remote)
          /\ cur \in Nat /\ out \in Nat
          /\ wcRev \in 0..Len(svnLog) /\ 0 \in 0..Len(svnLog)
      BY DEF TypeOK
    <3>2. svnTodo' \subseteq 1..Len(svnLog) /\ gitTodo' \subseteq 1..Len(remote)
      BY <2>1, <3>1
    <3>3. cur' \in Nat /\ out' \in Nat /\ wcRev' \in 0..Len(svnLog)
      BY <2>1, <3>1
    <3> QED BY <3>2, <3>3
  <2>4. Sha' = Sha
    BY <2>2 DEF Sha
  <2> HIDE DEF IInv
  <2>5. TypeOK
    BY DEF IInv
  <2> QED BY <1>4, <2>1, <2>2, <2>3, <2>4, <2>5 DEF TypeOK
<1>6. CopiesOK' /\ TodoOK'
  BY CopiesStable DEF WriteRecord, Abort, ForgetCycle, TodoOK
<1>7. RecordsTruthful'
  <2>1. CASE records' = records
    BY <2>1, RecordsStable DEF WriteRecord
  <2>2. CASE records' = Append(records, rec)
    <3>1. svnLog' = svnLog /\ remote' = remote
      BY DEF WriteRecord
    <3>2. DOMAIN svnLog = SvnPositions /\ DOMAIN remote = GitPositions
      BY DEF TypeOK, SvnPositions, GitPositions
    <3>3. \A i \in DOMAIN records' : i \in DOMAIN records \/ records'[i] = rec
      BY <1>1, <1>3, <2>2, AppendKeeps
    <3>4. \A i \in DOMAIN records : records'[i] = records[i]
      BY <1>1, <1>3, <2>2, AppendKeeps
    <3> QED BY <3>1, <3>2, <3>3, <3>4 DEF RecordsTruthful
  <2> QED BY <1>2, <2>1, <2>2
<1> QED BY <1>5, <1>6, <1>7

\* insert_sync_record after a push and after an SVN commit.
LEMMA RecordSteps ==
    ASSUME IInv, RecordRevision \/ RecordCommit
    PROVE  IInv'
<1> USE DEF IInv
<1>1. CASE RecordRevision
  <2>1. cur \in SvnPositions /\ out \in GitPositions /\ remote[out].origin = cur
    BY <1>1 DEF RecordRevision, WriteRecord, PhaseOK
  <2>2. TypeOK' /\ CopiesOK' /\ TodoOK' /\ RecordsTruthful'
    BY <1>1, <2>1, WriteRecordKeeps DEF RecordRevision, Phases, Directions
  <2>3. PhaseOK'
    BY <1>1, <2>1 DEF RecordRevision, WriteRecord, PhaseOK, Goto, Abort,
           ForgetCycle, servers, clone, SvnPositions, GitPositions
  <2> QED BY <2>2, <2>3
<1>2. CASE RecordCommit
  <2>1. cur \in GitPositions /\ out \in SvnPositions /\ svnLog[out].origin = cur
    BY <1>2 DEF RecordCommit, WriteRecord, PhaseOK
  <2>2. TypeOK' /\ CopiesOK' /\ TodoOK' /\ RecordsTruthful'
    BY <1>2, <2>1, WriteRecordKeeps DEF RecordCommit, Phases, Directions
  <2>3. PhaseOK'
    BY <1>2, <2>1 DEF RecordCommit, WriteRecord, PhaseOK, Goto, Abort,
           ForgetCycle, servers, clone, SvnPositions, GitPositions
  <2> QED BY <2>2, <2>3
<1> QED BY <1>1, <1>2
\* Preparing the working copy takes the oldest fetched commit in hand.
LEMMA PrepareStep ==
    ASSUME IInv, PrepareWorkingCopy
    PROVE  IInv'
<1> USE DEF IInv, servers, clone, row, kv, db, bounds, Goto
<1>1. PICK s \in gitTodo :
        /\ cur' = s /\ gitTodo' = gitTodo \ {s}
        /\ \/ pc' = "skip_kv" /\ skipped' = skipped \cup {s}
           \/ pc' = "svn_commit" /\ UNCHANGED skipped
  BY DEF PrepareWorkingCopy
<1>2. s \in GitPositions /\ ~remote[s].marked
  BY DEF TypeOK, TodoOK, GitPositions
<1>3. TypeOK'
  <2>1. /\ skipped' \subseteq 1..Len(remote) /\ gitTodo' \subseteq 1..Len(remote)
        /\ cur' \in Nat /\ pc' \in Phases
    <3>1. skipped \subseteq 1..Len(remote) /\ gitTodo \subseteq 1..Len(remote)
      BY DEF TypeOK
    <3>2. skipped' \subseteq 1..Len(remote)
      BY <1>1, <1>2, <3>1 DEF GitPositions
    <3>3. gitTodo' \subseteq 1..Len(remote)
      BY <1>1, <3>1
    <3>4. cur' \in Nat /\ pc' \in Phases
      BY <1>1, <1>2 DEF Phases, GitPositions
    <3> QED BY <3>2, <3>3, <3>4
  <2>2. wcRev' \in 0..Len(svnLog)
    BY DEF PrepareWorkingCopy, TypeOK
  <2>3. UNCHANGED <<servers, clone, db, svnTodo, out, fetched, bounds>>
    BY DEF PrepareWorkingCopy
  <2> QED BY <2>1, <2>2, <2>3 DEF TypeOK, Sha
<1>4. CopiesOK' /\ RecordsTruthful'
  BY CopiesStable, RecordsStable DEF PrepareWorkingCopy
<1>5. TodoOK'
  BY <1>1 DEF PrepareWorkingCopy, TodoOK
<1>6. PhaseOK'
  BY <1>1, <1>2 DEF PrepareWorkingCopy, PhaseOK, GitPositions
<1> QED BY <1>3, <1>4, <1>5, <1>6

\* The row gets the revision and the SHA of a commit that was just pushed.
LEMMA SaveRevisionRowStep ==
    ASSUME IInv, SaveRevisionRow
    PROVE  IInv'
<1> USE DEF IInv, servers, clone, row, kv, history, Goto, WriteIgnoringErrors,
            CanFail
<1>1. cur \in SvnPositions /\ out \in GitPositions
  BY DEF SaveRevisionRow, PhaseOK
<1>2. wmRev' \in 0..Len(svnLog) /\ wmSha' \in Sha
  BY <1>1 DEF SaveRevisionRow, TypeOK, Sha, SvnPositions, GitPositions
<1>3. TypeOK'
  BY <1>2 DEF SaveRevisionRow, TypeOK, Sha, Phases
<1>4. CopiesOK' /\ RecordsTruthful'
  BY CopiesStable, RecordsStable DEF SaveRevisionRow
<1>5. TodoOK' /\ PhaseOK'
  BY DEF SaveRevisionRow, TodoOK, PhaseOK
<1> QED BY <1>3, <1>4, <1>5

\* The local commit is a marked copy of a fetched revision.
LEMMA ApplyStep ==
    ASSUME IInv, ApplyRevision
    PROVE  IInv'
<1> USE DEF IInv, servers, db, history, Goto
<1>1. PICK r \in svnTodo :
        /\ \E missed \in SUBSET CatFiles(r) :
             /\ faults' = IF missed = {} THEN faults ELSE faults + 1
             /\ unpushed' =
                  [tree |-> Overlay(LocalTree, svnLog, r,
                                    Delta(svnLog, r) \ missed),
                   origin |-> r, marked |-> TRUE, blank |-> svnLog[r].blank]
        /\ cur' = r /\ svnTodo' = svnTodo \ {r}
  BY DEF ApplyRevision
<1> PICK missed \in SUBSET CatFiles(r) :
      /\ faults' = IF missed = {} THEN faults ELSE faults + 1
      /\ unpushed' =
           [tree |-> Overlay(LocalTree, svnLog, r, Delta(svnLog, r) \ missed),
            origin |-> r, marked |-> TRUE, blank |-> svnLog[r].blank]
  BY <1>1
<1>2. r \in 1..Len(svnLog) /\ r \in Nat /\ r # 0 /\ ~svnLog[r].marked
  BY DEF TypeOK, TodoOK
<1>3. unpushed' \in Commit
  <2>1. LocalTree \in Tree
    <3>1. CASE unpushed = NoCommit
      BY <3>1, TreeAtType DEF LocalTree, TypeOK
    <3>2. CASE unpushed # NoCommit
      BY <3>2 DEF LocalTree, TypeOK, Commit
    <3> QED BY <3>1, <3>2
  <2>2. svnLog[r].blank \in BOOLEAN
    <3>1. svnLog[r] \in Commit
      BY <1>2 DEF TypeOK
    <3> QED BY <3>1 DEF Commit
  <2>3. Overlay(LocalTree, svnLog, r, Delta(svnLog, r) \ missed) \in Tree
    BY <1>2, <2>1, OverlayType DEF TypeOK
  <2> QED BY <1>1, <1>2, <2>2, <2>3 DEF Commit
<1>4. UNCHANGED <<servers, base, db, gitTodo, out, wcRev, history, resets,
                  resolves>> /\ pc' = "push"
  BY DEF ApplyRevision
<1>5. TypeOK'
  <2>1. cur' \in Nat /\ svnTodo' \subseteq 1..Len(svnLog) /\ faults' \in Nat
    BY <1>1, <1>2 DEF TypeOK
  <2> QED BY <1>3, <1>4, <2>1 DEF TypeOK, Sha, Phases
<1>6. CopiesOK'
  <2>1. /\ unpushed'.origin = r /\ unpushed'.marked
    BY <1>1
  <2>2. GitCopyOK(unpushed)'
    BY <1>2, <1>4, <2>1 DEF GitCopyOK, SvnPositions
  <2> QED BY <1>4, <2>2 DEF CopiesOK, GitCopyOK, SvnCopyOK, SvnPositions,
           GitPositions
<1>7. TodoOK'
  BY <1>1, <1>4 DEF TodoOK
<1>8. PhaseOK'
  <2>1. unpushed'.origin = r
    BY <1>1
  <2> QED BY <1>1, <1>2, <1>3, <1>4, <2>1 DEF PhaseOK, SvnPositions
<1>9. RecordsTruthful'
  BY <1>4, RecordsStable
<1> QED BY <1>5, <1>6, <1>7, <1>8, <1>9

\* A longer history keeps the types of the positions stored for it.
LEMMA TypeGrows ==
    ASSUME TypeOK,
           svnLog' \in Seq(Commit), remote' \in Seq(Commit),
           Len(svnLog') \in {Len(svnLog), Len(svnLog) + 1},
           Len(remote') \in {Len(remote), Len(remote) + 1}
    PROVE  /\ 0..Len(svnLog) \subseteq 0..Len(svnLog')
           /\ 1..Len(svnLog) \subseteq 1..Len(svnLog')
           /\ 0..Len(remote) \subseteq 0..Len(remote')
           /\ 1..Len(remote) \subseteq 1..Len(remote')
           /\ Sha \subseteq Sha'
           /\ Len(svnLog') \in 0..Len(svnLog')
           /\ Len(remote') \in 0..Len(remote')
<1>1. /\ Len(svnLog) \in Nat /\ Len(remote) \in Nat
      /\ Len(svnLog') \in Nat /\ Len(remote') \in Nat
  BY DEF TypeOK
<1> QED BY <1>1 DEF Sha

\* The engine publishes its local commit; it may not learn that it did.
LEMMA PushSteps ==
    ASSUME IInv, Push \/ PushUnacknowledged
    PROVE  IInv'
<1> USE DEF IInv, servers, clone, row, kv, db, history, bounds
<1>1. /\ unpushed \in Commit /\ unpushed.origin = cur /\ cur \in SvnPositions
      /\ GitCopyOK(unpushed)
  BY DEF Push, PushUnacknowledged, PhaseOK, CopiesOK
<1>2. /\ remote' = Append(remote, unpushed) /\ UNCHANGED <<svnLog, records>>
      /\ unpushed' \in {unpushed, NoCommit}
  BY DEF Push, PushUnacknowledged, PushAccepted
<1>3. /\ remote' \in Seq(Commit) /\ Len(remote') = Len(remote) + 1
      /\ \A i \in 1..Len(remote) : remote'[i] = remote[i]
      /\ remote'[Len(remote) + 1] = unpushed
      /\ Len(remote) \in Nat /\ Len(svnLog) \in Nat
  BY <1>1, <1>2, AppendKeeps DEF TypeOK
<1>4. CopiesOK' /\ RecordsTruthful'
  BY <1>1, <1>2, GitGrows
<1>5. TodoOK'
  BY <1>2, <1>3 DEF Push, PushUnacknowledged, Abort, ForgetCycle, TodoOK, TypeOK
<1>6. /\ 0..Len(remote) \subseteq 0..Len(remote')
      /\ 1..Len(remote) \subseteq 1..Len(remote')
      /\ Sha \subseteq Sha' /\ Len(remote') \in 0..Len(remote')
  BY <1>2, <1>3, TypeGrows DEF TypeOK
<1>7. CASE Push
  <2>1. /\ base' = Len(remote') /\ unpushed' = NoCommit /\ out' = Len(remote')
        /\ pc' = "s2g_record"
        /\ UNCHANGED <<svnLog, db, svnTodo, gitTodo, cur, wcRev, history, bounds>>
    BY <1>7 DEF Push, Goto
  <2>2. TypeOK'
    BY <1>3, <1>6, <2>1 DEF TypeOK, Phases
  <2>3. PhaseOK'
    BY <1>1, <1>3, <2>1 DEF PhaseOK, SvnPositions, GitPositions
  <2> QED BY <1>4, <1>5, <2>2, <2>3
<1>8. CASE PushUnacknowledged
  <2>1. /\ pc' = "idle" /\ syncState' = "error" /\ faults' = faults + 1
        /\ svnTodo' = {} /\ gitTodo' = {} /\ cur' = 0 /\ out' = 0 /\ wcRev' = 0
        /\ UNCHANGED <<svnLog, clone, row, kv, records, conflicts, history,
                       resets, resolves>>
    BY <1>8 DEF PushUnacknowledged, Abort, ForgetCycle
  <2>2. TypeOK'
    BY <1>3, <1>6, <2>1 DEF TypeOK, Phases, SyncStates
  <2>3. PhaseOK'
    BY <2>1 DEF PhaseOK
  <2> QED BY <1>4, <1>5, <2>2, <2>3
<1> QED BY <1>7, <1>8

\* The engine commits a fetched Git commit to SVN; it may not learn that it did.
LEMMA SvnCommitSteps ==
    ASSUME IInv, CommitToSvn \/ SvnCommitUnacknowledged
    PROVE  IInv'
<1> USE DEF IInv, servers, clone, row, kv, db, history, bounds
<1> DEFINE c == [tree |-> Overlay(TreeAt(svnLog, Len(svnLog)), remote, cur,
                                  PendingFiles(cur, wcRev)),
                 origin |-> cur, marked |-> TRUE, blank |-> FALSE]
<1>1. cur \in GitPositions /\ ~remote[cur].marked
  BY DEF CommitToSvn, SvnCommitUnacknowledged, PhaseOK
<1>2. c \in Commit
  <2>1. TreeAt(svnLog, Len(svnLog)) \in Tree
    BY TreeAtType DEF TypeOK
  <2>2. Overlay(TreeAt(svnLog, Len(svnLog)), remote, cur,
                PendingFiles(cur, wcRev)) \in Tree
    BY <1>1, <2>1, OverlayType DEF TypeOK, GitPositions
  <2> QED BY <1>1, <2>2 DEF Commit, GitPositions
<1>3. SvnCopyOK(c)
  BY <1>1 DEF SvnCopyOK
<1>4. /\ svnLog' = Append(svnLog, c) /\ UNCHANGED <<remote, records>>
      /\ unpushed' \in {unpushed, NoCommit}
  BY DEF CommitToSvn, SvnCommitUnacknowledged, SvnCommitAccepted
<1>5. c.origin = cur
  OBVIOUS
<1> HIDE DEF c
<1>6. /\ svnLog' \in Seq(Commit) /\ Len(svnLog') = Len(svnLog) + 1
      /\ \A i \in 1..Len(svnLog) : svnLog'[i] = svnLog[i]
      /\ svnLog'[Len(svnLog) + 1] = c
      /\ Len(remote) \in Nat /\ Len(svnLog) \in Nat
  BY <1>2, <1>4, AppendKeeps DEF TypeOK
<1>7. CopiesOK' /\ RecordsTruthful'
  BY <1>2, <1>3, <1>4, SvnGrows
<1>8. TodoOK'
  BY <1>4, <1>6 DEF CommitToSvn, SvnCommitUnacknowledged, Abort, ForgetCycle,
         TodoOK, TypeOK
<1>9. /\ 0..Len(svnLog) \subseteq 0..Len(svnLog')
      /\ 1..Len(svnLog) \subseteq 1..Len(svnLog')
      /\ Len(svnLog') \in 0..Len(svnLog')
  BY <1>4, <1>6, TypeGrows DEF TypeOK
<1>10. CASE CommitToSvn
  <2>1. /\ out' = Len(svnLog') /\ pc' = "g2s_record"
        /\ UNCHANGED <<remote, clone, db, svnTodo, gitTodo, cur, wcRev, history,
                       bounds>>
    BY <1>10 DEF CommitToSvn, Goto
  <2>2. TypeOK'
    BY <1>6, <1>9, <2>1 DEF TypeOK, Phases, Sha
  <2>3. PhaseOK'
    BY <1>1, <1>5, <1>6, <2>1 DEF PhaseOK, SvnPositions, GitPositions
  <2> QED BY <1>7, <1>8, <2>2, <2>3
<1>11. CASE SvnCommitUnacknowledged
  <2>1. /\ pc' = "idle" /\ syncState' = "error" /\ faults' = faults + 1
        /\ svnTodo' = {} /\ gitTodo' = {} /\ cur' = 0 /\ out' = 0 /\ wcRev' = 0
        /\ UNCHANGED <<remote, clone, row, kv, records, conflicts, history,
                       resets, resolves>>
    BY <1>11 DEF SvnCommitUnacknowledged, Abort, ForgetCycle
  <2>2. TypeOK'
    BY <1>6, <1>9, <2>1 DEF TypeOK, Phases, SyncStates, Sha
  <2>3. PhaseOK'
    BY <2>1 DEF PhaseOK
  <2> QED BY <1>7, <1>8, <2>2, <2>3
<1> QED BY <1>10, <1>11

\* Users only append to a history, and what they append copies nothing.
LEMMA UserSteps ==
    ASSUME IInv, UserSvnCommit \/ UserGitPush
    PROVE  IInv'
<1> USE DEF IInv, servers, clone, row, kv, db, memory, history, bounds
<1>1. CASE UserSvnCommit
  <2>1. PICK f \in Files, c \in Contents \cup {Absent}, m \in MarkerChoices,
             b \in BlankChoices : svnLog' = UserEdit(svnLog, f, c, m, b)
    BY <1>1 DEF UserSvnCommit
  <2>2. m \in BOOLEAN /\ b \in BOOLEAN
    BY TeamSyncAssumption
  <2>3. PICK e \in Commit : e.origin = 0 /\ svnLog' = Append(svnLog, e)
    BY <2>1, <2>2, UserEditType DEF TypeOK
  <2>4. UNCHANGED <<remote, clone, db, memory, history, bounds>>
    BY <1>1 DEF UserSvnCommit
  <2>5. CopiesOK' /\ RecordsTruthful'
    <3>1. SvnCopyOK(e)
      BY <2>3 DEF SvnCopyOK
    <3> QED BY <2>3, <2>4, <3>1, SvnGrows
  <2>6. /\ svnLog' \in Seq(Commit) /\ Len(svnLog') = Len(svnLog) + 1
        /\ \A i \in 1..Len(svnLog) : svnLog'[i] = svnLog[i]
        /\ Len(svnLog) \in Nat /\ Len(remote) \in Nat
    BY <2>3, AppendKeeps DEF TypeOK
  <2>7. TypeOK'
    <3>1. /\ 0..Len(svnLog) \subseteq 0..Len(svnLog')
          /\ 1..Len(svnLog) \subseteq 1..Len(svnLog')
      BY <2>4, <2>6, TypeGrows DEF TypeOK
    <3> QED BY <2>4, <2>6, <3>1 DEF TypeOK, Sha
  <2>8. TodoOK'
    BY <2>4, <2>6 DEF TodoOK, TypeOK
  <2>9. PhaseOK'
    BY <2>4, <2>6 DEF PhaseOK, SvnPositions, GitPositions
  <2> QED BY <2>5, <2>7, <2>8, <2>9
<1>2. CASE UserGitPush
  <2>1. PICK f \in Files, c \in Contents \cup {Absent}, m \in MarkerChoices :
          remote' = UserEdit(remote, f, c, m, FALSE)
    BY <1>2 DEF UserGitPush
  <2>2. m \in BOOLEAN
    BY TeamSyncAssumption
  <2>3. PICK e \in Commit : e.origin = 0 /\ remote' = Append(remote, e)
    BY <2>1, <2>2, UserEditType DEF TypeOK
  <2>4. UNCHANGED <<svnLog, clone, db, memory, history, bounds>>
    BY <1>2 DEF UserGitPush
  <2>5. CopiesOK' /\ RecordsTruthful'
    <3>1. GitCopyOK(e)
      BY <2>3 DEF GitCopyOK
    <3> QED BY <2>3, <2>4, <3>1, GitGrows
  <2>6. /\ remote' \in Seq(Commit) /\ Len(remote') = Len(remote) + 1
        /\ \A i \in 1..Len(remote) : remote'[i] = remote[i]
        /\ Len(svnLog) \in Nat /\ Len(remote) \in Nat
    BY <2>3, AppendKeeps DEF TypeOK
  <2>7. TypeOK'
    <3>1. /\ 0..Len(remote) \subseteq 0..Len(remote')
          /\ 1..Len(remote) \subseteq 1..Len(remote')
          /\ Sha \subseteq Sha'
      BY <2>4, <2>6, TypeGrows DEF TypeOK
    <3> QED BY <2>4, <2>6, <3>1 DEF TypeOK
  <2>8. TodoOK'
    BY <2>4, <2>6 DEF TodoOK, TypeOK
  <2>9. PhaseOK'
    BY <2>4, <2>6 DEF PhaseOK, SvnPositions, GitPositions
  <2> QED BY <2>5, <2>7, <2>8, <2>9
<1> QED BY <1>1, <1>2

-----------------------------------------------------------------------------
(* The theorems.                                                           *)

\* The initial states satisfy the inductive invariant.
LEMMA InitIInv == Init => IInv
<1> SUFFICES ASSUME Init PROVE IInv
  OBVIOUS
<1>1. PICK seeded \in BOOLEAN : InitLogs(seeded)
  BY DEF Init
<1>2. EmptyTree \in Tree
  BY DEF EmptyTree, Tree
<1> DEFINE s == [tree |-> EmptyTree, origin |-> 0,
                 marked |-> FALSE, blank |-> FALSE]
           g == [tree |-> EmptyTree, origin |-> IF seeded THEN 1 ELSE 0,
                 marked |-> seeded, blank |-> FALSE]
<1>3. s \in Commit /\ g \in Commit
  BY <1>2 DEF Commit
<1>4. svnLog = <<s>> /\ remote = <<g>>
  BY <1>1 DEF InitLogs
<1>5. /\ svnLog \in Seq(Commit) /\ Len(svnLog) = 1 /\ svnLog[1] = s
      /\ remote \in Seq(Commit) /\ Len(remote) = 1 /\ remote[1] = g
  BY <1>3, <1>4
<1>6. TypeOK
  <2>1. wmRev \in {0, 1} /\ wmSha \in {0, 1}
    BY <1>1 DEF InitLogs
  <2> QED BY <1>5, <2>1 DEF Init, TypeOK, Sha, Phases, SyncStates
<1>7. CopiesOK
  BY <1>5, NoCommitAssumption
     DEF Init, CopiesOK, GitCopyOK, SvnCopyOK, SvnPositions, GitPositions
<1>8. TodoOK /\ PhaseOK /\ RecordsTruthful
  BY DEF Init, TodoOK, PhaseOK, RecordsTruthful
<1> QED BY <1>6, <1>7, <1>8 DEF IInv

\* Every step keeps the inductive invariant.
LEMMA NextIInv == IInv /\ [Next]_vars => IInv'
<1> SUFFICES ASSUME IInv, [Next]_vars PROVE IInv'
  OBVIOUS
<1>1. CASE Users
  BY <1>1, UserSteps, BookkeepingSteps DEF Users
<1>2. CASE Environment
  BY <1>2, RestartSteps, BookkeepingSteps, PushSteps, SvnCommitSteps
     DEF Environment
<1>3. CASE Engine
  <2>1. CASE SvnToGit
    BY <2>1, ApplyStep, PushSteps, RecordSteps, SaveRevisionRowStep,
       BookkeepingSteps DEF SvnToGit
  <2>2. CASE GitToSvn
    BY <2>2, PrepareStep, SvnCommitSteps, RecordSteps, BookkeepingSteps
       DEF GitToSvn
  <2> QED BY <1>3, <2>1, <2>2, FetchSteps, BookkeepingSteps DEF Engine
<1>4. CASE UNCHANGED vars
  BY <1>4 DEF vars, IInv, TypeOK, Sha, CopiesOK, GitCopyOK, SvnCopyOK, TodoOK,
         PhaseOK, SvnPositions, GitPositions, RecordsTruthful
<1> QED BY <1>1, <1>2, <1>3, <1>4 DEF Next

\* The inductive invariant holds in every reachable state.
THEOREM Invariant == Spec => []IInv
<1> QED BY InitIInv, NextIInv, PTL DEF Spec

\* Every variable keeps its type, and every stored position names a commit
\* that exists, for any files, contents and number of commits and faults.
THEOREM TypeCorrect == Spec => []TypeOK
<1>1. IInv => TypeOK
  BY DEF IInv
<1> QED BY <1>1, Invariant, PTL

\* The records insert_sync_record leaves behind name a commit and its copy,
\* across crashes, lost acknowledgements and failed writes.
THEOREM RecordsAlwaysTruthful == Spec => []RecordsTruthful
<1>1. IInv => RecordsTruthful
  BY DEF IInv
<1> QED BY <1>1, Invariant, PTL

\* The engine never copies one of its own commits back, whatever messages
\* users write and whatever fails: is_echo_commit is enough for that.
THEOREM NeverPingPong == Spec => []NoPingPong
<1>1. IInv => NoPingPong
  <2> SUFFICES ASSUME IInv PROVE NoPingPong
    OBVIOUS
  <2>1. /\ DOMAIN svnLog = SvnPositions /\ DOMAIN remote = GitPositions
    BY DEF IInv, TypeOK, SvnPositions, GitPositions
  <2> QED BY <2>1 DEF IInv, CopiesOK, GitCopyOK, SvnCopyOK, NoPingPong
<1> QED BY <1>1, Invariant, PTL

-----------------------------------------------------------------------------
(* The engine implements Replication.                                      *)

\* Appending a commit appends its origin.
LEMMA OriginsAppend ==
    ASSUME NEW log \in Seq(Commit), NEW c \in Commit
    PROVE  Origins(Append(log, c)) = Append(Origins(log), c.origin)
<1>1. /\ Append(log, c) \in Seq(Commit) /\ Len(Append(log, c)) = Len(log) + 1
      /\ \A i \in 1..Len(log) : Append(log, c)[i] = log[i]
      /\ Append(log, c)[Len(log) + 1] = c
  BY AppendKeeps
<1>2. Len(log) \in Nat /\ c.origin \in Nat
  BY DEF Commit
<1>3. \A l \in Seq(Commit) : /\ Origins(l) = [i \in 1..Len(l) |-> l[i].origin]
                             /\ Origins(l) \in Seq(Nat) /\ Len(Origins(l)) = Len(l)
  <2> SUFFICES ASSUME NEW l \in Seq(Commit)
               PROVE  /\ Origins(l) = [i \in 1..Len(l) |-> l[i].origin]
                      /\ Origins(l) \in Seq(Nat) /\ Len(Origins(l)) = Len(l)
    OBVIOUS
  <2>1. DOMAIN l = 1..Len(l) /\ Len(l) \in Nat
    OBVIOUS
  <2>2. \A i \in 1..Len(l) : l[i].origin \in Nat
    <3>1. \A i \in 1..Len(l) : l[i] \in Commit
      OBVIOUS
    <3> QED BY <3>1 DEF Commit
  <2>3. Origins(l) = [i \in 1..Len(l) |-> l[i].origin]
    BY <2>1 DEF Origins
  <2>4. Origins(l) \in [1..Len(l) -> Nat]
    BY <2>2, <2>3
  <2> QED BY <2>1, <2>3, <2>4
<1>4. /\ Append(Origins(log), c.origin) \in Seq(Nat)
      /\ Len(Append(Origins(log), c.origin)) = Len(log) + 1
      /\ \A i \in 1..Len(log) : Append(Origins(log), c.origin)[i] = Origins(log)[i]
      /\ Append(Origins(log), c.origin)[Len(log) + 1] = c.origin
  BY <1>2, <1>3, AppendKeeps
<1> DEFINE a == Origins(Append(log, c))
           b == Append(Origins(log), c.origin)
<1>5. a \in Seq(Nat) /\ b \in Seq(Nat) /\ Len(a) = Len(b)
  BY <1>1, <1>3, <1>4
<1>6. \A i \in 1..Len(a) : a[i] = b[i]
  <2>1. \A l \in Seq(Commit) : \A i \in 1..Len(l) : Origins(l)[i] = l[i].origin
    BY DEF Origins
  <2>2. Len(a) = Len(log) + 1
    BY <1>1, <1>3
  <2>3. \A i \in 1..Len(a) : a[i] = Append(log, c)[i].origin
    BY <1>1, <2>1, <2>2
  <2>4. \A i \in 1..Len(log) : Origins(log)[i] = log[i].origin
    BY <2>1
  <2>5. \A i \in 1..Len(log) : a[i] = b[i]
    BY <1>1, <1>2, <1>4, <2>2, <2>3, <2>4
  <2>6. a[Len(log) + 1] = b[Len(log) + 1]
    BY <1>1, <1>2, <1>4, <2>2, <2>3
  <2> HIDE DEF a, b
  <2>7. \A i \in 1..Len(a) : i \in 1..Len(log) \/ i = Len(log) + 1
    BY <1>2, <2>2
  <2> QED BY <2>5, <2>6, <2>7
<1> HIDE DEF a, b
<1>7. a = b
  BY <1>5, <1>6, SeqEqual
<1> QED BY <1>7 DEF a, b

\* The first states map to initial states.
LEMMA RefinementInit == Init => Promise!Init
<1> SUFFICES ASSUME Init PROVE Promise!Init
  OBVIOUS
<1>1. PICK seeded \in BOOLEAN : InitLogs(seeded)
  BY DEF Init
<1>2. \A x : Origins(<<x>>) = <<x.origin>>
  BY DEF Origins
<1> QED BY <1>1, <1>2 DEF InitLogs, Promise!Init

\* What users commit is appended, a copy of nothing.
LEMMA UsersOnlyAppend ==
    ASSUME IInv, UserSvnCommit \/ UserGitPush
    PROVE  Promise!UserCommit
<1>1. svnLog \in Seq(Commit) /\ remote \in Seq(Commit)
  BY DEF IInv, TypeOK
<1>2. CASE UserSvnCommit
  <2>1. PICK f \in Files, c \in Contents \cup {Absent}, m \in MarkerChoices,
             b \in BlankChoices : svnLog' = UserEdit(svnLog, f, c, m, b)
    BY <1>2 DEF UserSvnCommit
  <2>2. PICK e \in Commit : e.origin = 0 /\ svnLog' = Append(svnLog, e)
    BY <1>1, <2>1, TeamSyncAssumption, UserEditType
  <2>3. remote' = remote
    BY <1>2 DEF UserSvnCommit
  <2>4. Origins(svnLog)' = Append(Origins(svnLog), 0)
    BY <1>1, <2>2, OriginsAppend
  <2>5. Origins(remote)' = Origins(remote)
    BY <2>3
  <2> QED BY <2>4, <2>5 DEF Promise!UserCommit
<1>3. CASE UserGitPush
  <2>1. PICK f \in Files, c \in Contents \cup {Absent}, m \in MarkerChoices :
          remote' = UserEdit(remote, f, c, m, FALSE)
    BY <1>3 DEF UserGitPush
  <2>2. PICK e \in Commit : e.origin = 0 /\ remote' = Append(remote, e)
    <3>1. m \in BOOLEAN
      BY TeamSyncAssumption
    <3> QED BY <1>1, <2>1, <3>1, UserEditType
  <2>3. svnLog' = svnLog
    BY <1>3 DEF UserGitPush
  <2>4. Origins(remote)' = Append(Origins(remote), 0)
    BY <1>1, <2>2, OriginsAppend
  <2>5. Origins(svnLog)' = Origins(svnLog)
    BY <2>3
  <2> QED BY <2>4, <2>5 DEF Promise!UserCommit
<1> QED BY <1>2, <1>3

\* Only users and the engine's two publishing calls, answered or not, grow a
\* history.
LEMMA OthersPublishNothing ==
    ASSUME [Next]_vars
    PROVE  \/ UserSvnCommit \/ UserGitPush \/ Push \/ PushUnacknowledged
           \/ CommitToSvn \/ SvnCommitUnacknowledged \/ UNCHANGED servers
<1> USE DEF servers, clone, db, row, kv, memory, history, bounds
<1>1. CASE Users
  BY <1>1 DEF Users, ResolveConflict
<1>2. CASE Environment
  BY <1>2 DEF Environment, Crash, FreshDb, CommandError
<1>3. CASE SvnToGit
  BY <1>3 DEF SvnToGit, ApplyRevision, PushRejected, RecordRevision,
     WriteRecord, SaveRevisionKey, SaveRevisionRow, RevisionsApplied
<1>4. CASE GitToSvn
  BY <1>4 DEF GitToSvn, PrepareWorkingCopy, SkipKey, SkipRow,
     SvnCommitRefused, RecordCommit, WriteRecord, SaveCommitKey,
     SaveCommitRow, FinishCycle
<1>5. CASE StartCycle \/ FetchSvn \/ FetchGit \/ DetectConflicts
  BY <1>5 DEF StartCycle, FetchSvn, FetchGit, Pulled, DetectConflicts
<1>6. CASE UNCHANGED vars
  BY <1>6 DEF vars
<1> QED BY <1>1, <1>2, <1>3, <1>4, <1>5, <1>6 DEF Next, Engine

\* A step that grows neither history is a stuttering step of Replication;
\* a user's commit and the engine's four publishing steps are its actions.
LEMMA RefinementStep ==
    IInv /\ [Next]_vars => [Promise!Next]_<<Origins(svnLog), Origins(remote)>>
<1> SUFFICES ASSUME IInv, [Next]_vars
             PROVE  [Promise!Next]_<<Origins(svnLog), Origins(remote)>>
  OBVIOUS
<1> USE DEF servers, clone, db, row, kv, memory, history, bounds
<1>1. /\ svnLog \in Seq(Commit) /\ remote \in Seq(Commit)
      /\ DOMAIN Origins(svnLog) = SvnPositions
      /\ DOMAIN Origins(remote) = GitPositions
      /\ \A r \in SvnPositions : Origins(svnLog)[r] = svnLog[r].origin
      /\ \A s \in GitPositions : Origins(remote)[s] = remote[s].origin
  BY DEF IInv, TypeOK, Origins, SvnPositions, GitPositions
<1>2. CASE UserSvnCommit \/ UserGitPush
  BY <1>2, UsersOnlyAppend DEF Promise!Next
<1>3. CASE Push \/ PushUnacknowledged
  <2>1. /\ unpushed \in Commit /\ unpushed.origin = cur /\ cur \in SvnPositions
        /\ GitCopyOK(unpushed) /\ SvnCopyOK(svnLog[cur])
    BY <1>3 DEF Push, PushUnacknowledged, IInv, PhaseOK, CopiesOK
  <2>2. svnLog[cur].origin = 0
    BY <2>1 DEF GitCopyOK, SvnCopyOK, SvnPositions
  <2>3. remote' = Append(remote, unpushed) /\ svnLog' = svnLog
    BY <1>3 DEF Push, PushUnacknowledged, PushAccepted
  <2>4. Origins(remote)' = Append(Origins(remote), cur)
    BY <1>1, <2>1, <2>3, OriginsAppend
  <2>5. Origins(svnLog)' = Origins(svnLog)
    BY <2>3
  <2>6. Promise!CopyToGit(cur)
    BY <1>1, <2>1, <2>2, <2>4, <2>5 DEF Promise!CopyToGit
  <2> QED BY <1>1, <2>1, <2>6 DEF Promise!Next
<1>4. CASE CommitToSvn \/ SvnCommitUnacknowledged
  <2> DEFINE c == [tree |-> Overlay(TreeAt(svnLog, Len(svnLog)), remote, cur,
                                    PendingFiles(cur, wcRev)),
                   origin |-> cur, marked |-> TRUE, blank |-> FALSE]
  <2>1. cur \in GitPositions /\ ~remote[cur].marked /\ GitCopyOK(remote[cur])
    BY <1>4 DEF CommitToSvn, SvnCommitUnacknowledged, IInv, PhaseOK, CopiesOK
  <2>2. remote[cur].origin = 0
    BY <2>1 DEF GitCopyOK
  <2>3. svnLog' = Append(svnLog, c) /\ remote' = remote
    BY <1>4 DEF CommitToSvn, SvnCommitUnacknowledged, SvnCommitAccepted
  <2>4. c \in Commit /\ c.origin = cur
    <3>1. TreeAt(svnLog, Len(svnLog)) \in Tree
      BY <1>1, TreeAtType
    <3>2. Overlay(TreeAt(svnLog, Len(svnLog)), remote, cur,
                  PendingFiles(cur, wcRev)) \in Tree
      BY <1>1, <2>1, <3>1, OverlayType DEF GitPositions
    <3> QED BY <2>1, <3>2 DEF Commit, GitPositions
  <2> HIDE DEF c
  <2>5. Origins(svnLog)' = Append(Origins(svnLog), cur)
    BY <1>1, <2>3, <2>4, OriginsAppend
  <2>6. Origins(remote)' = Origins(remote)
    BY <2>3
  <2>7. Promise!CopyToSvn(cur)
    BY <1>1, <2>1, <2>2, <2>5, <2>6 DEF Promise!CopyToSvn
  <2> QED BY <1>1, <2>1, <2>7 DEF Promise!Next
<1>5. CASE UNCHANGED servers
  BY <1>5
<1>6. \/ UserSvnCommit \/ UserGitPush \/ Push \/ PushUnacknowledged
      \/ CommitToSvn \/ SvnCommitUnacknowledged \/ UNCHANGED servers
  BY OthersPublishNothing
<1> QED BY <1>2, <1>3, <1>4, <1>5, <1>6

\* Whatever fails and whoever commits meanwhile, both histories only grow, by
\* users' commits and by copies of users' commits of the other side: the
\* engine implements Replication.
THEOREM EngineImplementsReplication == Spec => ImplementsReplication
<1>1. IInv /\ [Next]_vars => [Promise!Next]_<<Origins(svnLog), Origins(remote)>>
  BY RefinementStep
<1> QED BY RefinementInit, <1>1, Invariant, PTL
        DEF Spec, ImplementsReplication, Promise!Spec

-----------------------------------------------------------------------------
(* Copies and faults: no more than one extra copy for each fault.          *)

\* How often a commit was copied, and how many faults and lost databases
\* there have been to excuse it.
GitCopies(r) == Cardinality(Copies(remote, r))
SvnCopies(s) == Cardinality(Copies(svnLog, s))
Spent == faults + resets

\* A cycle that starts now fetches only revisions after this one.
Covered(r) ==
    IF wmRev > 0 THEN r <= wmRev ELSE IF kvRev > 0 THEN r <= kvRev
    ELSE \E i \in DOMAIN records : r <= records[i].rev

RecordingRevision == {"s2g_record", "s2g_kv", "s2g_row"}
RecordingCommit == {"g2s_record", "g2s_kv", "g2s_row"}
Copying == {"svn_commit", "skip_kv", "skip_row"} \cup RecordingCommit

\* A revision copied once more than the faults allow is under the watermark,
\* or its watermark is being written.
RevisionsOnce ==
    \A r \in SvnPositions :
        /\ GitCopies(r) <= 1 + Spent
        /\ GitCopies(r) > Spent =>
             Covered(r) \/ (r = cur /\ pc \in RecordingRevision)

\* What is still to be applied is above the watermark, and above what was
\* applied before it.
RevisionsAhead ==
    /\ \A r \in svnTodo : ~Covered(r)
    /\ pc \in {"push", "s2g_record"} => ~Covered(cur)
    /\ pc \in {"push"} \cup RecordingRevision => \A r \in svnTodo : cur < r
    /\ pc \in {"s2g_kv", "s2g_row"} => \A r \in Nat : Covered(r) => r <= cur
    /\ pc \in {"idle", "git_to_svn"} \cup Copying => svnTodo = {}
    /\ pc \in RecordingCommit => \A r \in Nat : Covered(r) => r <= out

\* The same for commits of the branch, whose watermark may move back.
CommitsOnce ==
    \A s \in GitPositions :
        /\ SvnCopies(s) <= 1 + Spent
        /\ SvnCopies(s) > Spent =>
             /\ s <= SinceSha \/ (s = cur /\ pc \in RecordingCommit)
             /\ \A t \in gitTodo : s < t
             /\ pc \in RecordingRevision => s <= out
             /\ pc = "svn_commit" => s < cur
             /\ pc \in Copying => s <= cur
             /\ wmRev = 0 /\ kvRev = 0 /\ records = <<>> =>
                  s = cur /\ pc = "g2s_record"

CommitsAhead == pc \in Copying => \A t \in gitTodo : cur < t

OnceInv == RevisionsOnce /\ RevisionsAhead /\ CommitsOnce /\ CommitsAhead

\* The provers need to be told of the sum of two variables.
LEMMA NatSum == \A a, b \in Nat : a + b \in Nat
  OBVIOUS

\* A commit more in a history is a copy more of what it copies.
LEMMA CountAppend ==
    ASSUME NEW log \in Seq(Commit), NEW c \in Commit, NEW i
    PROVE  /\ Cardinality(Copies(log, i)) \in Nat
           /\ Cardinality(Copies(Append(log, c), i)) =
                Cardinality(Copies(log, i)) + (IF c.origin = i THEN 1 ELSE 0)
<1>1. /\ Append(log, c) \in Seq(Commit) /\ Len(Append(log, c)) = Len(log) + 1
      /\ \A j \in 1..Len(log) : Append(log, c)[j] = log[j]
      /\ Append(log, c)[Len(log) + 1] = c
      /\ Len(log) \in Nat
      /\ DOMAIN log = 1..Len(log) /\ DOMAIN Append(log, c) = 1..(Len(log) + 1)
  BY AppendKeeps
<1>2. IsFiniteSet(Copies(log, i))
  <2>1. IsFiniteSet(1..Len(log))
    BY ONLY Len(log) \in Nat, FS_Interval
  <2>2. Copies(log, i) \subseteq 1..Len(log)
    BY <1>1 DEF Copies
  <2> QED BY <2>1, <2>2, FS_Subset
<1>3. Cardinality(Copies(log, i)) \in Nat
  BY <1>2, FS_CardinalityType
<1>4. CASE c.origin = i
  <2>1. Copies(Append(log, c), i) = Copies(log, i) \cup {Len(log) + 1}
    BY <1>1, <1>4 DEF Copies
  <2>2. Len(log) + 1 \notin Copies(log, i)
    BY <1>1 DEF Copies
  <2> QED BY <1>2, <1>3, <1>4, <2>1, <2>2, FS_AddElement
<1>5. CASE c.origin # i
  <2>1. Copies(Append(log, c), i) = Copies(log, i)
    BY <1>1, <1>5 DEF Copies
  <2> QED BY <1>3, <1>5, <2>1
<1> QED BY <1>4, <1>5

\* Counts are numbers, and nothing was copied that does not exist yet.
LEMMA CountType ==
    ASSUME IInv
    PROVE  /\ \A r : GitCopies(r) \in Nat
           /\ \A s : SvnCopies(s) \in Nat
           /\ Spent \in Nat
           /\ GitCopies(Len(svnLog) + 1) = 0
           /\ SvnCopies(Len(remote) + 1) = 0
<1>1. /\ svnLog \in Seq(Commit) /\ remote \in Seq(Commit)
      /\ Len(svnLog) \in Nat /\ Len(remote) \in Nat
      /\ DOMAIN svnLog = SvnPositions /\ DOMAIN remote = GitPositions
  BY DEF IInv, TypeOK, SvnPositions, GitPositions
<1>2. PICK c : c \in Commit
  <2>1. [tree |-> EmptyTree, origin |-> 0, marked |-> FALSE, blank |-> FALSE]
          \in Commit
    BY DEF Commit, EmptyTree, Tree
  <2> QED BY <2>1
<1>3. \A r : GitCopies(r) \in Nat
  BY <1>1, <1>2, CountAppend DEF GitCopies
<1>4. \A s : SvnCopies(s) \in Nat
  BY <1>1, <1>2, CountAppend DEF SvnCopies
<1>5. Copies(remote, Len(svnLog) + 1) = {} /\ Copies(svnLog, Len(remote) + 1) = {}
  BY <1>1 DEF Copies, IInv, CopiesOK, GitCopyOK, SvnCopyOK, SvnPositions,
          GitPositions
<1>6. Spent \in Nat
  BY DEF Spent, IInv, TypeOK
<1> QED BY <1>3, <1>4, <1>5, <1>6, FS_EmptySet DEF GitCopies, SvnCopies

\* Counts depend on the histories only.
LEMMA CountSame ==
    ASSUME UNCHANGED <<svnLog, remote>>
    PROVE  /\ SvnPositions' = SvnPositions /\ GitPositions' = GitPositions
           /\ \A r : GitCopies(r)' = GitCopies(r)
           /\ \A s : SvnCopies(s)' = SvnCopies(s)
  BY DEF SvnPositions, GitPositions, GitCopies, SvnCopies, Copies

\* One more fault excuses one more copy of everything.
LEMMA Excused ==
    ASSUME IInv, OnceInv, UNCHANGED <<svnLog, remote>>,
           faults' \in Nat, resets' \in Nat, Spent' >= Spent + 1
    PROVE  RevisionsOnce' /\ CommitsOnce'
<1>1. Spent' \in Nat
  <2>1. faults' + resets' \in Nat
    BY NatSum
  <2>2. Spent' = faults' + resets'
    BY DEF Spent
  <2> QED BY <2>1, <2>2
<1>2. \A r \in SvnPositions' : GitCopies(r)' <= Spent' /\ GitCopies(r)' \in Nat
  BY <1>1, CountSame, CountType DEF OnceInv, RevisionsOnce
<1>3. \A s \in GitPositions' : SvnCopies(s)' <= Spent' /\ SvnCopies(s)' \in Nat
  BY <1>1, CountSame, CountType DEF OnceInv, CommitsOnce
<1>4. RevisionsOnce'
  BY <1>1, <1>2 DEF RevisionsOnce
<1>5. CommitsOnce'
  BY <1>1, <1>3 DEF CommitsOnce
<1> QED BY <1>4, <1>5

\* A step spends one fault or none.
LEMMA SpentGrows ==
    ASSUME faults \in Nat, resets \in Nat, faults' \in {faults, faults + 1},
           resets' = resets
    PROVE  Spent' \in {Spent, Spent + 1}
<1>1. CASE faults' = faults
  BY <1>1 DEF Spent
<1>2. CASE faults' = faults + 1
  <2>1. \A a, b \in Nat : (a + 1) + b = a + b + 1
    OBVIOUS
  <2>2. (faults + 1) + resets = faults + resets + 1
    BY <2>1
  <2>3. faults' + resets' = faults + resets + 1
    BY <1>2, <2>2
  <2> QED BY <2>3 DEF Spent
<1> QED BY <1>1, <1>2

\* What the next cycle fetches depends on the database only.
LEMMA WatermarksSame ==
    ASSUME UNCHANGED <<wmRev, wmSha, kvRev, kvSha, records>>
    PROVE  (\A r : Covered(r)' = Covered(r)) /\ SinceSha' = SinceSha
  BY DEF Covered, SinceSha

\* Every Git watermark is a position or no position of the branch.
LEMMA SinceShaType ==
    ASSUME IInv PROVE /\ Len(remote) \in Nat /\ SinceSha \in Int
                      /\ SinceSha <= Len(remote)
<1>1. Len(remote) \in Nat /\ DOMAIN remote = 1..Len(remote)
  BY DEF IInv, TypeOK
<1>2. wmSha \in Sha /\ kvSha \in Sha
  BY DEF IInv, TypeOK
<1>3. records # <<>> => records[Len(records)].sha \in 1..Len(remote)
  <2>1. records \in Seq(Record)
    BY DEF IInv, TypeOK
  <2>2. records # <<>> => Len(records) \in DOMAIN records
    BY <2>1
  <2> QED BY <1>1, <2>2 DEF IInv, RecordsTruthful
<1> QED BY <1>1, <1>2, <1>3 DEF SinceSha, Sha, UnknownSha

\* Ending the cycle, whatever for, leaves nothing to be ahead of a watermark.
LEMMA IdleAhead ==
    ASSUME ForgetCycle PROVE RevisionsAhead' /\ CommitsAhead'
  BY DEF ForgetCycle, RevisionsAhead, CommitsAhead, RecordingRevision,
         RecordingCommit, Copying

\* Steps inside a cycle that write neither history nor watermarks.
LEMMA OnceMoves ==
    ASSUME IInv, OnceInv,
           \/ ResolveConflict
           \/ StartCycle
           \/ CommandError
           \/ PushRejected
           \/ SvnCommitRefused
           \/ FinishCycle
           \/ RevisionsApplied
           \/ DetectConflicts
           \/ ApplyRevision
           \/ PrepareWorkingCopy
           \/ FetchGit
    PROVE  OnceInv'
<1>1. UNCHANGED <<svnLog, remote, wmRev, wmSha, kvRev, kvSha, records, resets>>
  BY DEF ResolveConflict, StartCycle, CommandError, PushRejected,
         SvnCommitRefused, FinishCycle, RevisionsApplied, DetectConflicts,
         ApplyRevision, PrepareWorkingCopy, FetchGit, servers, row, kv, db,
         bounds
<1>2. /\ SvnPositions' = SvnPositions /\ GitPositions' = GitPositions
      /\ \A r : GitCopies(r)' = GitCopies(r)
      /\ \A s : SvnCopies(s)' = SvnCopies(s)
      /\ \A r : Covered(r)' = Covered(r)
      /\ SinceSha' = SinceSha
  BY <1>1, CountSame, WatermarksSame
<1>3. /\ \A r : GitCopies(r) \in Nat
      /\ \A s : SvnCopies(s) \in Nat
      /\ Spent \in Nat
  BY CountType
<1>4. /\ faults' \in {faults, faults + 1} /\ faults \in Nat /\ resets \in Nat
  BY DEF ResolveConflict, StartCycle, CommandError, PushRejected,
         SvnCommitRefused, FinishCycle, RevisionsApplied, DetectConflicts,
         ApplyRevision, PrepareWorkingCopy, FetchGit, bounds, IInv, TypeOK
<1>5. Spent' \in {Spent, Spent + 1}
  BY <1>1, <1>4, SpentGrows
<1>6. /\ \A r \in SvnPositions : GitCopies(r) <= 1 + Spent'
      /\ \A s \in GitPositions : SvnCopies(s) <= 1 + Spent'
      /\ \A r \in SvnPositions : GitCopies(r) > Spent' => GitCopies(r) > Spent
      /\ \A s \in GitPositions : SvnCopies(s) > Spent' => SvnCopies(s) > Spent
  BY <1>3, <1>5 DEF OnceInv, RevisionsOnce, CommitsOnce
<1> HIDE DEF Spent
<1> USE DEF RecordingRevision, RecordingCommit, Copying, Goto
<1>7. CASE ResolveConflict \/ StartCycle \/ DetectConflicts
  BY <1>2, <1>6, <1>1, <1>7 DEF ResolveConflict, StartCycle, DetectConflicts,
     memory, OnceInv, RevisionsOnce, RevisionsAhead, CommitsOnce, CommitsAhead
<1>8. CASE CommandError \/ PushRejected \/ SvnCommitRefused \/ FinishCycle
  <2>1. ForgetCycle
    BY <1>8 DEF CommandError, PushRejected, SvnCommitRefused, FinishCycle, Abort
  <2>2. RevisionsOnce'
    BY <1>2, <1>6, <1>8, <2>1 DEF ForgetCycle, OnceInv, RevisionsOnce, 
       CommandError, PushRejected, SvnCommitRefused, FinishCycle
  <2>3. CommitsOnce'
    BY <1>1, <1>2, <1>6, <1>8, <2>1 DEF ForgetCycle, OnceInv, CommitsOnce, 
       CommandError, PushRejected, SvnCommitRefused, FinishCycle
  <2> QED BY <2>1, <2>2, <2>3, IdleAhead DEF OnceInv
<1>9. CASE FetchGit
  <2>1. \A s \in gitTodo' : s > SinceSha
    <3>1. Len(remote) \in Nat /\ SinceSha \in Int /\ SinceSha <= Len(remote)
      BY SinceShaType
    <3>2. gitTodo' \subseteq CommitsSince(SinceSha)
      BY <1>9 DEF FetchGit
    <3> QED BY <3>1, <3>2 DEF CommitsSince
  <2>2. SinceSha \in Int /\ GitPositions \subseteq Int /\ gitTodo' \subseteq Int
    <3>1. TypeOK'
      BY <1>9, FetchSteps DEF IInv
    <3> QED BY <3>1, SinceShaType DEF TypeOK, GitPositions
  <2>3. RevisionsOnce' /\ RevisionsAhead' /\ CommitsAhead'
    BY <1>1, <1>2, <1>6, <1>9 DEF FetchGit, OnceInv, RevisionsOnce,
       RevisionsAhead, CommitsAhead, db
  <2>4. CommitsOnce'
    BY <1>1, <1>2, <1>6, <1>9, <2>1, <2>2 DEF FetchGit, OnceInv, CommitsOnce, db
  <2> QED BY <2>3, <2>4 DEF OnceInv
<1>10. CASE RevisionsApplied
  BY <1>2, <1>6, <1>1, <1>10 DEF RevisionsApplied, OnceInv, RevisionsOnce,
     RevisionsAhead, CommitsOnce, CommitsAhead
<1>11. CASE ApplyRevision
  <2>1. PICK r \in svnTodo : /\ \A j \in svnTodo : r <= j
                             /\ cur' = r /\ svnTodo' = svnTodo \ {r}
                             /\ pc = "svn_to_git" /\ pc' = "push"
                             /\ UNCHANGED <<gitTodo, out>>
    BY <1>11 DEF ApplyRevision, IsOldest
  <2>2. svnTodo \subseteq Nat
    BY DEF IInv, TypeOK
  <2> QED BY <1>1, <1>2, <1>6, <2>1, <2>2 DEF OnceInv, RevisionsOnce,
             RevisionsAhead, CommitsOnce, CommitsAhead
<1>12. CASE PrepareWorkingCopy
  <2>1. PICK s \in gitTodo : /\ \A j \in gitTodo : s <= j
                             /\ cur' = s /\ gitTodo' = gitTodo \ {s}
                             /\ pc = "git_to_svn"
                             /\ pc' \in {"svn_commit", "skip_kv"}
                             /\ UNCHANGED <<svnTodo, out>>
    BY <1>12 DEF PrepareWorkingCopy, IsOldest
  <2>2. gitTodo \subseteq Nat /\ GitPositions \subseteq Nat
    BY DEF IInv, TypeOK, GitPositions
  <2>3. RevisionsOnce' /\ RevisionsAhead' /\ CommitsAhead'
    BY <1>1, <1>2, <1>6, <2>1, <2>2 DEF OnceInv, RevisionsOnce,
       RevisionsAhead, CommitsAhead
  <2>4. CommitsOnce'
    BY <1>1, <1>2, <1>6, <2>1, <2>2 DEF OnceInv, CommitsOnce
  <2> QED BY <2>3, <2>4 DEF OnceInv
<1> QED BY <1>7, <1>8, <1>9, <1>10, <1>11, <1>12

\* A revision more on the SVN side adds to the copies of its origin.
LEMMA SvnCounts ==
    ASSUME IInv, NEW c \in Commit, svnLog' = Append(svnLog, c), remote' = remote
    PROVE  /\ SvnPositions' = SvnPositions \cup {Len(svnLog) + 1}
           /\ GitPositions' = GitPositions
           /\ Len(svnLog') = Len(svnLog) + 1
           /\ \A r : GitCopies(r)' = GitCopies(r)
           /\ \A s : SvnCopies(s)' = SvnCopies(s) + (IF c.origin = s THEN 1 ELSE 0)
<1>1. /\ svnLog \in Seq(Commit) /\ Len(svnLog) \in Nat
      /\ Len(svnLog') = Len(svnLog) + 1
  BY AppendKeeps DEF IInv, TypeOK
<1>2. \A s : SvnCopies(s)' = SvnCopies(s) + (IF c.origin = s THEN 1 ELSE 0)
  <2> SUFFICES ASSUME NEW s
               PROVE  SvnCopies(s)' = SvnCopies(s) + (IF c.origin = s THEN 1 ELSE 0)
    OBVIOUS
  <2>1. SvnCopies(s)' = Cardinality(Copies(Append(svnLog, c), s))
    BY DEF SvnCopies, Copies
  <2> QED BY <1>1, <2>1, CountAppend DEF SvnCopies
<1>3. \A r : GitCopies(r)' = GitCopies(r)
  BY DEF GitCopies, Copies
<1> QED BY <1>1, <1>2, <1>3 DEF SvnPositions, GitPositions

\* A commit more on the branch adds to the copies of its origin.
LEMMA GitCounts ==
    ASSUME IInv, NEW c \in Commit, remote' = Append(remote, c), svnLog' = svnLog
    PROVE  /\ GitPositions' = GitPositions \cup {Len(remote) + 1}
           /\ SvnPositions' = SvnPositions
           /\ Len(remote') = Len(remote) + 1
           /\ \A s : SvnCopies(s)' = SvnCopies(s)
           /\ \A r : GitCopies(r)' = GitCopies(r) + (IF c.origin = r THEN 1 ELSE 0)
<1>1. /\ remote \in Seq(Commit) /\ Len(remote) \in Nat
      /\ Len(remote') = Len(remote) + 1
  BY AppendKeeps DEF IInv, TypeOK
<1>2. \A r : GitCopies(r)' = GitCopies(r) + (IF c.origin = r THEN 1 ELSE 0)
  <2> SUFFICES ASSUME NEW r
               PROVE  GitCopies(r)' = GitCopies(r) + (IF c.origin = r THEN 1 ELSE 0)
    OBVIOUS
  <2>1. GitCopies(r)' = Cardinality(Copies(Append(remote, c), r))
    BY DEF GitCopies, Copies
  <2> QED BY <1>1, <2>1, CountAppend DEF GitCopies
<1>3. \A s : SvnCopies(s)' = SvnCopies(s)
  BY DEF SvnCopies, Copies
<1> QED BY <1>1, <1>2, <1>3 DEF SvnPositions, GitPositions

\* A user's commit is nobody's copy and has no copy.
LEMMA OnceUsers ==
    ASSUME IInv, OnceInv, UserSvnCommit \/ UserGitPush
    PROVE  OnceInv'
<1> USE DEF db, memory, bounds
<1>1. UNCHANGED <<wmRev, wmSha, kvRev, kvSha, records, pc, svnTodo, gitTodo,
                  cur, out, faults, resets>>
  BY DEF UserSvnCommit, UserGitPush
<1>2. /\ \A r : Covered(r)' = Covered(r)
      /\ SinceSha' = SinceSha /\ Spent' = Spent
  BY <1>1, WatermarksSame DEF Spent
<1>3. /\ \A r : GitCopies(r) \in Nat
      /\ \A s : SvnCopies(s) \in Nat
      /\ Spent \in Nat
      /\ GitCopies(Len(svnLog) + 1) = 0
      /\ SvnCopies(Len(remote) + 1) = 0
  BY CountType
<1>4. RevisionsAhead' /\ CommitsAhead'
  BY <1>1, <1>2 DEF OnceInv, RevisionsAhead, CommitsAhead
<1>5. CASE UserSvnCommit
  <2>1. PICK f \in Files, c \in Contents \cup {Absent}, m \in MarkerChoices,
             b \in BlankChoices : svnLog' = UserEdit(svnLog, f, c, m, b)
    BY <1>5 DEF UserSvnCommit
  <2>2. m \in BOOLEAN /\ b \in BOOLEAN
    BY TeamSyncAssumption
  <2>3. PICK e \in Commit : e.origin = 0 /\ svnLog' = Append(svnLog, e)
    BY <2>1, <2>2, UserEditType DEF IInv, TypeOK
  <2>4. remote' = remote
    BY <1>5 DEF UserSvnCommit
  <2>5. /\ SvnPositions' = SvnPositions \cup {Len(svnLog) + 1}
        /\ GitPositions' = GitPositions /\ GitPositions \subseteq Nat \ {0}
        /\ \A r : GitCopies(r)' = GitCopies(r)
        /\ \A s \in GitPositions : SvnCopies(s)' = SvnCopies(s)
    BY <2>3, <2>4, <1>3, SvnCounts DEF GitPositions
  <2>6. RevisionsOnce'
    BY <1>1, <1>2, <1>3, <2>5 DEF OnceInv, RevisionsOnce
  <2>7. CommitsOnce'
    BY <1>1, <1>2, <1>3, <2>5 DEF OnceInv, CommitsOnce
  <2> QED BY <1>4, <2>6, <2>7 DEF OnceInv
<1>6. CASE UserGitPush
  <2>1. PICK f \in Files, c \in Contents \cup {Absent}, m \in MarkerChoices :
             remote' = UserEdit(remote, f, c, m, FALSE)
    BY <1>6 DEF UserGitPush
  <2>2. m \in BOOLEAN
    BY TeamSyncAssumption
  <2>3. PICK e \in Commit : e.origin = 0 /\ remote' = Append(remote, e)
    BY <2>1, <2>2, UserEditType DEF IInv, TypeOK
  <2>4. svnLog' = svnLog
    BY <1>6 DEF UserGitPush
  <2>5. /\ GitPositions' = GitPositions \cup {Len(remote) + 1}
        /\ SvnPositions' = SvnPositions /\ SvnPositions \subseteq Nat \ {0}
        /\ \A s : SvnCopies(s)' = SvnCopies(s)
        /\ \A r \in SvnPositions : GitCopies(r)' = GitCopies(r)
    BY <2>3, <2>4, <1>3, GitCounts DEF SvnPositions
  <2>6. RevisionsOnce'
    BY <1>1, <1>2, <1>3, <2>5 DEF OnceInv, RevisionsOnce
  <2>7. CommitsOnce'
    BY <1>1, <1>2, <1>3, <2>5 DEF OnceInv, CommitsOnce
  <2> QED BY <1>4, <2>6, <2>7 DEF OnceInv
<1> QED BY <1>5, <1>6

\* A restart or a lost database is one more excuse for everything.
LEMMA OnceRestart ==
    ASSUME IInv, OnceInv, Crash \/ FreshDb
    PROVE  OnceInv'
<1>1. /\ UNCHANGED <<svnLog, remote>>
      /\ \/ faults' = faults + 1 /\ resets' = resets
         \/ faults' = faults /\ resets' = resets + 1
  BY DEF Crash, FreshDb, servers
<1>2. faults \in Nat /\ resets \in Nat
  BY DEF IInv, TypeOK
<1>3. faults' \in Nat /\ resets' \in Nat /\ Spent' = Spent + 1
  <2>1. \A a, b \in Nat : (a + 1) + b = a + b + 1 /\ a + (b + 1) = a + b + 1
    OBVIOUS
  <2>2. /\ (faults + 1) + resets = faults + resets + 1
        /\ faults + (resets + 1) = faults + resets + 1
    BY <1>2, <2>1
  <2>3. faults' + resets' = faults + resets + 1
    BY <1>1, <2>2
  <2>4. faults' \in Nat /\ resets' \in Nat
    BY <1>1, <1>2
  <2> QED BY <2>3, <2>4 DEF Spent
<1>4. Spent' >= Spent + 1
  BY <1>3, CountType
<1>5. RevisionsOnce' /\ CommitsOnce'
  BY <1>1, <1>3, <1>4, Excused
<1>6. RevisionsAhead' /\ CommitsAhead'
  <2>1. CASE Crash
    BY <2>1, IdleAhead DEF Crash
  <2>2. CASE FreshDb
    <3>1. pc' = "idle" /\ svnTodo' = {}
      BY <2>2 DEF FreshDb, OnceInv, RevisionsAhead, memory
    <3> QED BY <3>1 DEF RevisionsAhead, CommitsAhead, RecordingRevision,
            RecordingCommit, Copying
  <2> QED BY <2>1, <2>2
<1> QED BY <1>5, <1>6 DEF OnceInv

\* The revision a cycle starts from covers exactly what Covered says.
LEMMA StoredCovers ==
    ASSUME IInv, NEW stored \in StoredRev, NEW r \in Nat \ {0}
    PROVE  Covered(r) <=> r <= stored
<1>1. wmRev \in Nat /\ kvRev \in Nat
  BY DEF IInv, TypeOK
<1>2. \A i \in DOMAIN records : records[i].rev \in Nat
  <2>1. \A i \in DOMAIN records : records[i] \in Record
    BY DEF IInv, TypeOK
  <2> QED BY <2>1 DEF Record
<1>3. CASE wmRev > 0
  BY <1>3 DEF Covered, StoredRev
<1>4. CASE ~(wmRev > 0) /\ kvRev > 0
  BY <1>4 DEF Covered, StoredRev
<1>5. CASE ~(wmRev > 0) /\ ~(kvRev > 0)
  <2>1. /\ stored \in {records[i].rev : i \in DOMAIN records} \cup {0}
        /\ \A i \in DOMAIN records : records[i].rev <= stored
    BY <1>5 DEF StoredRev, RecordedRev, MaxOf
  <2>2. Covered(r) <=> \E i \in DOMAIN records : r <= records[i].rev
    BY <1>5 DEF Covered
  <2>3. stored \in Nat
    BY <1>2, <2>1
  <2>4. Covered(r) => r <= stored
    BY <1>2, <2>1, <2>2, <2>3
  <2>5. r <= stored => Covered(r)
    BY <2>1, <2>2, <2>3
  <2> QED BY <2>4, <2>5
<1> QED BY <1>3, <1>4, <1>5

\* A cycle that finds nothing stored has a database without bookkeeping.
LEMMA NothingStored ==
    ASSUME IInv, 0 \in StoredRev
    PROVE  wmRev = 0 /\ kvRev = 0 /\ records = <<>>
<1>1. wmRev \in Nat /\ kvRev \in Nat /\ records \in Seq(Record)
  BY DEF IInv, TypeOK
<1>2. wmRev = 0 /\ kvRev = 0
  BY <1>1 DEF StoredRev
<1>3. \A i \in DOMAIN records : records[i].rev \in Nat \ {0}
  <2>1. DOMAIN svnLog \subseteq Nat \ {0}
    BY DEF IInv, TypeOK
  <2> QED BY <2>1 DEF IInv, RecordsTruthful
<1>4. \A i \in DOMAIN records : records[i].rev <= 0
  BY <1>2 DEF StoredRev, RecordedRev, MaxOf
<1>5. DOMAIN records = {}
  <2> SUFFICES ASSUME NEW i \in DOMAIN records PROVE FALSE
    OBVIOUS
  <2>1. \A n \in Nat \ {0} : ~(n <= 0)
    OBVIOUS
  <2> QED BY <1>3, <1>4, <2>1
<1>6. records = <<>>
  BY <1>1, <1>5
<1> QED BY <1>2, <1>6

\* A step that spends a fault is excused, whatever it fails to write.
LEMMA ExcusedFault ==
    ASSUME IInv, OnceInv, UNCHANGED <<svnLog, remote, resets>>,
           faults' = faults + 1
    PROVE  RevisionsOnce' /\ CommitsOnce'
<1>1. faults \in Nat /\ resets \in Nat /\ Spent \in Nat
  BY CountType DEF IInv, TypeOK
<1>2. \A a, b \in Nat : (a + 1) + b = a + b + 1
  OBVIOUS
<1>3. (faults + 1) + resets = faults + resets + 1
  BY <1>1, <1>2
<1>4. faults' + resets' = faults + resets + 1
  BY <1>3
<1>5. Spent' = Spent + 1
  BY <1>4 DEF Spent
<1>6. faults' \in Nat /\ resets' \in Nat /\ Spent' >= Spent + 1
  BY <1>1, <1>5
<1> QED BY <1>6, Excused

\* What is fetched is above the watermark; a watermark read from the
\* clone is written to a database in which nothing was counted.
LEMMA OnceFetchSvn ==
    ASSUME IInv, OnceInv, FetchSvn
    PROVE  OnceInv'
<1> USE DEF RecordingRevision, RecordingCommit, Copying, Goto
<1>1. PICK stored \in StoredRev, d \in DetectedRev :
        LET last == IF stored = 0 THEN d ELSE stored IN
        /\ svnTodo' = NewRevisions(last)
        /\ IF stored = 0 /\ d > 0
           THEN kvRev' = d /\ wmRev' = d /\ wmSha' = 0
           ELSE UNCHANGED <<kvRev, wmRev, wmSha>>
  BY DEF FetchSvn
<1> DEFINE last == IF stored = 0 THEN d ELSE stored
<1>2. stored \in Nat /\ d \in Nat /\ Len(svnLog) \in Nat
  BY StoredRevType, DetectedRevType DEF IInv, TypeOK
<1>3. /\ UNCHANGED <<svnLog, remote, records, kvSha, gitTodo, cur, out, faults,
                     resets>>
      /\ pc = "fetch_svn" /\ pc' = "fetch_git"
  BY DEF FetchSvn, servers, bounds
<1>4. \A r \in svnTodo' : r > last /\ r \in Nat \ {0}
  BY <1>1, <1>2 DEF NewRevisions
<1>5. /\ SvnPositions' = SvnPositions /\ GitPositions' = GitPositions
      /\ \A r : GitCopies(r)' = GitCopies(r)
      /\ \A s : SvnCopies(s)' = SvnCopies(s)
      /\ Spent' = Spent
  BY <1>3, CountSame DEF Spent
<1>6. CASE ~(stored = 0 /\ d > 0)
  <2>1. UNCHANGED <<wmRev, wmSha, kvRev, kvSha, records>> /\ last = stored
    BY <1>1, <1>2, <1>3, <1>6
  <2>2. (\A r : Covered(r)' = Covered(r)) /\ SinceSha' = SinceSha
    BY <2>1, WatermarksSame
  <2>3. \A r \in svnTodo' : ~Covered(r)'
    <3> SUFFICES ASSUME NEW r \in svnTodo' PROVE ~Covered(r)
      BY <2>2
    <3>1. r > stored /\ r \in Nat \ {0}
      BY <1>4, <2>1
    <3> QED BY <1>2, <3>1, StoredCovers
  <2>4. RevisionsOnce'
    BY <1>3, <1>5, <2>2 DEF OnceInv, RevisionsOnce
  <2>5. RevisionsAhead' /\ CommitsAhead'
    BY <1>3, <2>3 DEF RevisionsAhead, CommitsAhead
  <2>6. CommitsOnce'
    BY <1>3, <1>5, <2>1, <2>2 DEF OnceInv, CommitsOnce
  <2> QED BY <2>4, <2>5, <2>6 DEF OnceInv
<1>7. CASE stored = 0 /\ d > 0
  <2>1. wmRev = 0 /\ kvRev = 0 /\ records = <<>>
    BY <1>7, NothingStored
  <2>2. wmRev' = d /\ last = d
    BY <1>1, <1>7
  <2>3. \A r \in Nat : Covered(r)' <=> r <= d
    BY <1>2, <1>7, <2>2 DEF Covered
  <2>4. \A r \in SvnPositions : GitCopies(r) <= Spent
    <3> SUFFICES ASSUME NEW r \in SvnPositions PROVE GitCopies(r) <= Spent
      OBVIOUS
    <3>1. r \in Nat \ {0}
      BY <1>2 DEF SvnPositions
    <3>2. ~Covered(r)
      BY <1>7, <3>1, StoredCovers
    <3>3. GitCopies(r) \in Nat /\ Spent \in Nat
      BY CountType
    <3> QED BY <1>3, <3>2, <3>3 DEF OnceInv, RevisionsOnce
  <2>5. \A s \in GitPositions : SvnCopies(s) <= Spent
    <3>1. \A s : SvnCopies(s) \in Nat
      BY CountType
    <3>2. Spent \in Nat
      BY CountType
    <3> QED BY <1>3, <2>1, <3>1, <3>2 DEF OnceInv, CommitsOnce
  <2>6. /\ \A r : GitCopies(r) \in Nat
        /\ \A s : SvnCopies(s) \in Nat
        /\ Spent \in Nat
    BY CountType
  <2>7. RevisionsOnce'
    BY <1>5, <2>4, <2>6 DEF RevisionsOnce
  <2>8. CommitsOnce'
    BY <1>5, <2>5, <2>6 DEF CommitsOnce
  <2>9. RevisionsAhead' /\ CommitsAhead'
    <3>1. \A r \in svnTodo' : ~Covered(r)'
      BY <1>2, <1>4, <2>2, <2>3
    <3> QED BY <1>3, <3>1 DEF RevisionsAhead, CommitsAhead
  <2> QED BY <2>7, <2>8, <2>9 DEF OnceInv
<1> QED BY <1>6, <1>7

\* The watermarks: each is written with the commit just copied, or not at all.
LEMMA OnceWatermarks ==
    ASSUME IInv, OnceInv,
           \/ SaveRevisionKey
           \/ SaveRevisionRow
           \/ SkipKey
           \/ SkipRow
           \/ SaveCommitKey
           \/ SaveCommitRow
    PROVE  OnceInv'
<1> USE DEF RecordingRevision, RecordingCommit, Copying, Goto,
            WriteIgnoringErrors, CanFail, row
<1>1. UNCHANGED <<svnLog, remote, records, resets, svnTodo, gitTodo>>
  BY DEF SaveRevisionKey, SaveRevisionRow, SkipKey, SkipRow, SaveCommitKey,
         SaveCommitRow, servers, kv
<1>2. faults' \in {faults, faults + 1}
  BY DEF SaveRevisionKey, SaveRevisionRow, SkipKey, SkipRow, SaveCommitKey,
         SaveCommitRow
<1>3. /\ SvnPositions' = SvnPositions /\ GitPositions' = GitPositions
      /\ \A r : GitCopies(r)' = GitCopies(r)
      /\ \A s : SvnCopies(s)' = SvnCopies(s)
  BY <1>1, CountSame
<1>4. /\ \A r : GitCopies(r) \in Nat
      /\ \A s : SvnCopies(s) \in Nat
      /\ Spent \in Nat
  BY CountType
<1>5. /\ wmRev \in Nat /\ kvRev \in Nat /\ cur \in Nat /\ out \in Nat
      /\ faults \in Nat /\ resets \in Nat
      /\ SvnPositions \subseteq Nat \ {0} /\ GitPositions \subseteq Nat \ {0}
      /\ svnTodo \subseteq Nat \ {0} /\ gitTodo \subseteq Nat \ {0}
  BY DEF IInv, TypeOK, SvnPositions, GitPositions
<1>6. Spent' \in {Spent, Spent + 1}
  BY <1>1, <1>2, <1>5, SpentGrows
<1>7. /\ \A r \in SvnPositions : GitCopies(r) <= 1 + Spent'
      /\ \A s \in GitPositions : SvnCopies(s) <= 1 + Spent'
      /\ \A r \in SvnPositions : GitCopies(r) > Spent' => GitCopies(r) > Spent
      /\ \A s \in GitPositions : SvnCopies(s) > Spent' => SvnCopies(s) > Spent
  BY <1>4, <1>6 DEF OnceInv, RevisionsOnce, CommitsOnce
<1>8. CASE SaveRevisionKey
  <2>1. /\ pc = "s2g_kv" /\ pc' = "s2g_row" /\ UNCHANGED <<wmRev, wmSha, kvSha,
                 cur, out>>
        /\ kvRev' = cur \/ kvRev' = kvRev
    BY <1>8 DEF SaveRevisionKey
  <2>2. SinceSha' = SinceSha
    BY <1>1, <2>1 DEF SinceSha
  <2>3. cur \in SvnPositions
    BY <2>1 DEF IInv, PhaseOK
  <2>4. \A r \in Nat : Covered(r) => r <= cur
    BY <2>1 DEF OnceInv, RevisionsAhead
  <2>5. \A r \in Nat : Covered(r)' => r <= cur
    BY <1>1, <1>5, <2>1, <2>3, <2>4 DEF Covered
  <2>6. \A r \in Nat : Covered(r) => Covered(r)'
    BY <1>1, <1>5, <2>1, <2>3, <2>4 DEF Covered
  <2>7. \A r \in svnTodo : cur < r
    BY <2>1 DEF OnceInv, RevisionsAhead
  <2>8. RevisionsOnce'
    BY <1>3, <1>5, <1>7, <2>1, <2>6 DEF OnceInv, RevisionsOnce
  <2>9. RevisionsAhead' /\ CommitsAhead'
    BY <1>1, <1>5, <2>1, <2>5, <2>7 DEF RevisionsAhead, CommitsAhead
  <2>10. CommitsOnce'
    BY <1>1, <1>3, <1>5, <1>7, <2>1, <2>2, <2>3 DEF OnceInv, CommitsOnce
  <2> QED BY <2>8, <2>9, <2>10 DEF OnceInv
<1>9. CASE SaveRevisionRow
  <2>1. /\ pc = "s2g_row" /\ pc' = "svn_to_git" /\ UNCHANGED <<kvRev, kvSha>>
        /\ \/ wmRev' = cur /\ wmSha' = out
           \/ UNCHANGED <<wmRev, wmSha>> /\ faults' = faults + 1
    BY <1>9 DEF SaveRevisionRow, kv
  <2>2. cur \in SvnPositions /\ out \in GitPositions
    BY <2>1 DEF IInv, PhaseOK
  <2>3. \A r \in Nat : Covered(r) => r <= cur
    BY <2>1 DEF OnceInv, RevisionsAhead
  <2>4. \A r \in svnTodo : cur < r /\ ~Covered(r)
    BY <2>1 DEF OnceInv, RevisionsAhead
  <2>5. RevisionsAhead' /\ CommitsAhead'
    <3>1. \A r \in svnTodo : ~Covered(r)'
      BY <1>1, <1>5, <2>1, <2>2, <2>4 DEF Covered
    <3> QED BY <1>1, <2>1, <3>1 DEF RevisionsAhead, CommitsAhead
  <2>6. CASE wmRev' = cur /\ wmSha' = out
    <3>1. \A r \in Nat : Covered(r)' <=> r <= cur
      BY <1>5, <2>2, <2>6 DEF Covered
    <3>2. SinceSha' = out
      BY <1>5, <2>2, <2>6 DEF SinceSha
    <3>3. RevisionsOnce'
      BY <1>3, <1>5, <1>7, <2>1, <2>3, <3>1 DEF OnceInv, RevisionsOnce
    <3>4. CommitsOnce'
      BY <1>1, <1>3, <1>5, <1>7, <2>1, <2>2, <2>6, <3>2 DEF OnceInv, CommitsOnce
    <3> QED BY <2>5, <3>3, <3>4 DEF OnceInv
  <2>7. CASE faults' = faults + 1
    BY <1>1, <1>5, <2>5, <2>7, ExcusedFault DEF OnceInv
  <2> QED BY <2>1, <2>6, <2>7
<1>10. CASE SkipKey \/ SaveCommitKey
  <2>1. /\ \/ pc = "skip_kv" /\ pc' = "skip_row"
           \/ pc = "g2s_kv" /\ pc' = "g2s_row"
        /\ UNCHANGED <<wmRev, wmSha, kvRev, cur, out>>
        /\ kvSha' = cur \/ kvSha' = kvSha
    BY <1>10 DEF SkipKey, SaveCommitKey
  <2>2. \A r : Covered(r)' = Covered(r)
    BY <1>1, <2>1 DEF Covered
  <2>3. cur \in GitPositions
    BY <2>1 DEF IInv, PhaseOK
  <2>4. SinceSha' \in {SinceSha, cur}
    BY <1>1, <1>5, <2>1, <2>3 DEF SinceSha
  <2>5. RevisionsOnce'
    BY <1>3, <1>7, <2>1, <2>2 DEF OnceInv, RevisionsOnce
  <2>6. RevisionsAhead' /\ CommitsAhead'
    BY <1>1, <2>1, <2>2 DEF OnceInv, RevisionsAhead, CommitsAhead
  <2>7. CommitsOnce'
    BY <1>1, <1>3, <1>5, <1>7, <2>1, <2>4 DEF OnceInv, CommitsOnce
  <2> QED BY <2>5, <2>6, <2>7 DEF OnceInv
<1>11. CASE SkipRow
  <2>1. /\ pc = "skip_row" /\ pc' = "git_to_svn" /\ UNCHANGED <<kvRev, kvSha>>
        /\ wmRev' = wmRev /\ (wmSha' = cur \/ wmSha' = wmSha)
    BY <1>11 DEF SkipRow, kv
  <2>2. \A r : Covered(r)' = Covered(r)
    BY <1>1, <2>1 DEF Covered
  <2>3. cur \in GitPositions
    BY <2>1 DEF IInv, PhaseOK
  <2>4. SinceSha' \in {SinceSha, cur}
    BY <1>1, <1>5, <2>1, <2>3 DEF SinceSha
  <2>5. RevisionsOnce'
    BY <1>3, <1>7, <2>1, <2>2 DEF OnceInv, RevisionsOnce
  <2>6. RevisionsAhead' /\ CommitsAhead'
    BY <1>1, <2>1, <2>2 DEF OnceInv, RevisionsAhead, CommitsAhead
  <2>7. CommitsOnce'
    BY <1>1, <1>3, <1>5, <1>7, <2>1, <2>4 DEF OnceInv, CommitsOnce
  <2> QED BY <2>5, <2>6, <2>7 DEF OnceInv
<1>12. CASE SaveCommitRow
  <2>1. /\ pc = "g2s_row" /\ pc' = "git_to_svn" /\ UNCHANGED <<kvRev, kvSha>>
        /\ \/ wmRev' = out /\ wmSha' = cur
           \/ UNCHANGED <<wmRev, wmSha>> /\ faults' = faults + 1
    BY <1>12 DEF SaveCommitRow, kv
  <2>2. cur \in GitPositions /\ out \in SvnPositions
    BY <2>1 DEF IInv, PhaseOK
  <2>3. \A r \in Nat : Covered(r) => r <= out
    BY <2>1 DEF OnceInv, RevisionsAhead
  <2>4. svnTodo = {}
    BY <2>1 DEF OnceInv, RevisionsAhead
  <2>5. RevisionsAhead' /\ CommitsAhead'
    BY <1>1, <2>1, <2>4 DEF RevisionsAhead, CommitsAhead
  <2>6. CASE wmRev' = out /\ wmSha' = cur
    <3>1. \A r \in Nat : Covered(r)' <=> r <= out
      BY <1>5, <2>2, <2>6 DEF Covered
    <3>2. SinceSha' = cur
      BY <1>5, <2>2, <2>6 DEF SinceSha
    <3>3. RevisionsOnce'
      BY <1>3, <1>5, <1>7, <2>1, <2>3, <3>1 DEF OnceInv, RevisionsOnce
    <3>4. CommitsOnce'
      BY <1>1, <1>3, <1>5, <1>7, <2>1, <2>2, <2>6, <3>2 DEF OnceInv, CommitsOnce
    <3> QED BY <2>5, <3>3, <3>4 DEF OnceInv
  <2>7. CASE faults' = faults + 1
    BY <1>1, <1>5, <2>5, <2>7, ExcusedFault DEF OnceInv
  <2> QED BY <2>1, <2>6, <2>7
<1> QED BY <1>8, <1>9, <1>10, <1>11, <1>12

\* The sync records, or the end of the cycle if one cannot be written.
LEMMA OnceRecords ==
    ASSUME IInv, OnceInv, RecordRevision \/ RecordCommit
    PROVE  OnceInv'
<1> USE DEF RecordingRevision, RecordingCommit, Copying, Goto
<1> DEFINE ends == faults' = faults + 1 /\ Abort /\ UNCHANGED records
           writes(rec, to) ==
             /\ records' = Append(records, rec) /\ pc' = to
             /\ UNCHANGED <<svnTodo, gitTodo, cur, out, faults>>
           revision == [dir |-> "svn_to_git", rev |-> cur, sha |-> out]
           commit == [dir |-> "git_to_svn", rev |-> out, sha |-> cur]
<1>1. /\ UNCHANGED <<svnLog, remote, wmRev, wmSha, kvRev, kvSha, resets>>
      /\ \/ ends
         \/ pc = "s2g_record" /\ writes(revision, "s2g_kv")
         \/ pc = "g2s_record" /\ writes(commit, "g2s_kv")
  BY DEF RecordRevision, RecordCommit, WriteRecord, servers, row, kv, CanFail
<1>2. /\ SvnPositions' = SvnPositions /\ GitPositions' = GitPositions
      /\ \A r : GitCopies(r)' = GitCopies(r)
      /\ \A s : SvnCopies(s)' = SvnCopies(s)
  BY <1>1, CountSame
<1>3. /\ \A r : GitCopies(r) \in Nat
      /\ \A s : SvnCopies(s) \in Nat
      /\ Spent \in Nat
  BY CountType
<1>4. /\ wmRev \in Nat /\ kvRev \in Nat /\ cur \in Nat /\ out \in Nat
      /\ faults \in Nat /\ resets \in Nat
      /\ SvnPositions \subseteq Nat \ {0} /\ GitPositions \subseteq Nat \ {0}
      /\ svnTodo \subseteq Nat \ {0} /\ gitTodo \subseteq Nat \ {0}
  BY DEF IInv, TypeOK, SvnPositions, GitPositions
<1>5. CASE ends
  <2>1. RevisionsAhead' /\ CommitsAhead'
    BY <1>5, IdleAhead DEF Abort
  <2> QED BY <1>1, <1>4, <1>5, <2>1, ExcusedFault DEF OnceInv
<1>6. records \in Seq(Record) /\ revision.rev = cur /\ commit.rev = out
      /\ revision.sha = out /\ commit.sha = cur
  BY DEF IInv, TypeOK
<1>7. CASE pc = "s2g_record" /\ writes(revision, "s2g_kv")
  <2>1. cur \in SvnPositions /\ out \in GitPositions
    BY <1>7 DEF IInv, PhaseOK
  <2>2. /\ Len(records') = Len(records) + 1 /\ Len(records) \in Nat
        /\ DOMAIN records = 1..Len(records)
        /\ DOMAIN records' = 1..(Len(records) + 1)
        /\ \A i \in DOMAIN records : records'[i] = records[i]
        /\ records'[Len(records')] = revision /\ records' # <<>>
    BY <1>6, <1>7
  <2>3. \A i \in DOMAIN records : records[i].rev \in Nat
    <3>1. \A i \in DOMAIN records : records[i] \in Record
      BY DEF IInv, TypeOK
    <3> QED BY <3>1 DEF Record
  <2>4. /\ ~Covered(cur) /\ \A r \in svnTodo : cur < r /\ ~Covered(r)
    BY <1>7 DEF OnceInv, RevisionsAhead
  <2>5. \A r \in Nat : Covered(r) => Covered(r)'
    BY <1>1, <1>4, <2>2 DEF Covered
  <2>6. \A r \in Nat : Covered(r)' => r <= cur
    <3>1. CASE wmRev > 0 \/ kvRev > 0
      BY <1>1, <1>4, <2>4, <3>1 DEF Covered
    <3>2. CASE ~(wmRev > 0 \/ kvRev > 0)
      <4>1. \A i \in DOMAIN records : records[i].rev < cur
        BY <1>4, <2>3, <2>4, <3>2 DEF Covered
      <4>2. \A i \in DOMAIN records' : records'[i].rev <= cur
        BY <1>4, <1>6, <2>2, <2>3, <4>1
      <4> QED BY <1>1, <1>4, <1>6, <2>2, <2>3, <3>2, <4>1, <4>2 DEF Covered
    <3> QED BY <3>1, <3>2
  <2>7. SinceSha' \in {SinceSha, out}
    BY <1>1, <1>6, <2>2 DEF SinceSha
  <2>8. RevisionsOnce'
    BY <1>1, <1>2, <1>4, <1>7, <2>5 DEF OnceInv, RevisionsOnce, Spent
  <2>9. RevisionsAhead' /\ CommitsAhead'
    BY <1>4, <1>7, <2>4, <2>6 DEF RevisionsAhead, CommitsAhead
  <2>10. CommitsOnce'
    BY <1>1, <1>2, <1>4, <1>7, <2>2, <2>7 DEF OnceInv, CommitsOnce, Spent
  <2> QED BY <2>8, <2>9, <2>10 DEF OnceInv
<1>8. CASE pc = "g2s_record" /\ writes(commit, "g2s_kv")
  <2>1. cur \in GitPositions /\ out \in SvnPositions
    BY <1>8 DEF IInv, PhaseOK
  <2>2. /\ Len(records') = Len(records) + 1 /\ Len(records) \in Nat
        /\ DOMAIN records = 1..Len(records)
        /\ DOMAIN records' = 1..(Len(records) + 1)
        /\ \A i \in DOMAIN records : records'[i] = records[i]
        /\ records'[Len(records')] = commit /\ records' # <<>>
    BY <1>6, <1>8
  <2>3. \A i \in DOMAIN records : records[i].rev \in Nat
    <3>1. \A i \in DOMAIN records : records[i] \in Record
      BY DEF IInv, TypeOK
    <3> QED BY <3>1 DEF Record
  <2>4. svnTodo = {} /\ \A r \in Nat : Covered(r) => r <= out
    BY <1>8 DEF OnceInv, RevisionsAhead
  <2>5. \A r \in Nat : Covered(r) => Covered(r)'
    BY <1>1, <1>4, <2>2 DEF Covered
  <2>6. \A r \in Nat : Covered(r)' => r <= out
    <3>1. CASE wmRev > 0 \/ kvRev > 0
      BY <1>1, <1>4, <2>4, <3>1 DEF Covered
    <3>2. CASE ~(wmRev > 0 \/ kvRev > 0)
      <4>1. \A i \in DOMAIN records : records[i].rev <= out
        BY <1>4, <2>3, <2>4, <3>2 DEF Covered
      <4>2. \A i \in DOMAIN records' : records'[i].rev <= out
        BY <1>4, <1>6, <2>2, <2>3, <4>1
      <4> QED BY <1>1, <1>4, <1>6, <2>2, <2>3, <3>2, <4>1, <4>2 DEF Covered
    <3> QED BY <3>1, <3>2
  <2>7. SinceSha' \in {SinceSha, cur}
    BY <1>1, <1>6, <2>2 DEF SinceSha
  <2>8. RevisionsOnce'
    BY <1>1, <1>2, <1>4, <1>8, <2>5 DEF OnceInv, RevisionsOnce, Spent
  <2>9. RevisionsAhead' /\ CommitsAhead'
    <3>1. \A t \in gitTodo : cur < t
      BY <1>8 DEF OnceInv, CommitsAhead
    <3> QED BY <1>4, <1>8, <2>4, <2>6, <3>1 DEF RevisionsAhead, CommitsAhead
  <2>10. CommitsOnce'
    BY <1>1, <1>2, <1>4, <1>8, <2>2, <2>7 DEF OnceInv, CommitsOnce, Spent
  <2> QED BY <2>8, <2>9, <2>10 DEF OnceInv
<1> QED BY <1>1, <1>5, <1>7, <1>8

\* What a push or an SVN commit publishes.
LEMMA Published ==
    ASSUME IInv
    PROVE  /\ Push \/ PushUnacknowledged =>
                /\ unpushed \in Commit /\ unpushed.origin = cur
                /\ cur \in SvnPositions /\ remote' = Append(remote, unpushed)
           /\ CommitToSvn \/ SvnCommitUnacknowledged =>
                /\ cur \in GitPositions
                /\ \E c \in Commit : /\ c.origin = cur /\ ~c.blank
                                     /\ svnLog' = Append(svnLog, c)
<1>1. Push \/ PushUnacknowledged =>
        /\ unpushed \in Commit /\ unpushed.origin = cur
        /\ cur \in SvnPositions /\ remote' = Append(remote, unpushed)
  BY DEF Push, PushUnacknowledged, PushAccepted, IInv, PhaseOK
<1>2. ASSUME CommitToSvn \/ SvnCommitUnacknowledged
      PROVE  /\ cur \in GitPositions
             /\ \E c \in Commit : /\ c.origin = cur /\ ~c.blank
                                  /\ svnLog' = Append(svnLog, c)
  <2> DEFINE c == [tree |-> Overlay(TreeAt(svnLog, Len(svnLog)), remote, cur,
                                    PendingFiles(cur, wcRev)),
                   origin |-> cur, marked |-> TRUE, blank |-> FALSE]
  <2>1. cur \in GitPositions /\ Len(svnLog) \in 0..Len(svnLog)
    BY <1>2 DEF CommitToSvn, SvnCommitUnacknowledged, IInv, PhaseOK, TypeOK
  <2>2. TreeAt(svnLog, Len(svnLog)) \in Tree
    BY <2>1, TreeAtType DEF IInv, TypeOK
  <2>3. Overlay(TreeAt(svnLog, Len(svnLog)), remote, cur,
                PendingFiles(cur, wcRev)) \in Tree
    BY <2>1, <2>2, OverlayType DEF IInv, TypeOK, GitPositions
  <2>4. c \in Commit /\ c.origin = cur /\ ~c.blank
    BY <2>1, <2>3 DEF Commit, GitPositions
  <2>5. svnLog' = Append(svnLog, c)
    BY <1>2 DEF CommitToSvn, SvnCommitUnacknowledged, SvnCommitAccepted
  <2> QED BY <2>1, <2>4, <2>5
<1> QED BY <1>1, <1>2

\* A new copy is of a commit not yet copied more often than there were
\* faults, and a lost acknowledgement is one more fault.
LEMMA OncePublish ==
    ASSUME IInv, OnceInv,
           \/ Push
           \/ PushUnacknowledged
           \/ CommitToSvn
           \/ SvnCommitUnacknowledged
    PROVE  OnceInv'
<1> USE DEF RecordingRevision, RecordingCommit, Copying, Goto
<1>1. /\ \A r : GitCopies(r) \in Nat
      /\ \A s : SvnCopies(s) \in Nat
      /\ Spent \in Nat
      /\ GitCopies(Len(svnLog) + 1) = 0
      /\ SvnCopies(Len(remote) + 1) = 0
  BY CountType
<1>2. /\ wmRev \in Nat /\ kvRev \in Nat /\ cur \in Nat /\ out \in Nat
      /\ wmRev <= Len(svnLog) /\ kvRev <= Len(svnLog)
      /\ faults \in Nat /\ resets \in Nat
      /\ SvnPositions \subseteq Nat \ {0} /\ GitPositions \subseteq Nat \ {0}
      /\ Len(svnLog) \in Nat /\ Len(remote) \in Nat
      /\ \A s \in GitPositions : s <= Len(remote)
  BY DEF IInv, TypeOK, SvnPositions, GitPositions
<1>3. UNCHANGED <<wmRev, wmSha, kvRev, kvSha, records, resets>>
  BY DEF Push, PushUnacknowledged, CommitToSvn, SvnCommitUnacknowledged, db,
         row, kv, bounds
<1>4. (\A r : Covered(r)' = Covered(r)) /\ SinceSha' = SinceSha
  BY <1>3, WatermarksSame
<1>5. ASSUME faults' = faults + 1 PROVE Spent' = Spent + 1
  <2>1. \A a, b \in Nat : (a + 1) + b = a + b + 1
    OBVIOUS
  <2>2. (faults + 1) + resets = faults + resets + 1
    BY <1>2, <2>1
  <2>3. faults' + resets' = faults + resets + 1
    BY <1>3, <1>5, <2>2
  <2> QED BY <2>3 DEF Spent
<1>6. CASE Push \/ PushUnacknowledged
  <2>1. pc = "push" /\ svnLog' = svnLog
    BY <1>6 DEF Push, PushUnacknowledged
  <2>2. /\ GitPositions' = GitPositions \cup {Len(remote) + 1}
        /\ SvnPositions' = SvnPositions /\ cur \in SvnPositions
        /\ Len(remote') = Len(remote) + 1
        /\ \A s : SvnCopies(s)' = SvnCopies(s)
        /\ \A r : GitCopies(r)' = GitCopies(r) + (IF cur = r THEN 1 ELSE 0)
    BY <1>6, <2>1, Published, GitCounts
  <2>3. ~Covered(cur) /\ \A r \in svnTodo : cur < r /\ ~Covered(r)
    BY <2>1 DEF OnceInv, RevisionsAhead
  <2>4. GitCopies(cur) <= Spent
    BY <1>1, <2>1, <2>2, <2>3 DEF OnceInv, RevisionsOnce
  <2>5. \A r \in SvnPositions : GitCopies(r)' <= 1 + Spent
    BY <1>1, <2>2, <2>4 DEF OnceInv, RevisionsOnce
  <2>6. CASE Push
    <3>1. /\ UNCHANGED <<svnTodo, gitTodo, cur, faults>> /\ pc' = "s2g_record"
          /\ out' = Len(remote')
      BY <2>6 DEF Push, bounds
    <3>2. Spent' = Spent
      BY <1>3, <3>1 DEF Spent
    <3>3. RevisionsOnce'
      BY <1>1, <1>4, <2>1, <2>2, <2>5, <3>1, <3>2 DEF OnceInv, RevisionsOnce
    <3>4. RevisionsAhead' /\ CommitsAhead'
      BY <1>4, <2>3, <3>1 DEF RevisionsAhead, CommitsAhead
    <3>5. CommitsOnce'
      BY <1>1, <1>2, <1>3, <1>4, <2>1, <2>2, <3>1, <3>2 DEF OnceInv, CommitsOnce
    <3> QED BY <3>3, <3>4, <3>5 DEF OnceInv
  <2>7. CASE PushUnacknowledged
    <3>1. ForgetCycle /\ Spent' = Spent + 1
      BY <1>5, <2>7 DEF PushUnacknowledged, Abort
    <3>2. RevisionsOnce'
      BY <1>1, <2>2, <2>5, <3>1 DEF RevisionsOnce
    <3>3. CommitsOnce'
      BY <1>1, <2>2, <3>1 DEF OnceInv, CommitsOnce
    <3> QED BY <3>1, <3>2, <3>3, IdleAhead DEF OnceInv
  <2> QED BY <1>6, <2>6, <2>7
<1>7. CASE CommitToSvn \/ SvnCommitUnacknowledged
  <2>1. pc = "svn_commit" /\ remote' = remote
    BY <1>7 DEF CommitToSvn, SvnCommitUnacknowledged
  <2>2. /\ SvnPositions' = SvnPositions \cup {Len(svnLog) + 1}
        /\ GitPositions' = GitPositions /\ cur \in GitPositions
        /\ Len(svnLog') = Len(svnLog) + 1
        /\ \A r : GitCopies(r)' = GitCopies(r)
        /\ \A s : SvnCopies(s)' = SvnCopies(s) + (IF cur = s THEN 1 ELSE 0)
    BY <1>7, <2>1, Published, SvnCounts
  <2>3. svnTodo = {} /\ \A t \in gitTodo : cur < t
    BY <2>1 DEF OnceInv, RevisionsAhead, CommitsAhead
  <2>4. SvnCopies(cur) <= Spent
    BY <1>1, <1>2, <2>1, <2>2 DEF OnceInv, CommitsOnce
  <2>5. \A s \in GitPositions : SvnCopies(s)' <= 1 + Spent
    BY <1>1, <2>2, <2>4 DEF OnceInv, CommitsOnce
  <2>6. CASE CommitToSvn
    <3>1. /\ UNCHANGED <<svnTodo, gitTodo, cur, faults>> /\ pc' = "g2s_record"
          /\ out' = Len(svnLog')
      BY <2>6 DEF CommitToSvn, bounds
    <3>2. Spent' = Spent
      BY <1>3, <3>1 DEF Spent
    <3>3. RevisionsOnce'
      BY <1>1, <1>4, <2>1, <2>2, <3>1, <3>2 DEF OnceInv, RevisionsOnce
    <3>4. \A r \in Nat : Covered(r) => r <= out'
      <4>1. \A i \in DOMAIN records : records[i].rev \in 1..Len(svnLog)
        BY DEF IInv, RecordsTruthful, TypeOK
      <4>2. \A i \in DOMAIN records :
              records[i].rev \in Nat /\ records[i].rev <= Len(svnLog)
        BY <1>2, <4>1
      <4>3. \A r \in Nat : Covered(r) => r <= Len(svnLog)
        BY <1>2, <4>2 DEF Covered
      <4> QED BY <1>2, <2>2, <3>1, <4>3
    <3>5. RevisionsAhead' /\ CommitsAhead'
      BY <1>4, <2>3, <3>1, <3>4 DEF RevisionsAhead, CommitsAhead
    <3>6. CommitsOnce'
      BY <1>1, <1>2, <1>3, <1>4, <2>1, <2>2, <2>3, <2>5, <3>1, <3>2
         DEF OnceInv, CommitsOnce
    <3> QED BY <3>3, <3>5, <3>6 DEF OnceInv
  <2>7. CASE SvnCommitUnacknowledged
    <3>1. ForgetCycle /\ Spent' = Spent + 1
      BY <1>5, <2>7 DEF SvnCommitUnacknowledged, Abort
    <3>2. RevisionsOnce'
      BY <1>1, <2>2, <3>1 DEF OnceInv, RevisionsOnce
    <3>3. CommitsOnce'
      BY <1>1, <2>2, <2>5, <3>1 DEF CommitsOnce
    <3> QED BY <3>1, <3>2, <3>3, IdleAhead DEF OnceInv
  <2> QED BY <1>7, <2>6, <2>7
<1> QED BY <1>6, <1>7

\* Nothing is copied twice at the start.
LEMMA InitOnce == Init => OnceInv
<1> SUFFICES ASSUME Init PROVE OnceInv
  OBVIOUS
<1>1. IInv
  BY InitIInv
<1>2. PICK seeded \in BOOLEAN : InitLogs(seeded)
  BY DEF Init
<1>3. /\ SvnPositions = {1} /\ GitPositions = {1}
      /\ pc = "idle" /\ svnTodo = {} /\ gitTodo = {} /\ faults = 0 /\ resets = 0
      /\ svnLog[1].origin = 0 /\ DOMAIN svnLog = {1}
      /\ wmRev \in {0, 1}
      /\ remote[1].origin \in {0, 1} /\ DOMAIN remote = {1}
      /\ remote[1].origin = 1 => wmRev = 1
  BY <1>2 DEF Init, InitLogs, SvnPositions, GitPositions
<1>4. Copies(svnLog, 1) = {} /\ SvnCopies(1) = 0
  <2>1. Copies(svnLog, 1) = {}
    BY <1>3 DEF Copies
  <2> QED BY <2>1, FS_EmptySet DEF SvnCopies
<1>5. GitCopies(1) = (IF remote[1].origin = 1 THEN 1 ELSE 0)
  <2>1. Copies(remote, 1) = IF remote[1].origin = 1 THEN {1} ELSE {}
    BY <1>3 DEF Copies
  <2> QED BY <2>1, FS_EmptySet, FS_Singleton DEF GitCopies
<1>6. Spent = 0
  BY <1>3 DEF Spent
<1>7. RevisionsOnce
  BY <1>3, <1>5, <1>6 DEF RevisionsOnce, Covered
<1>8. RevisionsAhead /\ CommitsAhead
  BY <1>3 DEF RevisionsAhead, CommitsAhead, RecordingRevision, RecordingCommit,
              Copying
<1>9. CommitsOnce
  BY <1>3, <1>4, <1>6 DEF CommitsOnce
<1> QED BY <1>7, <1>8, <1>9 DEF OnceInv

\* Every step keeps the count of copies below that of faults.
LEMMA NextOnce == IInv /\ OnceInv /\ [Next]_vars => OnceInv'
<1> SUFFICES ASSUME IInv, OnceInv, [Next]_vars PROVE OnceInv'
  OBVIOUS
<1>1. CASE Users
  BY <1>1, OnceUsers, OnceMoves DEF Users
<1>2. CASE Environment
  BY <1>2, OnceRestart, OnceMoves, OncePublish DEF Environment
<1>3. CASE Engine
  <2>1. CASE SvnToGit
    BY <2>1, OnceMoves, OncePublish, OnceRecords, OnceWatermarks DEF SvnToGit
  <2>2. CASE GitToSvn
    BY <2>2, OnceMoves, OncePublish, OnceRecords, OnceWatermarks DEF GitToSvn
  <2> QED BY <1>3, <2>1, <2>2, OnceMoves, OnceFetchSvn DEF Engine
<1>4. CASE UNCHANGED vars
  <2>1. /\ UNCHANGED <<svnLog, remote, wmRev, wmSha, kvRev, kvSha, records, pc,
                       svnTodo, gitTodo, cur, out, faults, resets>>
    BY <1>4 DEF vars
  <2>2. /\ SvnPositions' = SvnPositions /\ GitPositions' = GitPositions
        /\ \A r : GitCopies(r)' = GitCopies(r)
        /\ \A s : SvnCopies(s)' = SvnCopies(s)
        /\ \A r : Covered(r)' = Covered(r)
        /\ SinceSha' = SinceSha /\ Spent' = Spent
    BY <2>1, CountSame, WatermarksSame DEF Spent
  <2> QED BY <2>1, <2>2 DEF OnceInv, RevisionsOnce, RevisionsAhead, CommitsOnce,
             CommitsAhead
<1> QED BY <1>1, <1>2, <1>3, <1>4 DEF Next

\* Both inductive invariants hold in every reachable state.
THEOREM OnceInvariant == Spec => [](IInv /\ OnceInv)
<1>1. Init => IInv /\ OnceInv
  BY InitIInv, InitOnce
<1>2. IInv /\ OnceInv /\ [Next]_vars => (IInv /\ OnceInv)'
  BY NextIInv, NextOnce
<1> QED BY <1>1, <1>2, PTL DEF Spec

\* Whatever the users do and however the daemon is interrupted, a commit is
\* never copied more often than once and once more for each fault or lost
\* database: the watermarks written after each copy see to that.
THEOREM CopiesCountFaults == Spec => []CopiedOncePerFault
<1>1. IInv /\ OnceInv => CopiedOncePerFault
  <2> SUFFICES ASSUME IInv, OnceInv PROVE CopiedOncePerFault
    OBVIOUS
  <2>1. DOMAIN svnLog = SvnPositions /\ DOMAIN remote = GitPositions
    BY DEF IInv, TypeOK, SvnPositions, GitPositions
  <2>2. faults \in Nat /\ resets \in Nat
    BY DEF IInv, TypeOK
  <2>3. 1 + Spent = 1 + faults + resets
    BY <2>2 DEF Spent
  <2> QED BY <2>1, <2>3 DEF OnceInv, RevisionsOnce, CommitsOnce,
             CopiedOncePerFault, GitCopies, SvnCopies
<1> QED BY <1>1, OnceInvariant, PTL

-----------------------------------------------------------------------------
(* No fetched revision is passed over.                                     *)

\* A revision is safe if it has a copy, or the next cycle fetches it again, or
\* the running one still has it.
Reached(r) == Copies(remote, r) # {}
Safe(r) ==
    \/ Reached(r)
    \/ /\ ~Covered(r)
       /\ pc \in {"idle", "fetch_svn"} \/ r \in svnTodo \/ (pc = "push" /\ r = cur)

\* Only users and Push extend the branch.
LEMMA RemoteSame ==
    ASSUME [Next]_vars, ~UserGitPush, ~Push, ~PushUnacknowledged
    PROVE  remote' = remote
<1> USE DEF servers, clone, vars
<1>1. CASE UserSvnCommit \/ ResolveConflict \/ Crash \/ FreshDb \/ CommandError
             \/ SvnCommitUnacknowledged \/ StartCycle \/ FetchSvn \/ FetchGit
             \/ DetectConflicts \/ UNCHANGED vars
  BY <1>1 DEF UserSvnCommit, ResolveConflict, Crash, FreshDb, CommandError,
     SvnCommitUnacknowledged, StartCycle, FetchSvn, FetchGit, DetectConflicts
<1>2. CASE ApplyRevision \/ PushRejected \/ RecordRevision \/ SaveRevisionKey
             \/ SaveRevisionRow \/ RevisionsApplied
  BY <1>2 DEF ApplyRevision, PushRejected, RecordRevision, WriteRecord,
     SaveRevisionKey, SaveRevisionRow, RevisionsApplied
<1>3. CASE GitToSvn
  BY <1>3 DEF GitToSvn, PrepareWorkingCopy, SkipKey, SkipRow, CommitToSvn,
     SvnCommitRefused, RecordCommit, WriteRecord, SaveCommitKey, SaveCommitRow,
     FinishCycle
<1> QED BY <1>1, <1>2, <1>3 DEF Next, Users, Environment, Engine, SvnToGit

\* The branch grows by a user's commit, or by the copy of `cur`.
LEMMA RemoteGrows ==
    ASSUME IInv, [Next]_vars
    PROVE  \/ remote' = remote
           \/ \E c \in Commit :
                /\ remote' = Append(remote, c)
                /\ \/ UserGitPush /\ c.origin = 0
                   \/ (Push \/ PushUnacknowledged) /\ c.origin = cur
<1>1. CASE UserGitPush
  <2>1. PICK f \in Files, c \in Contents \cup {Absent}, m \in MarkerChoices :
             remote' = UserEdit(remote, f, c, m, FALSE)
    BY <1>1 DEF UserGitPush
  <2>2. m \in BOOLEAN /\ remote \in Seq(Commit)
    BY TeamSyncAssumption DEF IInv, TypeOK
  <2> QED BY <1>1, <2>1, <2>2, UserEditType
<1> QED BY <1>1, Published, RemoteSame

\* A copy in the branch stays there, and a new one is of `cur`.
LEMMA ReachedGrows ==
    ASSUME IInv, [Next]_vars, NEW r \in Nat \ {0}
    PROVE  /\ Reached(r) => Reached(r)'
           /\ Reached(r)' => \/ Reached(r)
                             \/ (Push \/ PushUnacknowledged) /\ r = cur
<1>1. remote \in Seq(Commit)
  BY DEF IInv, TypeOK
<1>2. ASSUME NEW c \in Commit, remote' = Append(remote, c)
      PROVE  Reached(r)' <=> Reached(r) \/ c.origin = r
  <2>1. /\ Len(remote') = Len(remote) + 1 /\ Len(remote) \in Nat
        /\ \A i \in 1..Len(remote) : remote'[i] = remote[i]
        /\ remote'[Len(remote) + 1] = c
        /\ DOMAIN remote = 1..Len(remote)
        /\ DOMAIN remote' = 1..(Len(remote) + 1)
    BY <1>1, <1>2, AppendKeeps
  <2> QED BY <2>1 DEF Reached, Copies
<1>3. CASE remote' = remote
  BY <1>3 DEF Reached, Copies
<1> QED BY <1>2, <1>3, RemoteGrows

\* A revision that reached the branch is there for good.
LEMMA ReachedStays ==
    ASSUME IInv, [Next]_vars, NEW r \in Nat \ {0}, Reached(r) PROVE Reached(r)'
  BY ReachedGrows

\* Only users and CommitToSvn extend the SVN history.
LEMMA SvnSame ==
    ASSUME [Next]_vars, ~UserSvnCommit, ~CommitToSvn, ~SvnCommitUnacknowledged
    PROVE  svnLog' = svnLog
<1> USE DEF servers, clone, vars
<1>1. CASE UserGitPush \/ ResolveConflict \/ Crash \/ FreshDb \/ CommandError
             \/ PushUnacknowledged \/ StartCycle \/ FetchSvn \/ FetchGit
             \/ DetectConflicts \/ UNCHANGED vars
  BY <1>1 DEF UserGitPush, ResolveConflict, Crash, FreshDb, CommandError,
     PushUnacknowledged, StartCycle, FetchSvn, FetchGit, DetectConflicts
<1>2. CASE SvnToGit
  BY <1>2 DEF SvnToGit, ApplyRevision, Push, PushRejected, RecordRevision,
     WriteRecord, SaveRevisionKey, SaveRevisionRow, RevisionsApplied
<1>3. CASE PrepareWorkingCopy \/ SkipKey \/ SkipRow \/ SvnCommitRefused
             \/ RecordCommit \/ SaveCommitKey \/ SaveCommitRow \/ FinishCycle
  BY <1>3 DEF PrepareWorkingCopy, SkipKey, SkipRow, SvnCommitRefused,
     RecordCommit, WriteRecord, SaveCommitKey, SaveCommitRow, FinishCycle
<1> QED BY <1>1, <1>2, <1>3 DEF Next, Users, Environment, Engine, GitToSvn

\* A revision stays what it was.
LEMMA SvnStays ==
    ASSUME IInv, [Next]_vars
    PROVE  /\ DOMAIN svnLog = SvnPositions /\ SvnPositions \subseteq DOMAIN svnLog'
           /\ \A r \in SvnPositions : svnLog'[r] = svnLog[r]
<1>1. svnLog \in Seq(Commit)
  BY DEF IInv, TypeOK
<1>2. svnLog' = svnLog \/ \E c \in Commit : svnLog' = Append(svnLog, c)
  <2>1. CASE UserSvnCommit
    <3>1. PICK f \in Files, c \in Contents \cup {Absent}, m \in MarkerChoices,
               b \in BlankChoices : svnLog' = UserEdit(svnLog, f, c, m, b)
      BY <2>1 DEF UserSvnCommit
    <3>2. m \in BOOLEAN /\ b \in BOOLEAN
      BY TeamSyncAssumption
    <3> QED BY <1>1, <3>1, <3>2, UserEditType
  <2> QED BY <2>1, Published, SvnSame
<1>3. DOMAIN svnLog = SvnPositions
  BY <1>1 DEF SvnPositions
<1>4. ASSUME NEW c \in Commit, svnLog' = Append(svnLog, c)
      PROVE  SvnPositions \subseteq DOMAIN svnLog' /\
             \A r \in SvnPositions : svnLog'[r] = svnLog[r]
  <2>1. /\ Len(svnLog) \in Nat /\ svnLog' \in Seq(Commit)
        /\ Len(svnLog') = Len(svnLog) + 1
        /\ \A r \in 1..Len(svnLog) : svnLog'[r] = svnLog[r]
    BY <1>1, <1>4, AppendKeeps
  <2> QED BY <2>1 DEF SvnPositions
<1> QED BY <1>2, <1>3, <1>4

\* What a cycle does after fetching, and what ends it, keeps a revision safe.
LEMMA SafeSteps ==
    ASSUME IInv, OnceInv, OnceInv', [Next]_vars,
           ~FetchSvn, ~Crash, ~FreshDb,
           NEW r \in SvnPositions, Safe(r)
    PROVE  Safe(r)'
<1> USE DEF servers, clone, row, kv, db, memory, history, bounds, Goto, vars
<1>1. CASE Reached(r)
  BY <1>1, ReachedStays DEF Safe, SvnPositions
<1> SUFFICES ASSUME ~Reached(r) PROVE Safe(r)'
  BY <1>1
<1>2. /\ ~Covered(r)
      /\ pc \in {"idle", "fetch_svn"} \/ r \in svnTodo \/ (pc = "push" /\ r = cur)
      /\ pc \in {"git_to_svn"} \cup Copying => svnTodo = {}
  BY DEF Safe, OnceInv, RevisionsAhead
<1>3. \A t \in svnTodo' : ~Covered(t)'
  BY DEF OnceInv, RevisionsAhead
<1>4. ASSUME UNCHANGED <<wmRev, wmSha, kvRev, kvSha, records>>
      PROVE  ~Covered(r)'
  BY <1>2, <1>4, WatermarksSame
<1>5. CASE UserSvnCommit \/ UserGitPush \/ ResolveConflict \/ StartCycle
             \/ FetchGit \/ DetectConflicts \/ RevisionsApplied \/ UNCHANGED vars
  BY <1>2, <1>4, <1>5 DEF UserSvnCommit, UserGitPush, ResolveConflict,
     StartCycle, FetchGit, DetectConflicts, RevisionsApplied, Safe
<1>6. CASE CommandError \/ PushRejected \/ PushUnacknowledged
             \/ SvnCommitUnacknowledged \/ SvnCommitRefused \/ FinishCycle
  BY <1>2, <1>4, <1>6 DEF CommandError, PushRejected, PushUnacknowledged,
     SvnCommitUnacknowledged, SvnCommitRefused, FinishCycle, Abort, ForgetCycle,
     Safe
<1>7. CASE ApplyRevision
  BY <1>2, <1>4, <1>7 DEF ApplyRevision, Safe
<1>8. CASE Push
  <2>1. /\ unpushed \in Commit /\ unpushed.origin = cur
        /\ remote' = Append(remote, unpushed) /\ remote \in Seq(Commit)
    BY <1>8, Published DEF IInv, TypeOK
  <2>2. CASE r = cur
    <3>1. /\ remote'[Len(remote) + 1].origin = r
          /\ Len(remote) + 1 \in DOMAIN remote'
      BY <2>1, <2>2, AppendKeeps
    <3> QED BY <3>1 DEF Safe, Reached, Copies
  <2>3. CASE r \in svnTodo
    BY <1>2, <1>4, <1>8, <2>3 DEF Push, Safe
  <2> QED BY <1>2, <1>8, <2>2, <2>3 DEF Push
<1>9. CASE RecordRevision \/ RecordCommit
  BY <1>2, <1>3, <1>4, <1>9 DEF RecordRevision, RecordCommit, WriteRecord, Abort,
     ForgetCycle, Safe, Copying, RecordingCommit
<1>10. CASE SaveRevisionKey \/ SaveRevisionRow
  BY <1>2, <1>3, <1>10 DEF SaveRevisionKey, SaveRevisionRow, Safe
<1>11. CASE PrepareWorkingCopy \/ SkipKey \/ SkipRow \/ CommitToSvn
              \/ SaveCommitKey \/ SaveCommitRow
  BY <1>2, <1>11 DEF PrepareWorkingCopy, SkipKey, SkipRow, CommitToSvn,
     SaveCommitKey, SaveCommitRow, Copying, RecordingCommit
<1> QED BY <1>5, <1>6, <1>7, <1>8, <1>9, <1>10, <1>11
        DEF Next, Users, Environment, Engine, SvnToGit, GitToSvn

\* Fetched revisions are not echoes, and are safe while messages are shown.
FetchedSafe ==
    /\ \A r \in fetched : ~svnLog[r].marked
    /\ MessagesShown => \A r \in fetched : Safe(r)

\* Without empty messages nothing in the clone's log looks like a watermark.
LEMMA NothingDetected ==
    ASSUME IInv, MessagesShown PROVE DetectedRev = {0}
<1>1. DetectedRevs = {}
  BY DEF DetectedRevs, ShowsMarker, MessagesShown
<1> QED BY <1>1 DEF DetectedRev, MaxOf

\* Only fetching adds to what was fetched.
LEMMA FetchedSame ==
    ASSUME [Next]_vars, ~FetchSvn PROVE fetched' = fetched
<1> USE DEF history, vars
<1>1. CASE Users \/ Environment \/ UNCHANGED vars
  BY <1>1 DEF Users, Environment, UserSvnCommit, UserGitPush, ResolveConflict,
     Crash, FreshDb, CommandError, PushUnacknowledged, SvnCommitUnacknowledged
<1>2. CASE StartCycle \/ FetchGit \/ DetectConflicts \/ SvnToGit
  BY <1>2 DEF StartCycle, FetchGit, DetectConflicts, SvnToGit, ApplyRevision,
     Push, PushRejected, RecordRevision, WriteRecord, SaveRevisionKey,
     SaveRevisionRow, RevisionsApplied
<1>3. CASE GitToSvn
  BY <1>3 DEF GitToSvn, PrepareWorkingCopy, SkipKey, SkipRow, CommitToSvn,
     SvnCommitRefused, RecordCommit, WriteRecord, SaveCommitKey, SaveCommitRow,
     FinishCycle
<1> QED BY <1>1, <1>2, <1>3 DEF Next, Engine

\* Every step keeps fetched revisions safe.
LEMMA FetchedSteps ==
    ASSUME IInv, OnceInv, OnceInv', FetchedSafe, [Next]_vars
    PROVE  FetchedSafe'
<1> USE DEF servers, clone, row, kv, db, memory, history, bounds, Goto
<1>1. /\ fetched \subseteq SvnPositions /\ SvnPositions \subseteq Nat \ {0}
      /\ wmRev \in Nat /\ kvRev \in Nat
  BY DEF IInv, TypeOK, SvnPositions
<1>2. \A r \in SvnPositions : svnLog'[r] = svnLog[r]
  BY SvnStays
<1>3. MessagesShown' => MessagesShown
  BY SvnStays DEF MessagesShown
<1>4. CASE FetchSvn
  <2>1. PICK stored \in StoredRev, d \in DetectedRev :
        LET last == IF stored = 0 THEN d ELSE stored IN
        /\ svnTodo' = NewRevisions(last)
        /\ fetched' = fetched \cup NewRevisions(last)
        /\ IF stored = 0 /\ d > 0
           THEN kvRev' = d /\ wmRev' = d /\ wmSha' = 0
           ELSE UNCHANGED <<kvRev, wmRev, wmSha>>
    BY <1>4 DEF FetchSvn
  <2> DEFINE last == IF stored = 0 THEN d ELSE stored
  <2>2. /\ UNCHANGED <<svnLog, remote, kvSha, records>>
        /\ stored \in Nat /\ d \in Nat /\ Len(svnLog) \in Nat
    BY <1>4, StoredRevType, DetectedRevType DEF FetchSvn, IInv, TypeOK
  <2>3. \A r \in NewRevisions(last) : ~svnLog[r].marked
    BY DEF NewRevisions, IsEcho
  <2>4. ASSUME MessagesShown, NEW r \in fetched' PROVE Safe(r)'
    <3>1. d = 0 /\ last = stored
      BY <2>4, NothingDetected
    <3>2. UNCHANGED <<wmRev, wmSha, kvRev, kvSha, records>>
      BY <2>1, <2>2, <3>1
    <3>3. \A t \in svnTodo' : ~Covered(t)'
      BY DEF OnceInv, RevisionsAhead
    <3>4. CASE r \in svnTodo'
      BY <3>3, <3>4 DEF Safe
    <3>5. CASE r \notin svnTodo'
      <4>1. r \in fetched
        BY <2>1, <3>5
      <4>2. r \in SvnPositions /\ r \in Nat /\ ~svnLog[r].marked
        BY <1>1, <4>1 DEF FetchedSafe
      <4>3. r <= stored
        BY <2>1, <2>2, <3>1, <3>5, <4>2 DEF NewRevisions, IsEcho, SvnPositions
      <4>4. Covered(r)
        BY <1>1, <4>2, <4>3, StoredCovers
      <4>5. Reached(r)
        BY <2>4, <4>1, <4>4 DEF FetchedSafe, Safe
      <4> QED BY <2>2, <4>5 DEF Safe, Reached, Copies
    <3> QED BY <3>4, <3>5
  <2> QED BY <1>3, <2>1, <2>2, <2>3, <2>4 DEF FetchedSafe
<1>5. CASE Crash \/ FreshDb
  <2>1. UNCHANGED <<svnLog, remote, fetched>>
    BY <1>5 DEF Crash, FreshDb
  <2>2. ASSUME MessagesShown, NEW r \in fetched PROVE Safe(r)'
    <3>1. r \in Nat \ {0} /\ Safe(r)
      BY <1>1, <2>2 DEF FetchedSafe
    <3>2. pc' = "idle"
      BY <1>5 DEF Crash, ForgetCycle, FreshDb
    <3>3. CASE Reached(r)
      BY <2>1, <3>3 DEF Safe, Reached, Copies
    <3>4. CASE ~Covered(r)
      <4>1. ~Covered(r)'
        <5>1. CASE Crash
          <6>1. /\ RecoverRow(wmRev, wmSha, kvRev, kvSha)
                /\ UNCHANGED <<kvRev, kvSha, records>>
            BY <5>1 DEF Crash
          <6> QED BY <1>1, <2>2, <3>1, <3>4, <6>1, NothingDetected
                  DEF RecoverRow, Covered
        <5>2. CASE FreshDb
          <6>1. /\ wmRev' = 0 /\ kvRev' = 0 /\ records' = <<>>
            BY <2>2, <5>2, NothingDetected DEF FreshDb, RecoverRow
          <6> QED BY <6>1 DEF Covered
        <5> QED BY <1>5, <5>1, <5>2
      <4> QED BY <3>2, <4>1 DEF Safe
    <3> QED BY <3>1, <3>3, <3>4 DEF Safe
  <2> QED BY <1>3, <2>1, <2>2 DEF FetchedSafe
<1>6. CASE ~FetchSvn /\ ~Crash /\ ~FreshDb
  <2>1. fetched' = fetched
    BY <1>6, FetchedSame
  <2> QED BY <1>1, <1>2, <1>3, <1>6, <2>1, SafeSteps DEF FetchedSafe
<1> QED BY <1>4, <1>5, <1>6

\* A revision the daemon has fetched once is copied before any watermark
\* passes it, whatever fails and whenever users commit, unless a log message
\* is empty.
THEOREM FetchedAreNotLost == Spec => []FetchedRevisionsReachGit
<1>1. Init => FetchedSafe
  BY DEF Init, FetchedSafe
<1>2. IInv /\ OnceInv /\ OnceInv' /\ FetchedSafe /\ [Next]_vars => FetchedSafe'
  BY FetchedSteps
<1>3. IInv /\ OnceInv /\ FetchedSafe => FetchedRevisionsReachGit
  <2> SUFFICES ASSUME IInv, OnceInv, FetchedSafe, pc = "idle", MessagesShown,
                      NEW r \in fetched, NEW stored \in StoredRev, r <= stored
               PROVE  Copies(remote, r) # {}
    BY DEF FetchedRevisionsReachGit
  <2>1. r \in Nat \ {0} /\ Safe(r)
    BY DEF FetchedSafe, IInv, TypeOK
  <2>2. Covered(r)
    BY <2>1, StoredCovers
  <2> QED BY <2>1, <2>2 DEF Safe, Reached
<1> QED BY <1>1, <1>2, <1>3, OnceInvariant, PTL DEF Spec

-----------------------------------------------------------------------------
(* What users committed, when they wait for the cycle to end.              *)

\* Users commit between cycles, and never write the marker themselves.
UsersWait == UsersDuringCycle = FALSE /\ MarkerChoices = {FALSE}

NothingFails == FaultKinds = {}

SvnUsers == {r \in SvnPositions : svnLog[r].origin = 0}
GitUsers == {s \in GitPositions : remote[s].origin = 0}

\* Users' revisions are safe, if the log can be trusted as a watermark; and
\* they reach the branch in order, if nothing fails.
UsersSafe ==
    /\ \A r \in SvnUsers : ~svnLog[r].marked
    /\ MessagesShown \/ NothingFails => \A r \in SvnUsers : Safe(r)
    /\ NothingFails =>
         /\ \A r, q \in SvnUsers : q < r /\ Reached(r) => Reached(q)
         /\ unpushed # NoCommit => pc = "push"
         /\ pc \notin {"idle", "fetch_svn", "fetch_git"} => base = Len(remote)

\* Everything up to what the clone's log shows has reached the branch.
LEMMA DetectedReached ==
    ASSUME IInv, UsersSafe, MessagesShown \/ NothingFails, pc # "push",
           NEW d \in DetectedRev
    PROVE  \A r \in SvnUsers : r <= d => Reached(r)
<1>1. SvnUsers \subseteq Nat \ {0} /\ d \in Nat
  BY DetectedRevType DEF IInv, TypeOK, SvnUsers, SvnPositions
<1>2. CASE MessagesShown
  BY <1>1, <1>2, NothingDetected
<1>3. CASE NothingFails /\ d # 0
  <2>1. d \in DetectedRevs /\ unpushed = NoCommit
    BY <1>3 DEF DetectedRev, MaxOf, UsersSafe
  <2>2. PICK j \in 1..base : d = remote[j].origin /\ ShowsMarker(remote[j])
    BY <2>1 DEF DetectedRevs
  <2>3. j \in GitPositions /\ DOMAIN remote = GitPositions
    BY <2>2 DEF IInv, TypeOK, GitPositions
  <2>4. Reached(d)
    BY <2>2, <2>3 DEF Reached, Copies
  <2>5. d \in SvnPositions /\ ~svnLog[d].marked
    BY <1>3, <2>2, <2>3 DEF IInv, CopiesOK, GitCopyOK
  <2>6. d \in SvnUsers
    BY <2>5 DEF SvnUsers, IInv, CopiesOK, SvnCopyOK
  <2> QED BY <1>1, <1>3, <2>4, <2>6 DEF UsersSafe
<1>4. CASE d = 0
  BY <1>1, <1>4
<1> QED BY <1>2, <1>3, <1>4

\* Nothing is stored that does not exist yet.
LEMMA CoveredExists ==
    ASSUME IInv PROVE ~Covered(Len(svnLog) + 1)
<1>1. /\ Len(svnLog) \in Nat /\ wmRev \in Nat /\ kvRev \in Nat
      /\ wmRev <= Len(svnLog) /\ kvRev <= Len(svnLog)
  BY DEF IInv, TypeOK
<1>2. \A i \in DOMAIN records : records[i].rev \in 1..Len(svnLog)
  BY DEF IInv, RecordsTruthful, TypeOK
<1>3. \A i \in DOMAIN records : ~(Len(svnLog) + 1 <= records[i].rev)
  BY <1>1, <1>2
<1> QED BY <1>1, <1>3 DEF Covered

\* Nothing is copied zero times.
LEMMA CopiesEmpty ==
    ASSUME IInv, NEW r, GitCopies(r) = 0 PROVE Copies(remote, r) = {}
<1>1. remote \in Seq(Commit) /\ Len(remote) \in Nat
  BY DEF IInv, TypeOK
<1>2. Copies(remote, r) \subseteq 1..Len(remote)
  BY <1>1 DEF Copies
<1>3. IsFiniteSet(1..Len(remote))
  BY ONLY Len(remote) \in Nat, <1>1, FS_Interval
<1>4. IsFiniteSet(Copies(remote, r))
  BY <1>2, <1>3, FS_Subset
<1> QED BY <1>4, FS_EmptySet DEF GitCopies

\* Where a revision comes from, and where it goes.
LEMMA SvnUsersStep ==
    ASSUME UsersWait, IInv, [Next]_vars
    PROVE  /\ SvnUsers \subseteq SvnPositions
           /\ SvnUsers \subseteq SvnUsers'
           /\ SvnUsers' # SvnUsers =>
                /\ UserSvnCommit /\ pc = "idle"
                /\ SvnUsers' = SvnUsers \cup {Len(svnLog) + 1}
                /\ ~svnLog'[Len(svnLog) + 1].marked
           /\ \A r \in SvnUsers : svnLog'[r] = svnLog[r]
<1> USE DEF servers, clone, db, vars
<1>1. svnLog \in Seq(Commit) /\ Len(svnLog) \in Nat
  BY DEF IInv, TypeOK
<1>2. ASSUME NEW c \in Commit, svnLog' = Append(svnLog, c)
      PROVE  SvnUsers' = SvnUsers \cup (IF c.origin = 0 THEN {Len(svnLog) + 1}
                                                       ELSE {})
  <2>1. /\ Len(svnLog') = Len(svnLog) + 1
        /\ \A i \in 1..Len(svnLog) : svnLog'[i] = svnLog[i]
        /\ svnLog'[Len(svnLog) + 1] = c
    BY <1>1, <1>2, AppendKeeps
  <2>2. SvnPositions' = SvnPositions \cup {Len(svnLog) + 1}
    BY <1>1, <2>1 DEF SvnPositions
  <2> QED BY <1>1, <2>1, <2>2 DEF SvnUsers, SvnPositions
<1>3. CASE UserSvnCommit
  <2>1. PICK f \in Files, c \in Contents \cup {Absent}, m \in MarkerChoices,
             b \in BlankChoices : svnLog' = UserEdit(svnLog, f, c, m, b)
    BY <1>3 DEF UserSvnCommit
  <2>2. m = FALSE /\ b \in BOOLEAN /\ pc = "idle"
    BY <1>3, TeamSyncAssumption DEF UsersWait, UserSvnCommit, UserMayCommit
  <2> DEFINE e == [tree |-> [TreeAt(svnLog, Len(svnLog)) EXCEPT ![f] = c],
                   origin |-> 0, marked |-> m, blank |-> b]
  <2>3. svnLog' = Append(svnLog, e) /\ e.origin = 0 /\ ~e.marked
    BY <2>1, <2>2 DEF UserEdit
  <2>4. e \in Commit
    <3>1. TreeAt(svnLog, Len(svnLog)) \in Tree
      BY <1>1, TreeAtType
    <3> QED BY <2>2, <3>1 DEF Commit, Tree
  <2> HIDE DEF e
  <2>5. svnLog'[Len(svnLog) + 1] = e
    BY <1>1, <2>3, <2>4, AppendKeeps
  <2> QED BY <1>2, <1>3, <2>2, <2>3, <2>4, <2>5, SvnStays DEF SvnUsers
<1>4. CASE CommitToSvn \/ SvnCommitUnacknowledged
  <2>1. PICK c \in Commit : c.origin = cur /\ svnLog' = Append(svnLog, c)
    BY <1>4, Published
  <2>2. cur # 0
    BY <1>4, Published DEF GitPositions
  <2>3. SvnUsers' = SvnUsers
    BY <1>2, <2>1, <2>2
  <2> QED BY <2>3, SvnStays DEF SvnUsers
<1>5. CASE svnLog' = svnLog
  BY <1>5 DEF SvnUsers, SvnPositions
<1>6. CASE ~UserSvnCommit /\ ~CommitToSvn /\ ~SvnCommitUnacknowledged
  <2>1. svnLog' = svnLog
    BY <1>6, SvnSame
  <2> QED BY <1>5, <2>1
<1> QED BY <1>3, <1>4, <1>6

\* Every step keeps users' revisions safe.
LEMMA UsersSafeSteps ==
    ASSUME UsersWait, IInv, OnceInv, OnceInv', UsersSafe, [Next]_vars
    PROVE  UsersSafe'
<1> USE DEF servers, clone, row, kv, db, memory, history, bounds, Goto
<1>1. /\ SvnUsers \subseteq SvnPositions /\ SvnPositions \subseteq Nat \ {0}
      /\ wmRev \in Nat /\ kvRev \in Nat /\ Len(svnLog) \in Nat
  BY DEF IInv, TypeOK, SvnPositions, SvnUsers
<1>2. \A r \in SvnUsers' : ~svnLog'[r].marked
  BY SvnUsersStep DEF UsersSafe
<1>3. MessagesShown' => MessagesShown
  BY SvnStays DEF MessagesShown
<1>4. ASSUME MessagesShown \/ NothingFails, NEW r \in SvnUsers PROVE Safe(r)'
  <2>1. Safe(r) /\ r \in Nat \ {0} /\ ~svnLog[r].marked
    BY <1>1, <1>4 DEF UsersSafe
  <2>2. CASE Reached(r)
    BY <2>1, <2>2, ReachedStays DEF Safe
  <2>3. CASE FetchSvn /\ ~Reached(r)
    <3>1. PICK stored \in StoredRev, d \in DetectedRev :
            LET last == IF stored = 0 THEN d ELSE stored IN
            /\ svnTodo' = NewRevisions(last)
            /\ IF stored = 0 /\ d > 0
               THEN kvRev' = d /\ wmRev' = d /\ wmSha' = 0
               ELSE UNCHANGED <<kvRev, wmRev, wmSha>>
      BY <2>3 DEF FetchSvn
    <3> DEFINE last == IF stored = 0 THEN d ELSE stored
    <3>2. stored \in Nat /\ d \in Nat /\ pc = "fetch_svn"
      BY <2>3, StoredRevType, DetectedRevType DEF FetchSvn, IInv, TypeOK
    <3>3. r > d
      BY <1>4, <2>1, <2>3, <3>2, DetectedReached
    <3>4. r > stored
      BY <2>1, <2>3, <3>2, StoredCovers DEF Safe
    <3>5. r \in svnTodo'
      BY <1>1, <2>1, <3>1, <3>2, <3>3, <3>4
         DEF NewRevisions, IsEcho, SvnPositions, SvnUsers
    <3>6. ~Covered(r)'
      BY <3>5 DEF OnceInv, RevisionsAhead
    <3> QED BY <3>5, <3>6 DEF Safe
  <2>4. CASE (Crash \/ FreshDb) /\ ~Reached(r)
    <3>1. pc' = "idle" /\ ~Covered(r) /\ (FreshDb => pc = "idle")
      BY <2>1, <2>4 DEF Crash, FreshDb, ForgetCycle, Safe
    <3>2. CASE Crash
      <4>1. MessagesShown
        BY <1>4, <3>2 DEF NothingFails, Crash
      <4>2. /\ RecoverRow(wmRev, wmSha, kvRev, kvSha)
            /\ UNCHANGED <<kvRev, kvSha, records>>
        BY <3>2 DEF Crash
      <4>3. ~Covered(r)'
        BY <1>1, <2>1, <3>1, <4>1, <4>2, NothingDetected DEF RecoverRow, Covered
      <4> QED BY <3>1, <4>3 DEF Safe
    <3>3. CASE FreshDb
      <4>1. /\ wmRev' = 0 \/ wmRev' \in DetectedRev
            /\ kvRev' = 0 /\ records' = <<>>
        BY <3>3 DEF FreshDb, RecoverRow
      <4>2. wmRev' \in Nat
        BY <4>1, DetectedRevType DEF IInv, TypeOK
      <4>3. ~(r <= wmRev')
        BY <1>4, <2>1, <2>4, <3>1, <3>3, <4>1, <4>2, DetectedReached
      <4>4. ~Covered(r)'
        BY <4>1, <4>2, <4>3 DEF Covered
      <4> QED BY <3>1, <4>4 DEF Safe
    <3> QED BY <2>4, <3>2, <3>3
  <2>5. CASE ~FetchSvn /\ ~Crash /\ ~FreshDb
    BY <1>1, <2>1, <2>5, SafeSteps
  <2> QED BY <2>2, <2>3, <2>4, <2>5
<1>5. ASSUME MessagesShown \/ NothingFails, NEW r \in SvnUsers' \ SvnUsers
      PROVE  Safe(r)'
  <2>1. UserSvnCommit /\ pc = "idle" /\ r = Len(svnLog) + 1
    BY <1>5, SvnUsersStep
  <2>2. UNCHANGED <<wmRev, wmSha, kvRev, kvSha, records, pc>>
    BY <2>1 DEF UserSvnCommit
  <2>3. ~Covered(r)'
    BY <2>1, <2>2, CoveredExists, WatermarksSame
  <2> QED BY <2>1, <2>2, <2>3 DEF Safe
<1>6. ASSUME NothingFails
      PROVE  /\ \A r, q \in SvnUsers' : q < r /\ Reached(r)' => Reached(q)'
             /\ (unpushed # NoCommit => pc = "push")'
             /\ (pc \notin {"idle", "fetch_svn", "fetch_git"} =>
                   base = Len(remote))'
  <2>1. ASSUME NEW r \in SvnUsers', NEW q \in SvnUsers', q < r, Reached(r)'
        PROVE  Reached(q)'
    <3>1. r \in Nat \ {0} /\ q \in Nat \ {0}
      <4>1. SvnUsers' \subseteq SvnUsers \cup {Len(svnLog) + 1}
        BY SvnUsersStep
      <4>2. \A n \in Nat : n + 1 \in Nat \ {0}
        OBVIOUS
      <4>3. Len(svnLog) + 1 \in Nat \ {0}
        BY <1>1, <4>2
      <4> QED BY <1>1, <2>1, <4>1, <4>3
    <3>2. CASE Reached(r)
      <4>1. r # Len(svnLog) + 1
        <5>1. GitCopies(Len(svnLog) + 1) = 0
          BY CountType
        <5> QED BY <3>2, <5>1, CountType, CopiesEmpty DEF Reached, GitCopies
      <4>2. r \in SvnUsers
        BY <4>1, SvnUsersStep
      <4>3. q \in SvnUsers
        BY <1>1, <2>1, <4>2, SvnUsersStep DEF SvnPositions
      <4> QED BY <1>6, <2>1, <3>1, <3>2, <4>2, <4>3, ReachedStays DEF UsersSafe
    <3>3. CASE ~Reached(r)
      <4>1. Push /\ r = cur
        <5>1. ~PushUnacknowledged
          BY <1>6 DEF NothingFails, PushUnacknowledged, CanFail
        <5> QED BY <2>1, <3>1, <3>3, <5>1, ReachedGrows
      <4>2. pc = "push"
        BY <4>1 DEF Push
      <4>3. q \in SvnUsers
        BY <2>1, <4>2, SvnUsersStep
      <4>4. Safe(q) /\ q \notin svnTodo
        BY <1>6, <2>1, <3>1, <4>1, <4>2, <4>3 DEF UsersSafe, OnceInv, RevisionsAhead
      <4> QED BY <2>1, <3>1, <4>1, <4>2, <4>4, ReachedStays DEF Safe
    <3> QED BY <3>2, <3>3
  <2>2. /\ ~CommandError /\ ~Crash /\ ~PushUnacknowledged
        /\ ~SvnCommitUnacknowledged /\ ~PushRejected
        /\ \A kind : ~CanFail(kind)
    BY <1>6 DEF NothingFails, CommandError, Crash, PushUnacknowledged,
       SvnCommitUnacknowledged, PushRejected, CanFail, UsersSafe
  <2>3. /\ unpushed # NoCommit => pc = "push"
        /\ pc \notin {"idle", "fetch_svn", "fetch_git"} => base = Len(remote)
    BY <1>6 DEF UsersSafe
  <2>4. /\ (unpushed # NoCommit => pc = "push")'
        /\ (pc \notin {"idle", "fetch_svn", "fetch_git"} => base = Len(remote))'
    <3>1. CASE Users \/ FreshDb \/ UNCHANGED vars
      BY <2>3, <3>1 DEF Users, UserSvnCommit, UserGitPush, UserMayCommit,
         UsersWait, ResolveConflict, FreshDb, vars
    <3>2. CASE StartCycle \/ FetchSvn \/ FetchGit \/ DetectConflicts
      BY <2>3, <3>2 DEF StartCycle, FetchSvn, FetchGit, DetectConflicts, Pulled
    <3>3. CASE SvnToGit
      BY <2>2, <2>3, <3>3 DEF SvnToGit, ApplyRevision, Push, RecordRevision,
         WriteRecord, SaveRevisionKey, SaveRevisionRow, RevisionsApplied
    <3>4. CASE GitToSvn
      BY <2>2, <2>3, <3>4 DEF GitToSvn, PrepareWorkingCopy, SkipKey, SkipRow,
         CommitToSvn, SvnCommitRefused, RecordCommit, WriteRecord,
         SaveCommitKey, SaveCommitRow, FinishCycle, Abort, ForgetCycle
    <3> QED BY <2>2, <3>1, <3>2, <3>3, <3>4 DEF Next, Environment, Engine
  <2> QED BY <2>1, <2>4
<1>7. (MessagesShown \/ NothingFails => \A r \in SvnUsers : Safe(r))'
  BY <1>3, <1>4, <1>5 DEF NothingFails
<1> QED BY <1>2, <1>6, <1>7 DEF UsersSafe, NothingFails

\* The first revision is either imported or above every watermark.
LEMMA InitUsersSafe == Init => UsersSafe
<1> SUFFICES ASSUME Init PROVE UsersSafe
  OBVIOUS
<1>1. PICK seeded \in BOOLEAN : InitLogs(seeded)
  BY DEF Init
<1>2. /\ SvnPositions = {1} /\ svnLog[1].origin = 0 /\ ~svnLog[1].marked
      /\ pc = "idle" /\ unpushed = NoCommit /\ kvRev = 0 /\ records = <<>>
      /\ wmRev = (IF seeded THEN 1 ELSE 0)
      /\ DOMAIN remote = {1}
      /\ seeded => remote[1].origin = 1
  BY <1>1 DEF Init, InitLogs, SvnPositions
<1>3. SvnUsers = {1}
  BY <1>2 DEF SvnUsers
<1>4. Safe(1)
  <2>1. CASE seeded
    BY <1>2, <2>1 DEF Safe, Reached, Copies
  <2>2. CASE ~seeded
    <3>1. wmRev = 0 /\ DOMAIN records = {}
      BY <1>2, <2>2
    <3> QED BY <1>2, <3>1 DEF Safe, Covered
  <2> QED BY <2>1, <2>2
<1> QED BY <1>2, <1>3, <1>4 DEF UsersSafe

\* When users do not commit during a cycle, the SVN watermark never passes a
\* revision of theirs that is not in the branch: with any crashes and failures
\* if log messages are not empty, and with any messages if nothing fails.
THEOREM UserRevisionsAreNotLost ==
    ASSUME UsersDuringCycle = FALSE, MarkerChoices = {FALSE}
    PROVE  Spec => [](MessagesShown \/ FaultKinds = {} => NoSvnRevisionLost)
<1>1. UsersWait
  BY DEF UsersWait
<1>2. Init => UsersSafe
  BY InitUsersSafe
<1>3. IInv /\ OnceInv /\ OnceInv' /\ UsersSafe /\ [Next]_vars => UsersSafe'
  BY <1>1, UsersSafeSteps
<1>4. IInv /\ OnceInv /\ UsersSafe =>
        (MessagesShown \/ FaultKinds = {} => NoSvnRevisionLost)
  <2> SUFFICES ASSUME IInv, OnceInv, UsersSafe, pc = "idle",
                      MessagesShown \/ NothingFails,
                      NEW r \in UserCommits(svnLog), NEW stored \in StoredRev,
                      r <= stored
               PROVE  Copies(remote, r) # {}
    BY DEF NoSvnRevisionLost, NothingFails
  <2>1. r \in SvnUsers /\ r \in Nat \ {0}
    BY DEF UserCommits, SvnUsers, SvnPositions, IInv, TypeOK
  <2>2. Safe(r) /\ Covered(r)
    BY <2>1, StoredCovers DEF UsersSafe
  <2> QED BY <2>2 DEF Safe, Reached
<1> QED BY <1>2, <1>3, <1>4, OnceInvariant, PTL DEF Spec

\* A commit of the branch is done when it is in SVN, or changed nothing there.
Done(s) == Copies(svnLog, s) # {} \/ s \in skipped

BeforeFetch == pc \in {"idle", "fetch_svn", "fetch_git"}

\* No watermark reaches a commit, nor may one read from the clone.
Beyond(s) ==
    /\ s > wmSha /\ s > kvSha
    /\ \A i \in DOMAIN records : s > records[i].sha
    /\ s > base \/ base = 1

CommitSafe(s) ==
    \/ Done(s)
    \/ BeforeFetch /\ Beyond(s)
    \/ ~BeforeFetch /\ (s \in gitTodo \/ (pc = "svn_commit" /\ s = cur))

CommitsSafe ==
    /\ 1 \in SvnPositions /\ ~svnLog[1].blank
    /\ 1 \in GitPositions /\ remote[1].origin \in {0, 1} /\ base >= 1
    /\ pc = "svn_commit" => wcRev = Len(svnLog)
    /\ \A s \in GitUsers : ~remote[s].marked
    /\ Len(remote) <= GitFetchCap => \A s \in GitUsers : CommitSafe(s)

\* A clone that holds only the first commit shows no watermark.
LEMMA NothingDetectedAtFirst ==
    ASSUME IInv, CommitsSafe, base = 1, unpushed = NoCommit
    PROVE  DetectedRev = {0}
<1>1. DOMAIN svnLog \subseteq Nat \ {0}
  BY DEF IInv, TypeOK
<1>2. ~ShowsMarker(remote[1])
  BY <1>1 DEF CommitsSafe, ShowsMarker
<1>3. DetectedRevs = {}
  BY <1>2 DEF DetectedRevs
<1> QED BY <1>3 DEF DetectedRev, MaxOf

\* What is done stays done.
LEMMA DoneStays ==
    ASSUME IInv, [Next]_vars, NEW s, Done(s) PROVE Done(s)'
<1>1. Copies(svnLog, s) \subseteq Copies(svnLog', s)
  BY SvnStays DEF Copies
<1>2. skipped \subseteq skipped'
  <2> USE DEF history, vars
  <2>1. CASE Users \/ Environment \/ UNCHANGED vars
    BY <2>1 DEF Users, Environment, UserSvnCommit, UserGitPush, ResolveConflict,
       Crash, FreshDb, CommandError, PushUnacknowledged, SvnCommitUnacknowledged
  <2>2. CASE StartCycle \/ FetchSvn \/ FetchGit \/ DetectConflicts \/ SvnToGit
    BY <2>2 DEF StartCycle, FetchSvn, FetchGit, DetectConflicts, SvnToGit,
       ApplyRevision, Push, PushRejected, RecordRevision, WriteRecord,
       SaveRevisionKey, SaveRevisionRow, RevisionsApplied
  <2>3. CASE GitToSvn
    BY <2>3 DEF GitToSvn, PrepareWorkingCopy, SkipKey, SkipRow, CommitToSvn,
       SvnCommitRefused, RecordCommit, WriteRecord, SaveCommitKey, SaveCommitRow,
       FinishCycle
  <2> QED BY <2>1, <2>2, <2>3 DEF Next, Engine
<1> QED BY <1>1, <1>2 DEF Done

\* Under which the only steps are those of users, a new database and the engine.
LEMMA QuietSteps ==
    ASSUME NothingFails, UsersSafe, CommitsSafe, [Next]_vars
    PROVE  /\ ~Crash /\ ~CommandError /\ ~PushUnacknowledged
           /\ ~SvnCommitUnacknowledged /\ ~PushRejected /\ ~SvnCommitRefused
           /\ \A kind : ~CanFail(kind)
<1>1. /\ ~Crash /\ ~CommandError /\ ~PushUnacknowledged
      /\ ~SvnCommitUnacknowledged /\ \A kind : ~CanFail(kind)
  BY DEF NothingFails, CommandError, Crash, PushUnacknowledged,
     SvnCommitUnacknowledged, CanFail
<1>2. ~PushRejected
  BY DEF UsersSafe, PushRejected
<1>3. ~SvnCommitRefused
  <2> SUFFICES ASSUME SvnCommitRefused PROVE FALSE
    OBVIOUS
  <2>1. wcRev = Len(svnLog) /\ \E r \in (wcRev + 1)..Len(svnLog) : TRUE
    BY DEF SvnCommitRefused, OutOfDate, CommitsSafe
  <2> QED BY <2>1
<1> QED BY <1>1, <1>2, <1>3

\* The branch as users made it.
LEMMA GitUsersStep ==
    ASSUME UsersWait, IInv, [Next]_vars
    PROVE  /\ GitPositions \subseteq GitPositions'
           /\ \A s \in GitPositions : remote'[s] = remote[s]
           /\ Len(remote) <= Len(remote') /\ Len(remote) \in Nat
           /\ Len(remote') \in Nat
           /\ GitUsers' # GitUsers =>
                /\ UserGitPush /\ pc = "idle"
                /\ GitUsers' = GitUsers \cup {Len(remote) + 1}
                /\ ~remote'[Len(remote) + 1].marked
<1>1. remote \in Seq(Commit) /\ Len(remote) \in Nat
  BY DEF IInv, TypeOK
<1>2. ASSUME NEW c \in Commit, remote' = Append(remote, c)
      PROVE  /\ Len(remote') = Len(remote) + 1
             /\ GitPositions' = GitPositions \cup {Len(remote) + 1}
             /\ \A i \in GitPositions : remote'[i] = remote[i]
             /\ remote'[Len(remote) + 1] = c
             /\ GitUsers' = GitUsers \cup (IF c.origin = 0 THEN {Len(remote) + 1}
                                                          ELSE {})
  <2>1. /\ Len(remote') = Len(remote) + 1
        /\ \A i \in 1..Len(remote) : remote'[i] = remote[i]
        /\ remote'[Len(remote) + 1] = c
    BY <1>1, <1>2, AppendKeeps
  <2>2. GitPositions' = GitPositions \cup {Len(remote) + 1}
    BY <1>1, <2>1 DEF GitPositions
  <2>3. GitUsers' = GitUsers \cup (IF c.origin = 0 THEN {Len(remote) + 1} ELSE {})
    BY <1>1, <2>1, <2>2 DEF GitUsers, GitPositions
  <2> QED BY <2>1, <2>2, <2>3 DEF GitPositions
<1>3. CASE UserGitPush
  <2>1. PICK f \in Files, c \in Contents \cup {Absent}, m \in MarkerChoices :
             remote' = UserEdit(remote, f, c, m, FALSE)
    BY <1>3 DEF UserGitPush
  <2>2. m = FALSE /\ pc = "idle"
    BY <1>3 DEF UsersWait, UserGitPush, UserMayCommit
  <2> DEFINE e == [tree |-> [TreeAt(remote, Len(remote)) EXCEPT ![f] = c],
                   origin |-> 0, marked |-> m, blank |-> FALSE]
  <2>3. remote' = Append(remote, e) /\ e.origin = 0 /\ ~e.marked
    BY <2>1, <2>2 DEF UserEdit
  <2>4. e \in Commit
    <3>1. TreeAt(remote, Len(remote)) \in Tree
      BY <1>1, TreeAtType
    <3> QED BY <2>2, <3>1 DEF Commit, Tree
  <2> HIDE DEF e
  <2>5. /\ Len(remote') = Len(remote) + 1
        /\ GitPositions' = GitPositions \cup {Len(remote) + 1}
        /\ \A i \in GitPositions : remote'[i] = remote[i]
        /\ remote'[Len(remote) + 1] = e
        /\ GitUsers' = GitUsers \cup {Len(remote) + 1}
    BY <1>2, <2>3, <2>4
  <2>6. Len(remote) <= Len(remote') /\ Len(remote') \in Nat
    BY <1>1, <2>5
  <2> QED BY <1>1, <1>3, <2>2, <2>3, <2>5, <2>6
<1>4. CASE Push \/ PushUnacknowledged
  <2>1. PICK c \in Commit : c.origin = cur /\ remote' = Append(remote, c)
    BY <1>4, Published
  <2>2. cur # 0
    BY <1>4, Published DEF SvnPositions
  <2>3. /\ Len(remote') = Len(remote) + 1
        /\ GitPositions' = GitPositions \cup {Len(remote) + 1}
        /\ \A i \in GitPositions : remote'[i] = remote[i]
        /\ GitUsers' = GitUsers
    BY <1>2, <2>1, <2>2
  <2>4. Len(remote) <= Len(remote') /\ Len(remote') \in Nat
    BY <1>1, <2>3
  <2> QED BY <1>1, <2>3, <2>4
<1>5. CASE remote' = remote
  BY <1>1, <1>5 DEF GitUsers, GitPositions
<1> QED BY <1>3, <1>4, <1>5, RemoteSame

\* Every step keeps a commit of a user safe.
LEMMA CommitSafeStep ==
    ASSUME UsersWait, NothingFails, IInv, UsersSafe, CommitsSafe, [Next]_vars,
           Len(remote) <= GitFetchCap,
           NEW s \in GitUsers, CommitSafe(s)
    PROVE  CommitSafe(s)'
<1> USE DEF servers, clone, row, kv, db, memory, history, bounds, Goto,
            BeforeFetch
<1>1. CASE Done(s)
  BY <1>1, DoneStays DEF CommitSafe
<1> SUFFICES ASSUME ~Done(s) PROVE CommitSafe(s)'
  BY <1>1
<1>2. \/ BeforeFetch /\ Beyond(s)
      \/ ~BeforeFetch /\ (s \in gitTodo \/ (pc = "svn_commit" /\ s = cur))
  BY DEF CommitSafe
<1>3. /\ s \in Nat \ {0} /\ s <= Len(remote) /\ ~remote[s].marked
      /\ Len(remote) \in Nat /\ GitFetchCap \in Nat
  <2>1. Len(remote) \in Nat /\ GitFetchCap \in Nat
    BY TeamSyncAssumption DEF IInv, TypeOK
  <2>2. s \in 1..Len(remote) /\ ~remote[s].marked
    BY DEF GitUsers, GitPositions, CommitsSafe
  <2> QED BY <2>1, <2>2
<1>4. CASE UserSvnCommit \/ UserGitPush \/ ResolveConflict \/ StartCycle
             \/ DetectConflicts \/ UNCHANGED vars
  BY <1>2, <1>4 DEF UserSvnCommit, UserGitPush, ResolveConflict, StartCycle,
     DetectConflicts, vars, CommitSafe, Beyond
<1>5. CASE FreshDb
  <2>1. /\ BeforeFetch' /\ base' = base /\ Beyond(s)
        /\ kvSha' = 0 /\ records' = <<>>
        /\ pc = "idle" /\ (RecoverRow(0, 0, 0, 0) \/ wmSha' = 0)
    BY <1>2, <1>5 DEF FreshDb
  <2>2. unpushed = NoCommit
    BY <2>1 DEF UsersSafe
  <2>3. wmSha' < s
    <3>1. CASE wmSha' = 0
      BY <1>3, <3>1
    <3>2. CASE RecoverRow(0, 0, 0, 0)
      <4>1. PICK d \in DetectedRev : wmSha' = IF d > 0 THEN LocalHead ELSE 0
        BY <3>2 DEF RecoverRow
      <4>2. CASE d > 0
        <5>1. base # 1
          BY <2>2, <4>2, NothingDetectedAtFirst
        <5> QED BY <2>1, <2>2, <4>1, <4>2, <5>1 DEF LocalHead, Beyond
      <4> QED BY <3>1, <4>1, <4>2
    <3> QED BY <2>1, <3>1, <3>2
  <2>4. Beyond(s)'
    BY <1>3, <2>1, <2>3 DEF Beyond
  <2> QED BY <2>1, <2>4 DEF CommitSafe
<1>6. CASE FetchSvn
  <2>1. /\ BeforeFetch /\ BeforeFetch' /\ wmSha' \in {wmSha, 0}
        /\ UNCHANGED <<kvSha, records, base>>
    BY <1>6 DEF FetchSvn
  <2> QED BY <1>2, <1>3, <2>1 DEF CommitSafe, Beyond
<1>7. CASE FetchGit
  <2>1. BeforeFetch /\ ~BeforeFetch' /\ Beyond(s)
        /\ gitTodo' = {t \in CommitsSince(SinceSha) : ~IsEcho(remote[t])}
    BY <1>2, <1>7 DEF FetchGit
  <2>2. s > SinceSha
    <3>1. records \in Seq(Record)
      BY DEF IInv, TypeOK
    <3>2. records # <<>> => Len(records) \in DOMAIN records
      BY <3>1
    <3> QED BY <1>3, <2>1, <3>2 DEF Beyond, SinceSha
  <2>3. SinceSha \in Int /\ SinceSha <= Len(remote)
    BY SinceShaType
  <2>4. s \in CommitsSince(SinceSha)
    BY <1>3, <2>2, <2>3 DEF CommitsSince
  <2> QED BY <1>3, <2>1, <2>4 DEF IsEcho, CommitSafe
<1>8. CASE SvnToGit
  <2>1. ~BeforeFetch /\ gitTodo' = gitTodo /\ ~BeforeFetch' /\ s \in gitTodo
    BY <1>2, <1>8, QuietSteps DEF SvnToGit, ApplyRevision, Push, RecordRevision,
       WriteRecord, SaveRevisionKey, SaveRevisionRow, RevisionsApplied
  <2> QED BY <2>1 DEF CommitSafe
<1>9. CASE PrepareWorkingCopy
  <2>1. PICK t \in gitTodo : /\ cur' = t /\ gitTodo' = gitTodo \ {t}
                             /\ pc = "git_to_svn"
                             /\ \/ pc' = "skip_kv" /\ skipped' = skipped \cup {t}
                                \/ pc' = "svn_commit"
    BY <1>9 DEF PrepareWorkingCopy
  <2> QED BY <1>2, <2>1 DEF CommitSafe, Done
<1>10. CASE SkipKey \/ SkipRow \/ RecordCommit \/ SaveCommitKey \/ SaveCommitRow
  <2>1. ~BeforeFetch /\ gitTodo' = gitTodo /\ ~BeforeFetch' /\ s \in gitTodo
    BY <1>2, <1>10, QuietSteps DEF SkipKey, SkipRow, RecordCommit, WriteRecord,
       SaveCommitKey, SaveCommitRow
  <2> QED BY <2>1 DEF CommitSafe
<1>11. CASE CommitToSvn
  <2>1. ~BeforeFetch /\ gitTodo' = gitTodo /\ ~BeforeFetch'
    BY <1>11 DEF CommitToSvn
  <2>2. CASE s = cur
    <3>1. PICK c \in Commit : c.origin = cur /\ svnLog' = Append(svnLog, c)
      BY <1>11, Published
    <3>2. svnLog \in Seq(Commit)
      BY DEF IInv, TypeOK
    <3>3. /\ Len(svnLog) + 1 \in DOMAIN svnLog'
          /\ svnLog'[Len(svnLog) + 1].origin = s
      BY <2>2, <3>1, <3>2, AppendKeeps
    <3> QED BY <3>3 DEF CommitSafe, Done, Copies
  <2> QED BY <1>2, <2>1, <2>2 DEF CommitSafe
<1>12. CASE FinishCycle
  BY <1>2, <1>12 DEF FinishCycle
<1> QED BY <1>4, <1>5, <1>6, <1>7, <1>8, <1>9, <1>10, <1>11, <1>12, QuietSteps
        DEF Next, Users, Environment, Engine, GitToSvn

\* Where the clone's branch can move to.
LEMMA BaseMoves ==
    ASSUME [Next]_vars PROVE base' \in {base, Len(remote), Len(remote')}
<1> USE DEF clone, vars
<1>1. CASE Users \/ Environment \/ UNCHANGED vars
  BY <1>1 DEF Users, Environment, UserSvnCommit, UserGitPush, ResolveConflict,
     Crash, FreshDb, CommandError, PushUnacknowledged, SvnCommitUnacknowledged
<1>2. CASE StartCycle \/ FetchSvn \/ FetchGit \/ DetectConflicts \/ SvnToGit
  BY <1>2 DEF StartCycle, FetchSvn, FetchGit, Pulled, DetectConflicts, SvnToGit,
     ApplyRevision, Push, PushRejected, RecordRevision, WriteRecord,
     SaveRevisionKey, SaveRevisionRow, RevisionsApplied
<1>3. CASE GitToSvn
  BY <1>3 DEF GitToSvn, PrepareWorkingCopy, SkipKey, SkipRow, CommitToSvn,
     SvnCommitRefused, RecordCommit, WriteRecord, SaveCommitKey, SaveCommitRow,
     FinishCycle
<1> QED BY <1>1, <1>2, <1>3 DEF Next, Engine

\* Every step keeps users' commits safe.
LEMMA CommitsSafeStep ==
    ASSUME UsersWait, NothingFails, IInv, UsersSafe, CommitsSafe, [Next]_vars
    PROVE  CommitsSafe'
<1>1. (1 \in SvnPositions /\ ~svnLog[1].blank)'
  BY SvnStays DEF CommitsSafe, SvnPositions
<1>2. (1 \in GitPositions /\ remote[1].origin \in {0, 1} /\ base >= 1)'
  <2>1. 1 \in GitPositions' /\ remote'[1] = remote[1] /\ Len(remote') \in Nat
    BY GitUsersStep DEF CommitsSafe
  <2>2. base' \in {base, Len(remote), Len(remote')}
    BY BaseMoves
  <2>3. Len(remote) \in Nat /\ Len(remote') \in Nat
        /\ Len(remote) >= 1 /\ Len(remote') >= 1
    BY <2>1, GitUsersStep DEF CommitsSafe, GitPositions
  <2> QED BY <2>1, <2>2, <2>3 DEF CommitsSafe
<1>3. (pc = "svn_commit" => wcRev = Len(svnLog))'
  <2> SUFFICES ASSUME pc' = "svn_commit" PROVE wcRev' = Len(svnLog')
    OBVIOUS
  <2> USE DEF servers, clone, row, kv, db, memory, history, bounds, Goto
  <2>1. CASE pc # "svn_commit"
    <3>1. PrepareWorkingCopy
      <4>1. CASE Users \/ FreshDb \/ UNCHANGED vars
        BY <2>1, <4>1 DEF Users, UserSvnCommit, UserGitPush, ResolveConflict,
           FreshDb, vars
      <4>2. CASE StartCycle \/ FetchSvn \/ FetchGit \/ DetectConflicts
        BY <4>2 DEF StartCycle, FetchSvn, FetchGit, DetectConflicts
      <4>3. CASE SvnToGit
        BY <4>3, QuietSteps DEF SvnToGit, ApplyRevision, Push, RecordRevision,
           WriteRecord, SaveRevisionKey, SaveRevisionRow, RevisionsApplied
      <4>4. CASE GitToSvn
        BY <4>4, QuietSteps DEF GitToSvn, SkipKey, SkipRow, CommitToSvn,
           RecordCommit, WriteRecord, SaveCommitKey, SaveCommitRow, FinishCycle,
           ForgetCycle
      <4> QED BY <4>1, <4>2, <4>3, <4>4, QuietSteps DEF Next, Environment, Engine
    <3> QED BY <3>1 DEF PrepareWorkingCopy
  <2>2. CASE pc = "svn_commit"
    <3>1. UNCHANGED <<wcRev, svnLog>>
      <4>1. CASE Users \/ FreshDb \/ UNCHANGED vars
        BY <2>2, <4>1 DEF Users, UserSvnCommit, UserGitPush, ResolveConflict,
           FreshDb, vars, UserMayCommit, UsersWait
      <4>2. CASE StartCycle \/ FetchSvn \/ FetchGit \/ DetectConflicts
        BY <4>2 DEF StartCycle, FetchSvn, FetchGit, DetectConflicts
      <4>3. CASE SvnToGit
        BY <4>3, QuietSteps DEF SvnToGit, ApplyRevision, Push, RecordRevision,
           WriteRecord, SaveRevisionKey, SaveRevisionRow, RevisionsApplied
      <4>4. CASE GitToSvn
        BY <2>2, <4>4, QuietSteps DEF GitToSvn, PrepareWorkingCopy, SkipKey,
           SkipRow, CommitToSvn, RecordCommit, WriteRecord, SaveCommitKey,
           SaveCommitRow, FinishCycle
      <4> QED BY <4>1, <4>2, <4>3, <4>4, QuietSteps DEF Next, Environment, Engine
    <3> QED BY <2>2, <3>1 DEF CommitsSafe
  <2> QED BY <2>1, <2>2
<1>4. (\A s \in GitUsers : ~remote[s].marked)'
  BY GitUsersStep DEF CommitsSafe, GitUsers
<1>5. (Len(remote) <= GitFetchCap => \A s \in GitUsers : CommitSafe(s))'
  <2> SUFFICES ASSUME Len(remote') <= GitFetchCap, NEW s \in GitUsers'
               PROVE  CommitSafe(s)'
    OBVIOUS
  <2>1. Len(remote) <= GitFetchCap
    BY GitUsersStep, TeamSyncAssumption
  <2>2. CASE s \in GitUsers
    BY <2>1, <2>2, CommitSafeStep DEF CommitsSafe
  <2>3. CASE s \notin GitUsers
    <3>1. UserGitPush /\ pc = "idle" /\ s = Len(remote) + 1
      BY <2>3, GitUsersStep
    <3>2. UNCHANGED <<base, wmSha, kvSha, records, pc>>
      BY <3>1 DEF UserGitPush, clone, db, memory
    <3>3. /\ Len(remote) \in Nat /\ base \in 0..Len(remote)
          /\ wmSha \in Sha /\ kvSha \in Sha
      BY DEF IInv, TypeOK
    <3>4. \A i \in DOMAIN records : records[i].sha \in 1..Len(remote)
      BY DEF IInv, RecordsTruthful, TypeOK
    <3>5. Beyond(s)'
      BY <3>1, <3>2, <3>3, <3>4 DEF Beyond, Sha, UnknownSha
    <3> QED BY <3>1, <3>2, <3>5 DEF CommitSafe, BeforeFetch
  <2> QED BY <2>2, <2>3
<1> QED BY <1>1, <1>2, <1>3, <1>4, <1>5 DEF CommitsSafe

\* The first commit is either imported or above every watermark.
LEMMA InitCommitsSafe == UsersWait /\ Init => CommitsSafe
<1> SUFFICES ASSUME Init PROVE CommitsSafe
  OBVIOUS
<1>1. PICK seeded \in BOOLEAN : InitLogs(seeded)
  BY DEF Init
<1>2. /\ SvnPositions = {1} /\ ~svnLog[1].blank
      /\ GitPositions = {1} /\ base = 1 /\ pc = "idle"
      /\ kvSha = 0 /\ records = <<>>
      /\ wmSha = (IF seeded THEN 1 ELSE 0)
      /\ remote[1].origin = (IF seeded THEN 1 ELSE 0)
      /\ remote[1].marked = seeded
  BY <1>1 DEF Init, InitLogs, SvnPositions, GitPositions
<1>3. \A s \in GitUsers : ~remote[s].marked /\ s > wmSha /\ s > kvSha
  BY <1>2 DEF GitUsers
<1>4. DOMAIN records = {}
  BY <1>2
<1>5. \A s \in GitUsers : CommitSafe(s)
  BY <1>2, <1>3, <1>4 DEF CommitSafe, BeforeFetch, Beyond
<1> QED BY <1>2, <1>3, <1>5 DEF CommitsSafe

\* When nothing fails, users do not commit during a cycle and the branch is
\* no longer than what get_commits_since returns, the Git watermark never
\* passes a commit of theirs that is not in SVN.
THEOREM UserCommitsAreNotLost ==
    ASSUME UsersDuringCycle = FALSE, MarkerChoices = {FALSE}, FaultKinds = {}
    PROVE  Spec => [](Len(remote) <= GitFetchCap => NoGitCommitLost)
<1>1. UsersWait /\ NothingFails
  BY DEF UsersWait, NothingFails
<1>2. Init => UsersSafe /\ CommitsSafe
  BY <1>1, InitUsersSafe, InitCommitsSafe
<1>3. IInv /\ OnceInv /\ OnceInv' /\ UsersSafe /\ CommitsSafe /\ [Next]_vars
        => (UsersSafe /\ CommitsSafe)'
  BY <1>1, UsersSafeSteps, CommitsSafeStep
<1>4. IInv /\ CommitsSafe => (Len(remote) <= GitFetchCap => NoGitCommitLost)
  <2> SUFFICES ASSUME IInv, CommitsSafe, Len(remote) <= GitFetchCap, pc = "idle",
                      NEW s \in UserCommits(remote), s <= SinceSha
               PROVE  Done(s)
    BY DEF NoGitCommitLost, Done
  <2>1. s \in GitUsers /\ s \in Nat \ {0}
    BY DEF UserCommits, GitUsers, GitPositions, IInv, TypeOK
  <2>2. records # <<>> => Len(records) \in DOMAIN records
    <3>1. records \in Seq(Record)
      BY DEF IInv, TypeOK
    <3> QED BY <3>1
  <2>3. SinceSha \in Int
    BY SinceShaType
  <2>4. ~Beyond(s)
    BY <2>1, <2>2, <2>3 DEF Beyond, SinceSha
  <2> QED BY <2>1, <2>4 DEF CommitsSafe, CommitSafe, BeforeFetch
<1> QED BY <1>2, <1>3, <1>4, OnceInvariant, PTL DEF Spec

-----------------------------------------------------------------------------
(* The order of the copies, while the bookkeeping is kept.                 *)

\* No log message is empty, no bookkeeping write fails, and the database is
\* never lost.  Crashes, failed commands and lost answers remain.
BookkeepingKept ==
    BlankChoices = {FALSE} /\ "db_error" \notin FaultKinds /\ MaxResets = 0

\* Nothing newer than commit i of the other history was copied into log.
UpTo(log, i) == \A j \in DOMAIN log : log[j].origin <= i

\* A cycle that starts now fetches the revision.
Wanted(r) == ~svnLog[r].marked /\ ~Covered(r)

\* A walk back from the head of the branch gets as far as the commit.
Recent(s) == ~remote[s].marked /\ s > Len(remote) - GitFetchCap

\* What is still to be fetched is no older than what was copied, and a cycle
\* holds it all, or it came after all the cycle holds.
RevisionsInOrder ==
    /\ \A r \in SvnPositions : Wanted(r) => UpTo(remote, r)
    /\ pc \in {"fetch_git", "detect", "svn_to_git", "push"} \cup RecordingRevision =>
         \A r \in SvnPositions : Wanted(r) =>
            \/ r \in svnTodo
            \/ r = cur /\ pc \in {"push"} \cup RecordingRevision
            \/ (\A t \in svnTodo : t < r) /\ (pc = "push" => cur < r)

\* The commits of the branch the running cycle has yet to finish.
Applying == {"detect", "svn_to_git", "push", "git_to_svn"}
              \cup RecordingRevision \cup Copying
InHand == gitTodo \cup (IF pc \in Copying THEN {cur} ELSE {})

\* The same for the branch.  Its watermark runs ahead to the engine's own
\* commits and back again, but not past a commit that is in hand.
CommitsInOrder ==
    /\ \A s \in GitPositions : Recent(s) /\ SinceSha < s => UpTo(svnLog, s)
    /\ pc \in Applying =>
         /\ \A t \in InHand : UpTo(svnLog, t)
         /\ \A s \in GitPositions :
              Recent(s) /\ (SinceSha < s \/ \E t \in InHand : t < s) =>
                s \in InHand \/ \A t \in InHand : t < s
    /\ pc \in RecordingRevision =>
         UpTo(svnLog, out) /\ \A t \in gitTodo : t < out

\* A crash that rebuilds the row from kv_state does not move its SHA back.
ShasInOrder ==
    /\ wmSha # UnknownSha /\ kvSha # UnknownSha
    /\ pc = "skip_row" => kvSha = cur
    /\ wmRev = 0 /\ wmSha # 0 =>
         /\ wmSha <= kvSha
         /\ pc \in Applying => \A t \in InHand : wmSha <= t

OrderInv == /\ MessagesShown /\ resets = 0
            /\ RevisionsInOrder /\ CommitsInOrder /\ ShasInOrder

\* Positions are numbers.
LEMMA OrderTypes ==
    ASSUME IInv
    PROVE  /\ Len(svnLog) \in Nat /\ Len(remote) \in Nat /\ SinceSha \in Int
           /\ SvnPositions \subseteq Nat \ {0} /\ GitPositions \subseteq Nat \ {0}
           /\ svnTodo \subseteq SvnPositions /\ gitTodo \subseteq GitPositions
           /\ cur \in Nat /\ out \in Nat /\ wmRev \in Nat /\ kvRev \in Nat
           /\ wmSha \in Int /\ kvSha \in Int
           /\ wmSha # UnknownSha => wmSha \in Nat
           /\ kvSha # UnknownSha => kvSha \in Nat
           /\ pc \in Copying => cur \in GitPositions
           /\ \A s \in GitPositions : s <= Len(remote)
           /\ \A r \in SvnPositions : r <= Len(svnLog)
           /\ InHand \subseteq GitPositions
<1>1. /\ Len(svnLog) \in Nat /\ Len(remote) \in Nat
      /\ wmRev \in Nat /\ kvRev \in Nat /\ cur \in Nat /\ out \in Nat
      /\ svnTodo \subseteq SvnPositions /\ gitTodo \subseteq GitPositions
      /\ wmSha \in Sha /\ kvSha \in Sha
  BY DEF IInv, TypeOK, SvnPositions, GitPositions
<1>2. pc \in Copying => cur \in GitPositions
  BY DEF IInv, PhaseOK, Copying, RecordingCommit
<1>3. /\ wmSha \in Int /\ kvSha \in Int
      /\ wmSha # UnknownSha => wmSha \in Nat
      /\ kvSha # UnknownSha => kvSha \in Nat
  BY <1>1 DEF Sha, UnknownSha
<1> QED BY <1>1, <1>2, <1>3, SinceShaType DEF SvnPositions, GitPositions, InHand

\* A later position bounds what an earlier one bounds.
LEMMA UpToLater ==
    ASSUME NEW log \in Seq(Commit), NEW i \in Nat, NEW j \in Nat, i <= j,
           UpTo(log, i)
    PROVE  UpTo(log, j)
<1>1. \A k \in DOMAIN log : log[k].origin \in Nat
  <2>1. \A k \in DOMAIN log : log[k] \in Commit
    OBVIOUS
  <2> QED BY <2>1 DEF Commit
<1> QED BY <1>1 DEF UpTo

\* Nothing was copied that does not exist.
LEMMA UpToTheEnd ==
    ASSUME IInv PROVE UpTo(remote, Len(svnLog)) /\ UpTo(svnLog, Len(remote))
<1>1. /\ DOMAIN svnLog = SvnPositions /\ DOMAIN remote = GitPositions
      /\ Len(svnLog) \in Nat /\ Len(remote) \in Nat
  BY DEF IInv, TypeOK, SvnPositions, GitPositions
<1>2. /\ \A s \in GitPositions : remote[s].origin <= Len(svnLog)
      /\ \A r \in SvnPositions : svnLog[r].origin <= Len(remote)
  BY <1>1 DEF IInv, CopiesOK, GitCopyOK, SvnCopyOK, SvnPositions, GitPositions
<1> QED BY <1>1, <1>2 DEF UpTo

\* One commit more in a history.
LEMMA UpToAppend ==
    ASSUME NEW log \in Seq(Commit), NEW c \in Commit, NEW i \in Nat,
           UpTo(log, i), c.origin <= i
    PROVE  UpTo(Append(log, c), i)
<1>1. /\ \A j \in 1..Len(log) : Append(log, c)[j] = log[j]
      /\ Append(log, c)[Len(log) + 1] = c
      /\ Len(log) \in Nat
      /\ DOMAIN log = 1..Len(log) /\ DOMAIN Append(log, c) = 1..(Len(log) + 1)
  BY AppendKeeps
<1>2. 1..(Len(log) + 1) = 1..Len(log) \cup {Len(log) + 1}
  BY <1>1
<1> QED BY <1>1, <1>2 DEF UpTo

\* Whatever is asked of a commit depends on the histories and the database.
LEMMA OrderSame ==
    ASSUME UNCHANGED <<svnLog, remote>>
    PROVE  /\ SvnPositions' = SvnPositions /\ GitPositions' = GitPositions
           /\ \A s : Recent(s)' = Recent(s)
           /\ \A i : UpTo(remote, i)' = UpTo(remote', i)
           /\ \A r : Wanted(r)' = (~svnLog[r].marked /\ ~Covered(r)')
  BY DEF SvnPositions, GitPositions, Recent, Wanted

\* Steps inside a cycle that write neither history nor watermarks.
LEMMA OrderMoves ==
    ASSUME IInv, OnceInv, OrderInv,
           \/ ResolveConflict
           \/ StartCycle
           \/ CommandError
           \/ PushRejected
           \/ SvnCommitRefused
           \/ FinishCycle
           \/ RevisionsApplied
           \/ DetectConflicts
           \/ ApplyRevision
           \/ PrepareWorkingCopy
           \/ FetchGit
    PROVE  OrderInv'
<1> USE DEF RecordingRevision, RecordingCommit, Copying, Applying, Goto
<1>1. UNCHANGED <<svnLog, remote, wmRev, wmSha, kvRev, kvSha, records, resets>>
  BY DEF ResolveConflict, StartCycle, CommandError, PushRejected,
         SvnCommitRefused, FinishCycle, RevisionsApplied, DetectConflicts,
         ApplyRevision, PrepareWorkingCopy, FetchGit, servers, row, kv, db,
         bounds
<1>2. /\ SvnPositions' = SvnPositions /\ GitPositions' = GitPositions
      /\ \A s : Recent(s)' = Recent(s)
      /\ \A r : Wanted(r)' = Wanted(r)
      /\ SinceSha' = SinceSha
  BY <1>1, OrderSame, WatermarksSame DEF Wanted
<1>3. MessagesShown' /\ resets' = 0
  BY <1>1 DEF OrderInv, MessagesShown
<1>4. /\ SvnPositions \subseteq Nat \ {0} /\ GitPositions \subseteq Nat \ {0}
      /\ svnTodo \subseteq SvnPositions /\ gitTodo \subseteq GitPositions
  BY OrderTypes
<1>5. CASE pc' = "idle" \/ pc' = "fetch_svn"
  BY <1>1, <1>2, <1>3, <1>5
     DEF OrderInv, RevisionsInOrder, CommitsInOrder, ShasInOrder
<1>6. CASE UNCHANGED <<pc, svnTodo, gitTodo, cur, out>>
  <2>1. InHand' = InHand
    BY <1>6 DEF InHand
  <2> QED BY <1>1, <1>2, <1>3, <1>6, <2>1
          DEF OrderInv, RevisionsInOrder, CommitsInOrder, ShasInOrder
<1>7. CASE RevisionsApplied \/ DetectConflicts
  <2>1. /\ \/ pc = "svn_to_git" /\ pc' = "git_to_svn"
           \/ pc = "detect" /\ pc' = "svn_to_git"
        /\ UNCHANGED <<svnTodo, gitTodo, cur, out>>
    BY <1>7 DEF RevisionsApplied, DetectConflicts
  <2>2. InHand' = InHand
    BY <2>1 DEF InHand
  <2> QED BY <1>1, <1>2, <1>3, <2>1, <2>2
          DEF OrderInv, RevisionsInOrder, CommitsInOrder, ShasInOrder
<1>8. CASE ApplyRevision
  <2>1. /\ pc = "svn_to_git" /\ pc' = "push" /\ UNCHANGED <<gitTodo, out>>
        /\ cur' \in svnTodo /\ \A t \in svnTodo : cur' <= t
        /\ svnTodo' = svnTodo \ {cur'}
    BY <1>8 DEF ApplyRevision, IsOldest
  <2>2. InHand' = InHand
    BY <2>1 DEF InHand
  <2>3. RevisionsInOrder'
    BY <1>1, <1>2, <1>4, <2>1 DEF OrderInv, RevisionsInOrder
  <2>4. CommitsInOrder' /\ ShasInOrder'
    BY <1>1, <1>2, <2>1, <2>2 DEF OrderInv, CommitsInOrder, ShasInOrder
  <2> QED BY <1>3, <2>3, <2>4 DEF OrderInv
<1>9. CASE PrepareWorkingCopy
  <2>1. /\ pc = "git_to_svn" /\ pc' \in {"skip_kv", "svn_commit"}
        /\ cur' \in gitTodo /\ gitTodo' = gitTodo \ {cur'}
        /\ UNCHANGED svnTodo
    BY <1>9 DEF PrepareWorkingCopy
  <2>2. InHand' = InHand
    BY <2>1 DEF InHand
  <2> QED BY <1>1, <1>2, <1>3, <2>1, <2>2
          DEF OrderInv, RevisionsInOrder, CommitsInOrder, ShasInOrder
<1>10. CASE FetchGit
  <2>1. /\ pc = "fetch_git" /\ pc' = "detect" /\ UNCHANGED <<svnTodo, cur, out>>
        /\ gitTodo' = {s \in CommitsSince(SinceSha) : ~IsEcho(remote[s])}
    BY <1>10 DEF FetchGit
  <2>2. InHand' = gitTodo'
    BY <2>1 DEF InHand
  <2>3. wmSha # UnknownSha /\ kvSha # UnknownSha
    BY DEF OrderInv, ShasInOrder
  <2>4. /\ SinceSha \in Nat /\ SinceSha <= Len(remote)
        /\ Len(remote) \in Nat /\ GitFetchCap \in Nat
    <3>1. records # <<>> => records[Len(records)].sha \in Nat
      <4>1. records \in Seq(Record)
        BY DEF IInv, TypeOK
      <4>2. records # <<>> => records[Len(records)] \in Record
        BY <4>1
      <4> QED BY <4>2 DEF Record
    <3> QED BY <2>3, <3>1, OrderTypes, SinceShaType, TeamSyncAssumption
            DEF SinceSha
  <2>5. gitTodo' = {s \in GitPositions : Recent(s) /\ SinceSha < s}
    BY <2>1, <2>4 DEF CommitsSince, IsEcho, Recent, GitPositions
  <2>6. RevisionsInOrder'
    BY <1>1, <1>2, <2>1 DEF OrderInv, RevisionsInOrder
  <2>7. CommitsInOrder'
    <3>1. \A s \in GitPositions, t \in gitTodo' : t < s => SinceSha < s
      BY <1>4, <2>4, <2>5
    <3>2. \A s \in GitPositions : Recent(s) /\ SinceSha < s => UpTo(svnLog, s)
      BY DEF OrderInv, CommitsInOrder
    <3> QED BY <1>1, <1>2, <2>1, <2>2, <2>5, <3>1, <3>2 DEF CommitsInOrder
  <2>8. ShasInOrder'
    <3>1. wmSha # 0 => wmSha = SinceSha
      BY DEF SinceSha
    <3>2. wmRev = 0 /\ wmSha # 0 => wmSha <= kvSha
      BY DEF OrderInv, ShasInOrder
    <3>3. wmSha # 0 => \A t \in gitTodo' : wmSha <= t
      BY <1>4, <2>4, <2>5, <3>1
    <3> QED BY <1>1, <2>1, <2>2, <2>3, <3>2, <3>3 DEF ShasInOrder
  <2> QED BY <1>3, <2>6, <2>7, <2>8 DEF OrderInv
<1>11. \/ pc' = "idle" \/ pc' = "fetch_svn"
       \/ UNCHANGED <<pc, svnTodo, gitTodo, cur, out>>
       \/ RevisionsApplied \/ DetectConflicts \/ ApplyRevision
       \/ PrepareWorkingCopy \/ FetchGit
  BY DEF ResolveConflict, StartCycle, CommandError, PushRejected,
         SvnCommitRefused, FinishCycle, Abort, ForgetCycle, memory
<1> QED BY <1>5, <1>6, <1>7, <1>8, <1>9, <1>10, <1>11

\* A crash forgets the cycle; the row it may rebuild covers what kv_state
\* covered, and its SHA is no older.
LEMMA OrderCrash ==
    ASSUME IInv, OnceInv, OrderInv, Crash
    PROVE  OrderInv'
<1>1. /\ UNCHANGED <<svnLog, remote, kvRev, kvSha, records, resets>>
      /\ pc' = "idle" /\ RecoverRow(wmRev, wmSha, kvRev, kvSha)
  BY DEF Crash, ForgetCycle, servers, kv
<1>2. /\ wmRev \in Nat /\ kvRev \in Nat /\ SinceSha \in Int
      /\ wmSha \in Nat /\ kvSha \in Nat
      /\ wmRev = 0 /\ wmSha # 0 => wmSha <= kvSha
  BY OrderTypes DEF OrderInv, ShasInOrder
<1>3. \/ UNCHANGED <<wmRev, wmSha>>
      \/ wmRev = 0 /\ kvRev > 0 /\ wmRev' = kvRev /\ wmSha' = kvSha
  BY <1>1, NothingDetected DEF RecoverRow, OrderInv
<1>4. \A r : Covered(r)' = Covered(r)
  <2>1. CASE UNCHANGED <<wmRev, wmSha>>
    BY <1>1, <2>1 DEF Covered
  <2>2. CASE wmRev = 0 /\ kvRev > 0 /\ wmRev' = kvRev
    BY <1>1, <2>2 DEF Covered
  <2> QED BY <1>3, <2>1, <2>2
<1>5. SinceSha' \in Int /\ SinceSha <= SinceSha'
  <2>1. CASE UNCHANGED <<wmRev, wmSha>>
    <3>1. SinceSha' = SinceSha
      BY <1>1, <2>1 DEF SinceSha
    <3> QED BY <1>2, <3>1
  <2>2. CASE wmRev = 0 /\ wmSha' = kvSha
    <3>1. CASE kvSha = 0
      <4>1. wmSha = 0
        BY <1>2, <2>2, <3>1
      <4>2. SinceSha' = SinceSha
        BY <1>1, <2>2, <3>1, <4>1 DEF SinceSha
      <4> QED BY <1>2, <4>2
    <3>2. CASE kvSha # 0
      <4>1. SinceSha' = kvSha /\ SinceSha \in {wmSha, kvSha}
        BY <1>1, <2>2, <3>2 DEF SinceSha
      <4>2. wmSha <= kvSha
        BY <1>2, <2>2
      <4> QED BY <1>2, <4>1, <4>2
    <3> QED BY <3>1, <3>2
  <2> QED BY <1>3, <2>1, <2>2
<1>6. /\ SvnPositions' = SvnPositions /\ GitPositions' = GitPositions
      /\ \A s : Recent(s)' = Recent(s)
      /\ \A r : Wanted(r)' = Wanted(r)
  BY <1>1, <1>4, OrderSame DEF Wanted
<1>7. RevisionsInOrder'
  BY <1>1, <1>6 DEF OrderInv, RevisionsInOrder, RecordingRevision
<1>8. CommitsInOrder'
  <2>1. \A s \in GitPositions : SinceSha' < s => SinceSha < s
    BY <1>2, <1>5, OrderTypes
  <2> QED BY <1>1, <1>6, <2>1
          DEF OrderInv, CommitsInOrder, Applying, RecordingRevision, Copying,
              RecordingCommit
<1>9. ShasInOrder'
  BY <1>1, <1>2, <1>3 DEF OrderInv, ShasInOrder, Applying, RecordingRevision,
     Copying, RecordingCommit, UnknownSha
<1> QED BY <1>1, <1>7, <1>8, <1>9 DEF OrderInv, MessagesShown

\* A cycle takes everything that is not under the watermark.
LEMMA OrderFetchSvn ==
    ASSUME IInv, OnceInv, OrderInv, FetchSvn
    PROVE  OrderInv'
<1>1. PICK stored \in StoredRev, d \in DetectedRev :
        LET last == IF stored = 0 THEN d ELSE stored IN
        /\ svnTodo' = NewRevisions(last)
        /\ IF stored = 0 /\ d > 0
           THEN kvRev' = d /\ wmRev' = d /\ wmSha' = 0
           ELSE UNCHANGED <<kvRev, wmRev, wmSha>>
  BY DEF FetchSvn
<1>2. d = 0 /\ stored \in Nat /\ Len(svnLog) \in Nat
  BY NothingDetected, StoredRevType, OrderTypes DEF OrderInv, IInv
<1>3. /\ UNCHANGED <<svnLog, remote, wmRev, wmSha, kvRev, kvSha, records,
                     resets, gitTodo, cur, out>>
      /\ pc' = "fetch_git"
      /\ svnTodo' = NewRevisions(stored)
  BY <1>1, <1>2 DEF FetchSvn, servers, bounds, Goto
<1>4. /\ SvnPositions' = SvnPositions /\ GitPositions' = GitPositions
      /\ \A s : Recent(s)' = Recent(s)
      /\ \A r : Wanted(r)' = Wanted(r)
      /\ SinceSha' = SinceSha
  BY <1>3, OrderSame, WatermarksSame DEF Wanted
<1>5. \A r \in SvnPositions : Wanted(r) => r \in svnTodo'
  <2> SUFFICES ASSUME NEW r \in SvnPositions, Wanted(r) PROVE r \in svnTodo'
    OBVIOUS
  <2>1. r \in Nat \ {0} /\ r \in 1..Len(svnLog)
    BY OrderTypes DEF SvnPositions
  <2>2. ~(r <= stored)
    BY <2>1, StoredCovers DEF Wanted
  <2> QED BY <1>2, <1>3, <2>1, <2>2 DEF NewRevisions, IsEcho, Wanted
<1>6. RevisionsInOrder'
  BY <1>3, <1>4, <1>5 DEF OrderInv, RevisionsInOrder, RecordingRevision
<1>7. CommitsInOrder' /\ ShasInOrder'
  BY <1>3, <1>4 DEF OrderInv, CommitsInOrder, ShasInOrder, Applying,
     RecordingRevision, Copying, RecordingCommit
<1> QED BY <1>3, <1>6, <1>7 DEF OrderInv, MessagesShown

\* The bookkeeping of a revision: whatever of it is written, the revision
\* watermark does not fall, and the SHA stays or becomes the commit pushed.
LEMMA OrderRevision ==
    ASSUME IInv, OnceInv, OrderInv, UNCHANGED <<svnLog, remote, resets>>,
           UNCHANGED <<svnTodo, gitTodo>>,
           pc \in RecordingRevision, SinceSha' \in {SinceSha, out},
           \A r \in SvnPositions : Covered(r) => Covered(r)',
           \/ pc' \in RecordingRevision /\ UNCHANGED <<cur, out>>
           \/ /\ pc' = "svn_to_git"
              /\ \A r \in SvnPositions : r = cur => Covered(r)'
    PROVE  /\ MessagesShown' /\ resets' = 0
           /\ RevisionsInOrder' /\ CommitsInOrder'
<1> USE DEF RecordingRevision
<1>1. /\ SvnPositions' = SvnPositions /\ GitPositions' = GitPositions
      /\ \A s : Recent(s)' = Recent(s)
      /\ \A r \in SvnPositions : Wanted(r)' => Wanted(r)
  BY OrderSame DEF Wanted
<1>2. InHand' = InHand
  BY DEF InHand, Copying, RecordingCommit
<1>3. /\ pc \in Applying /\ pc' \in Applying
      /\ SvnPositions \subseteq Nat \ {0} /\ GitPositions \subseteq Nat \ {0}
      /\ InHand \subseteq GitPositions /\ out \in Nat
      /\ \A s \in GitPositions : s \in Nat
      /\ InHand = gitTodo
  BY OrderTypes DEF Applying, InHand, Copying, RecordingCommit
<1>4. RevisionsInOrder'
  <2>1. pc' = "svn_to_git" => \A r \in SvnPositions : Wanted(r)' => r # cur
    BY DEF Wanted
  <2> QED BY <1>1, <2>1 DEF OrderInv, RevisionsInOrder
<1>5. UpTo(svnLog, out) /\ \A t \in gitTodo : t < out
  BY DEF OrderInv, CommitsInOrder
<1>6. \A s \in GitPositions : out < s => UpTo(svnLog, s)
  BY <1>3, <1>5, UpToLater DEF IInv, TypeOK
<1>7. \A s \in GitPositions : out < s => \A t \in InHand : t < s
  BY <1>3, <1>5
<1>8. CommitsInOrder'
  <2>1. \A s \in GitPositions : Recent(s) /\ SinceSha' < s => UpTo(svnLog, s)
    BY <1>6 DEF OrderInv, CommitsInOrder
  <2>2. \A t \in InHand : UpTo(svnLog, t)
    BY <1>3 DEF OrderInv, CommitsInOrder
  <2>3. \A s \in GitPositions :
          Recent(s) /\ (SinceSha' < s \/ \E t \in InHand : t < s) =>
            s \in InHand \/ \A t \in InHand : t < s
    BY <1>3, <1>7 DEF OrderInv, CommitsInOrder
  <2> QED BY <1>1, <1>2, <1>5, <2>1, <2>2, <2>3 DEF CommitsInOrder
<1> QED BY <1>4, <1>8 DEF OrderInv, MessagesShown

\* The bookkeeping of a commit: the revision watermark does not fall, and
\* the SHA stays or becomes the commit in hand, and does so before the next.
LEMMA OrderCommit ==
    ASSUME IInv, OnceInv, OrderInv, UNCHANGED <<svnLog, remote, resets>>,
           UNCHANGED <<svnTodo, gitTodo>>,
           pc \in Copying, SinceSha' \in {SinceSha, cur},
           \A r \in SvnPositions : Covered(r) => Covered(r)',
           \/ pc' \in Copying /\ UNCHANGED cur
           \/ pc' = "git_to_svn" /\ SinceSha' = cur
    PROVE  /\ MessagesShown' /\ resets' = 0
           /\ RevisionsInOrder' /\ CommitsInOrder'
           /\ InHand' \subseteq InHand /\ pc \in Applying
<1> USE DEF Copying, RecordingCommit
<1>1. /\ SvnPositions' = SvnPositions /\ GitPositions' = GitPositions
      /\ \A s : Recent(s)' = Recent(s)
      /\ \A r \in SvnPositions : Wanted(r)' => Wanted(r)
  BY OrderSame DEF Wanted
<1>2. /\ InHand = gitTodo \cup {cur}
      /\ InHand' = gitTodo \cup {cur} \/ (InHand' = gitTodo /\ SinceSha' = cur)
  BY DEF InHand
<1>3. /\ pc \in Applying /\ pc' \in Applying
      /\ GitPositions \subseteq Nat \ {0} /\ cur \in GitPositions
      /\ InHand \subseteq GitPositions
      /\ \A t \in gitTodo : cur < t
  BY OrderTypes DEF Applying, OnceInv, CommitsAhead
<1>4. RevisionsInOrder'
  BY <1>1 DEF OrderInv, RevisionsInOrder, RecordingRevision
<1>5. \A t \in InHand : UpTo(svnLog, t)
  BY <1>3 DEF OrderInv, CommitsInOrder
<1>6. \A s \in GitPositions : cur < s => UpTo(svnLog, s)
  BY <1>2, <1>3, <1>5, UpToLater DEF IInv, TypeOK
<1>7. \A s \in GitPositions :
        Recent(s) /\ (SinceSha < s \/ \E t \in InHand : t < s) =>
          s \in InHand \/ \A t \in InHand : t < s
  BY <1>3 DEF OrderInv, CommitsInOrder
<1>8. \A s \in GitPositions : Recent(s) /\ SinceSha' < s => UpTo(svnLog, s)
  BY <1>6 DEF OrderInv, CommitsInOrder
<1>9. \A s \in GitPositions :
        Recent(s) /\ (SinceSha' < s \/ \E t \in InHand' : t < s) =>
          s \in InHand' \/ \A t \in InHand' : t < s
  <2>1. CASE InHand' = InHand
    BY <1>2, <1>7, <2>1
  <2>2. CASE InHand' = gitTodo /\ SinceSha' = cur
    <3> SUFFICES ASSUME NEW s \in GitPositions, Recent(s),
                        cur < s \/ \E t \in gitTodo : t < s
                 PROVE  s \in gitTodo \/ \A t \in gitTodo : t < s
      BY <2>2
    <3>1. s \in Nat /\ cur \in Nat /\ gitTodo \subseteq Nat
      BY <1>2, <1>3
    <3>2. cur < s
      BY <1>3, <3>1
    <3> QED BY <1>2, <1>7, <3>1, <3>2
  <2> QED BY <1>2, <2>1, <2>2
<1>10. CommitsInOrder'
  BY <1>1, <1>2, <1>5, <1>8, <1>9 DEF CommitsInOrder, RecordingRevision
<1> QED BY <1>2, <1>3, <1>4, <1>10 DEF OrderInv, MessagesShown

\* The sync records; they can be written.
LEMMA OrderRecords ==
    ASSUME BookkeepingKept, IInv, OnceInv, OrderInv,
           RecordRevision \/ RecordCommit
    PROVE  OrderInv'
<1> USE DEF Goto
<1> DEFINE revision == [dir |-> "svn_to_git", rev |-> cur, sha |-> out]
           commit == [dir |-> "git_to_svn", rev |-> out, sha |-> cur]
<1>1. ~CanFail("db_error")
  BY DEF BookkeepingKept, CanFail
<1>2. /\ UNCHANGED <<svnLog, remote, wmRev, wmSha, kvRev, kvSha, resets>>
      /\ UNCHANGED <<svnTodo, gitTodo, cur, out>>
      /\ \/ pc = "s2g_record" /\ pc' = "s2g_kv" /\ records' = Append(records, revision)
         \/ pc = "g2s_record" /\ pc' = "g2s_kv" /\ records' = Append(records, commit)
  BY <1>1 DEF RecordRevision, RecordCommit, WriteRecord, servers, row, kv
<1>3. /\ records \in Seq(Record)
      /\ revision.sha = out /\ commit.sha = cur
  BY DEF IInv, TypeOK
<1>4. /\ Len(records') = Len(records) + 1 /\ Len(records) \in Nat
      /\ DOMAIN records = 1..Len(records)
      /\ DOMAIN records' = 1..(Len(records) + 1)
      /\ \A i \in DOMAIN records : records'[i] = records[i]
      /\ records' # <<>>
      /\ records'[Len(records')] = (IF pc = "s2g_record" THEN revision ELSE commit)
  BY <1>2, <1>3
<1>5. \A r \in SvnPositions : Covered(r) => Covered(r)'
  BY <1>2, <1>4 DEF Covered
<1>6. SinceSha' \in {SinceSha, IF pc = "s2g_record" THEN out ELSE cur}
  BY <1>2, <1>3, <1>4 DEF SinceSha
<1>7. CASE pc = "s2g_record"
  <2>1. /\ pc \in RecordingRevision /\ pc' \in RecordingRevision
        /\ SinceSha' \in {SinceSha, out}
    BY <1>2, <1>6, <1>7 DEF RecordingRevision
  <2>2. MessagesShown' /\ resets' = 0 /\ RevisionsInOrder' /\ CommitsInOrder'
    BY <1>2, <1>5, <2>1, OrderRevision
  <2>3. InHand' = InHand /\ pc \in Applying
    BY <1>2, <1>7 DEF InHand, Applying, RecordingRevision, Copying, RecordingCommit
  <2>4. ShasInOrder'
    BY <1>2, <1>7, <2>3 DEF OrderInv, ShasInOrder
  <2> QED BY <2>2, <2>4 DEF OrderInv
<1>8. CASE pc = "g2s_record"
  <2>1. /\ pc \in Copying /\ pc' \in Copying /\ SinceSha' \in {SinceSha, cur}
    BY <1>2, <1>6, <1>8 DEF Copying, RecordingCommit
  <2>2. /\ MessagesShown' /\ resets' = 0 /\ RevisionsInOrder' /\ CommitsInOrder'
        /\ InHand' \subseteq InHand /\ pc \in Applying
    BY <1>2, <1>5, <2>1, OrderCommit
  <2>3. ShasInOrder'
    BY <1>2, <1>8, <2>2 DEF OrderInv, ShasInOrder
  <2> QED BY <2>2, <2>3 DEF OrderInv
<1> QED BY <1>2, <1>7, <1>8

\* The watermarks; they can be written too.
LEMMA OrderWatermarks ==
    ASSUME BookkeepingKept, IInv, OnceInv, OrderInv,
           \/ SaveRevisionKey
           \/ SaveRevisionRow
           \/ SkipKey
           \/ SkipRow
           \/ SaveCommitKey
           \/ SaveCommitRow
    PROVE  OrderInv'
<1> USE DEF Goto, WriteIgnoringErrors, row
<1>1. ~CanFail("db_error")
  BY DEF BookkeepingKept, CanFail
<1>2. UNCHANGED <<svnLog, remote, records, resets, svnTodo, gitTodo>>
  BY DEF SaveRevisionKey, SaveRevisionRow, SkipKey, SkipRow, SaveCommitKey,
         SaveCommitRow, servers, kv
<1>3. /\ wmRev \in Nat /\ kvRev \in Nat /\ cur \in Nat /\ out \in Nat
      /\ wmSha \in Nat /\ kvSha \in Nat
      /\ SvnPositions \subseteq Nat \ {0} /\ GitPositions \subseteq Nat \ {0}
      /\ gitTodo \subseteq GitPositions /\ InHand \subseteq GitPositions
      /\ wmRev = 0 /\ wmSha # 0 => wmSha <= kvSha
  BY OrderTypes DEF OrderInv, ShasInOrder
<1>4. pc \in Applying => (wmRev = 0 /\ wmSha # 0 => \A t \in InHand : wmSha <= t)
  BY DEF OrderInv, ShasInOrder
<1>5. CASE SaveRevisionKey
  <2>1. /\ pc = "s2g_kv" /\ pc' = "s2g_row"
        /\ UNCHANGED <<wmRev, wmSha, kvSha, cur, out>> /\ kvRev' = cur
    BY <1>1, <1>5 DEF SaveRevisionKey
  <2>2. pc \in RecordingRevision /\ pc' \in RecordingRevision /\ pc \in Applying
    BY <2>1 DEF RecordingRevision, Applying
  <2>3. SinceSha' = SinceSha
    BY <1>2, <2>1 DEF SinceSha
  <2>4. cur \in SvnPositions /\ \A r \in Nat : Covered(r) => r <= cur
    BY <2>1 DEF IInv, PhaseOK, OnceInv, RevisionsAhead
  <2>5. \A r \in SvnPositions : Covered(r) => Covered(r)'
    BY <1>3, <2>1, <2>4 DEF Covered
  <2>6. MessagesShown' /\ resets' = 0 /\ RevisionsInOrder' /\ CommitsInOrder'
    BY <1>2, <2>1, <2>2, <2>3, <2>5, OrderRevision
  <2>7. InHand' = InHand
    BY <1>2, <2>1 DEF InHand, Copying, RecordingCommit
  <2>8. ShasInOrder'
    BY <1>2, <2>1, <2>2, <2>7 DEF OrderInv, ShasInOrder
  <2> QED BY <2>6, <2>8 DEF OrderInv
<1>6. CASE SaveRevisionRow
  <2>1. /\ pc = "s2g_row" /\ pc' = "svn_to_git" /\ UNCHANGED <<kvRev, kvSha>>
        /\ wmRev' = cur /\ wmSha' = out
    BY <1>1, <1>6 DEF SaveRevisionRow, kv
  <2>2. pc \in RecordingRevision
    BY <2>1 DEF RecordingRevision
  <2>3. cur \in SvnPositions /\ out \in GitPositions
        /\ \A r \in Nat : Covered(r) => r <= cur
    BY <2>1 DEF IInv, PhaseOK, OnceInv, RevisionsAhead
  <2>4. SinceSha' = out
    BY <1>3, <2>1, <2>3 DEF SinceSha
  <2>5. \A r \in Nat : Covered(r)' <=> r <= cur
    BY <1>3, <2>1, <2>3 DEF Covered
  <2>6. MessagesShown' /\ resets' = 0 /\ RevisionsInOrder' /\ CommitsInOrder'
    BY <1>2, <1>3, <2>1, <2>2, <2>3, <2>4, <2>5, OrderRevision
  <2>7. ShasInOrder'
    BY <1>3, <2>1, <2>3 DEF OrderInv, ShasInOrder, UnknownSha
  <2> QED BY <2>6, <2>7 DEF OrderInv
<1>7. CASE SkipKey \/ SaveCommitKey
  <2>1. /\ \/ pc = "skip_kv" /\ pc' = "skip_row"
           \/ pc = "g2s_kv" /\ pc' = "g2s_row"
        /\ UNCHANGED <<wmRev, wmSha, kvRev, cur, out>> /\ kvSha' = cur
    BY <1>1, <1>7 DEF SkipKey, SaveCommitKey
  <2>2. pc \in Copying /\ pc' \in Copying
    BY <2>1 DEF Copying, RecordingCommit
  <2>3. cur \in GitPositions /\ cur \in InHand /\ InHand' = InHand
    BY <1>2, <2>1, <2>2, OrderTypes DEF InHand
  <2>4. SinceSha' \in {SinceSha, cur}
    BY <1>2, <1>3, <2>1, <2>3 DEF SinceSha
  <2>5. \A r : Covered(r)' = Covered(r)
    BY <1>2, <2>1 DEF Covered
  <2>6. /\ MessagesShown' /\ resets' = 0 /\ RevisionsInOrder' /\ CommitsInOrder'
        /\ pc \in Applying
    BY <1>2, <2>1, <2>2, <2>4, <2>5, OrderCommit
  <2>7. ShasInOrder'
    BY <1>3, <1>4, <2>1, <2>3, <2>6 DEF OrderInv, ShasInOrder, UnknownSha
  <2> QED BY <2>6, <2>7 DEF OrderInv
<1>8. CASE SkipRow
  <2>1. /\ pc = "skip_row" /\ pc' = "git_to_svn" /\ UNCHANGED <<kvRev, kvSha>>
        /\ wmRev' = wmRev /\ wmSha' = cur
    BY <1>1, <1>8 DEF SkipRow, kv
  <2>2. pc \in Copying
    BY <2>1 DEF Copying
  <2>3. cur \in GitPositions /\ \A t \in gitTodo : cur < t
    BY <2>2, OrderTypes DEF OnceInv, CommitsAhead
  <2>4. SinceSha' = cur
    BY <1>3, <2>1, <2>3 DEF SinceSha
  <2>5. \A r : Covered(r)' = Covered(r)
    BY <1>2, <2>1 DEF Covered
  <2>6. /\ MessagesShown' /\ resets' = 0 /\ RevisionsInOrder' /\ CommitsInOrder'
        /\ pc \in Applying
    BY <1>2, <2>1, <2>2, <2>4, <2>5, OrderCommit
  <2>7. InHand' = gitTodo /\ kvSha = cur
    BY <1>2, <2>1 DEF InHand, Copying, RecordingCommit, OrderInv, ShasInOrder
  <2>8. \A t \in gitTodo : cur <= t
    BY <1>3, <2>3
  <2>9. cur <= kvSha
    BY <1>3, <2>7
  <2>10. ShasInOrder'
    BY <1>3, <2>1, <2>7, <2>8, <2>9 DEF OrderInv, ShasInOrder, UnknownSha
  <2> QED BY <2>6, <2>10 DEF OrderInv
<1>9. CASE SaveCommitRow
  <2>1. /\ pc = "g2s_row" /\ pc' = "git_to_svn" /\ UNCHANGED <<kvRev, kvSha>>
        /\ wmRev' = out /\ wmSha' = cur
    BY <1>1, <1>9 DEF SaveCommitRow, kv
  <2>2. pc \in Copying
    BY <2>1 DEF Copying, RecordingCommit
  <2>3. /\ cur \in GitPositions /\ out \in SvnPositions
        /\ \A r \in Nat : Covered(r) => r <= out
    BY <2>1 DEF IInv, PhaseOK, OnceInv, RevisionsAhead, RecordingCommit
  <2>4. SinceSha' = cur
    BY <1>3, <2>1, <2>3 DEF SinceSha
  <2>5. \A r \in SvnPositions : Covered(r) => Covered(r)'
    BY <1>3, <2>1, <2>3 DEF Covered
  <2>6. MessagesShown' /\ resets' = 0 /\ RevisionsInOrder' /\ CommitsInOrder'
    BY <1>2, <2>1, <2>2, <2>4, <2>5, OrderCommit
  <2>7. ShasInOrder'
    BY <1>3, <2>1, <2>3 DEF OrderInv, ShasInOrder, UnknownSha
  <2> QED BY <2>6, <2>7 DEF OrderInv
<1> QED BY <1>5, <1>6, <1>7, <1>8, <1>9

\* A commit more at the end of a history: what is asked of the commits there
\* were before does not change, save that the walk back gets less far.
LEMMA OrderGrows ==
    ASSUME IInv, UNCHANGED <<wmRev, wmSha, kvRev, kvSha, records>>,
           NEW c \in Commit
    PROVE  /\ svnLog' = Append(svnLog, c) /\ remote' = remote =>
                /\ SvnPositions' = SvnPositions \cup {Len(svnLog) + 1}
                /\ GitPositions' = GitPositions
                /\ \A s : Recent(s)' = Recent(s)
                /\ \A r \in SvnPositions : Wanted(r)' = Wanted(r)
                /\ \A r : r = Len(svnLog) + 1 => (Wanted(r)' => ~c.marked)
           /\ remote' = Append(remote, c) /\ svnLog' = svnLog =>
                /\ GitPositions' = GitPositions \cup {Len(remote) + 1}
                /\ SvnPositions' = SvnPositions
                /\ \A s \in GitPositions : Recent(s)' => Recent(s)
                /\ \A r : Wanted(r)' = Wanted(r)
                /\ \A s : s = Len(remote) + 1 => (Recent(s)' => ~c.marked)
           /\ \A r : Covered(r)' = Covered(r)
           /\ SinceSha' = SinceSha
<1>1. (\A r : Covered(r)' = Covered(r)) /\ SinceSha' = SinceSha
  BY WatermarksSame
<1>2. ASSUME svnLog' = Append(svnLog, c), remote' = remote
      PROVE  /\ SvnPositions' = SvnPositions \cup {Len(svnLog) + 1}
             /\ GitPositions' = GitPositions
             /\ \A s : Recent(s)' = Recent(s)
             /\ \A r \in SvnPositions : Wanted(r)' = Wanted(r)
             /\ \A r : r = Len(svnLog) + 1 => (Wanted(r)' => ~c.marked)
  <2>1. /\ \A i \in SvnPositions : svnLog'[i] = svnLog[i]
        /\ svnLog'[Len(svnLog) + 1] = c /\ Len(svnLog') = Len(svnLog) + 1
        /\ Len(svnLog) \in Nat
    BY <1>2, AppendKeeps DEF IInv, TypeOK, SvnPositions
  <2>2. /\ SvnPositions' = SvnPositions \cup {Len(svnLog) + 1}
        /\ Len(svnLog') = Len(svnLog) + 1
    BY <1>2, SvnCounts
  <2>3. \A r : Wanted(r)' => ~svnLog'[r].marked
    BY <2>1 DEF Wanted
  <2> QED BY <1>1, <1>2, <2>1, <2>2, <2>3 DEF Wanted, Recent, GitPositions
<1>3. ASSUME remote' = Append(remote, c), svnLog' = svnLog
      PROVE  /\ GitPositions' = GitPositions \cup {Len(remote) + 1}
             /\ SvnPositions' = SvnPositions
             /\ \A s \in GitPositions : Recent(s)' => Recent(s)
             /\ \A r : Wanted(r)' = Wanted(r)
             /\ \A s : s = Len(remote) + 1 => (Recent(s)' => ~c.marked)
  <2>1. /\ \A i \in GitPositions : remote'[i] = remote[i]
        /\ remote'[Len(remote) + 1] = c /\ Len(remote') = Len(remote) + 1
        /\ Len(remote) \in Nat /\ GitFetchCap \in Nat
        /\ GitPositions \subseteq Nat
    BY <1>3, AppendKeeps, TeamSyncAssumption DEF IInv, TypeOK, GitPositions
  <2>2. /\ GitPositions' = GitPositions \cup {Len(remote) + 1}
        /\ Len(remote') = Len(remote) + 1
    BY <1>3, GitCounts
  <2>3. \A s \in GitPositions : Recent(s)' => Recent(s)
    <3>1. \A s \in GitPositions : remote'[s] = remote[s]
      BY <2>1
    <3>2. \A s \in GitPositions :
            s > Len(remote') - GitFetchCap => s > Len(remote) - GitFetchCap
      BY <2>1
    <3> QED BY <3>1, <3>2 DEF Recent
  <2>4. \A s : Recent(s)' => ~remote'[s].marked
    BY DEF Recent
  <2> QED BY <1>1, <1>3, <2>1, <2>2, <2>3, <2>4 DEF Wanted, SvnPositions
<1> QED BY <1>1, <1>2, <1>3

\* A revision in the hands of the engine is wanted, and nothing older is.
LEMMA PushIsNext ==
    ASSUME IInv, OnceInv, OrderInv, pc = "push"
    PROVE  /\ cur \in SvnPositions /\ UpTo(remote, cur)
           /\ \A r \in SvnPositions : Wanted(r) => cur <= r
<1>1. /\ cur \in SvnPositions /\ ~svnLog[cur].marked /\ ~Covered(cur)
      /\ \A t \in svnTodo : cur < t
  BY OrderTypes DEF IInv, PhaseOK, CopiesOK, GitCopyOK, OnceInv, RevisionsAhead
<1>2. SvnPositions \subseteq Nat /\ svnTodo \subseteq SvnPositions
  BY OrderTypes
<1> QED BY <1>1, <1>2 DEF Wanted, OrderInv, RevisionsInOrder

\* The same for a commit of the branch.
LEMMA CommitIsNext ==
    ASSUME IInv, OnceInv, OrderInv, pc = "svn_commit"
    PROVE  /\ cur \in GitPositions /\ UpTo(svnLog, cur)
           /\ \A t \in InHand : cur <= t
           /\ \A s \in GitPositions : Recent(s) /\ SinceSha < s => cur <= s
<1>1. /\ pc \in Copying /\ pc \in Applying
  BY DEF Copying, Applying
<1>2. /\ cur \in GitPositions /\ InHand = gitTodo \cup {cur}
      /\ \A t \in gitTodo : cur < t
  BY <1>1, OrderTypes DEF OnceInv, CommitsAhead, InHand
<1>3. GitPositions \subseteq Nat /\ InHand \subseteq GitPositions
  BY OrderTypes
<1>4. \A t \in InHand : cur <= t
  BY <1>2, <1>3
<1>5. /\ UpTo(svnLog, cur)
      /\ \A s \in GitPositions : Recent(s) /\ SinceSha < s => s \in InHand \/ cur < s
  BY <1>1, <1>2 DEF OrderInv, CommitsInOrder
<1> QED BY <1>2, <1>3, <1>4, <1>5

\* What is published is the oldest that is still to be copied.
LEMMA OrderPublish ==
    ASSUME IInv, IInv', OnceInv, OrderInv,
           \/ Push
           \/ PushUnacknowledged
           \/ CommitToSvn
           \/ SvnCommitUnacknowledged
    PROVE  OrderInv'
<1> USE DEF Goto
<1>1. /\ UNCHANGED <<wmRev, wmSha, kvRev, kvSha, records, resets>>
      /\ resets' = 0
  BY DEF Push, PushUnacknowledged, CommitToSvn, SvnCommitUnacknowledged, db,
         row, kv, bounds, OrderInv
<1>2. /\ SvnPositions \subseteq Nat \ {0} /\ GitPositions \subseteq Nat \ {0}
      /\ Len(svnLog) \in Nat /\ Len(remote) \in Nat /\ SinceSha \in Int
      /\ gitTodo \subseteq GitPositions /\ InHand \subseteq GitPositions
      /\ \A s \in GitPositions : s <= Len(remote)
      /\ svnLog \in Seq(Commit) /\ remote \in Seq(Commit)
  BY OrderTypes DEF IInv, TypeOK
<1>3. CASE Push \/ PushUnacknowledged
  <2>1. pc = "push" /\ svnLog' = svnLog
    BY <1>3 DEF Push, PushUnacknowledged
  <2>2. /\ unpushed \in Commit /\ unpushed.origin = cur
        /\ remote' = Append(remote, unpushed)
    BY <1>3, Published
  <2>3. unpushed.marked
    BY <2>1, <2>2, <1>2, PushIsNext DEF IInv, CopiesOK, GitCopyOK
  <2>4. /\ GitPositions' = GitPositions \cup {Len(remote) + 1}
        /\ SvnPositions' = SvnPositions
        /\ \A s \in GitPositions' : Recent(s)' => s \in GitPositions /\ Recent(s)
        /\ \A r : Wanted(r)' = Wanted(r)
        /\ SinceSha' = SinceSha
    BY <1>1, <2>1, <2>2, <2>3, OrderGrows
  <2>5. \A r \in SvnPositions : Wanted(r) => UpTo(remote', r)
    <3> SUFFICES ASSUME NEW r \in SvnPositions, Wanted(r) PROVE UpTo(remote', r)
      OBVIOUS
    <3>1. UpTo(remote, r) /\ cur <= r /\ r \in Nat
      BY <1>2, <2>1, PushIsNext DEF OrderInv, RevisionsInOrder
    <3>2. unpushed.origin <= r
      BY <2>2, <3>1
    <3> QED BY <1>2, <2>2, <3>1, <3>2, UpToAppend
  <2>6. \A s \in GitPositions' : Recent(s)' /\ SinceSha' < s => UpTo(svnLog', s)
    BY <2>1, <2>4 DEF OrderInv, CommitsInOrder
  <2>7. MessagesShown'
    BY <2>1 DEF OrderInv, MessagesShown
  <2>8. CASE Push
    <3>1. /\ UNCHANGED <<svnTodo, gitTodo, cur>> /\ pc' = "s2g_record"
          /\ out' = Len(remote')
      BY <2>8 DEF Push, bounds
    <3>2. pc \in Applying /\ pc' \in RecordingRevision
      BY <2>1, <3>1 DEF Applying, RecordingRevision
    <3>3. InHand' = InHand
      BY <2>1, <3>1 DEF InHand, Copying, RecordingCommit
    <3>4. RevisionsInOrder'
      BY <2>1, <2>4, <2>5, <3>1, <3>2 DEF OrderInv, RevisionsInOrder
    <3>5. UpTo(svnLog', out') /\ \A t \in gitTodo' : t < out'
      <4>1. UpTo(svnLog', Len(remote'))
        BY <1>2, <2>1, <2>2, UpToTheEnd, UpToLater
      <4>2. Len(remote') = Len(remote) + 1
        BY <2>2, <1>2
      <4>3. \A t \in gitTodo : t < Len(remote) + 1
        BY <1>2
      <4> QED BY <3>1, <4>1, <4>2, <4>3
    <3>6. CommitsInOrder'
      BY <2>1, <2>4, <2>6, <3>2, <3>3, <3>5 DEF OrderInv, CommitsInOrder
    <3>7. ShasInOrder'
      BY <1>1, <3>1, <3>2, <3>3 DEF OrderInv, ShasInOrder
    <3> QED BY <1>1, <2>7, <3>4, <3>6, <3>7 DEF OrderInv
  <2>9. CASE PushUnacknowledged
    <3>1. pc' = "idle"
      BY <2>9 DEF PushUnacknowledged, Abort, ForgetCycle
    <3> QED BY <1>1, <2>4, <2>5, <2>6, <2>7, <3>1
            DEF OrderInv, RevisionsInOrder, CommitsInOrder, ShasInOrder,
                Applying, RecordingRevision, Copying, RecordingCommit
  <2> QED BY <1>3, <2>8, <2>9
<1>4. CASE CommitToSvn \/ SvnCommitUnacknowledged
  <2>1. pc = "svn_commit" /\ remote' = remote
    BY <1>4 DEF CommitToSvn, SvnCommitUnacknowledged
  <2>2. PICK c \in Commit : /\ c.origin = cur /\ ~c.blank
                            /\ svnLog' = Append(svnLog, c)
    BY <1>4, Published
  <2>3. c.marked
    <3>1. Len(svnLog) + 1 \in SvnPositions' /\ svnLog'[Len(svnLog) + 1] = c
      BY <1>2, <2>2, AppendKeeps DEF SvnPositions
    <3>2. cur # 0
      BY <1>2, <2>1, CommitIsNext
    <3>3. \A r \in SvnPositions' : svnLog'[r].origin # 0 => svnLog'[r].marked
      BY DEF IInv, CopiesOK, SvnCopyOK
    <3> QED BY <2>2, <3>1, <3>2, <3>3
  <2>4. /\ SvnPositions' = SvnPositions \cup {Len(svnLog) + 1}
        /\ GitPositions' = GitPositions
        /\ \A r \in SvnPositions' : Wanted(r)' => r \in SvnPositions /\ Wanted(r)
        /\ \A s : Recent(s)' = Recent(s)
        /\ SinceSha' = SinceSha
    BY <1>1, <2>1, <2>2, <2>3, OrderGrows
  <2>5. \A i \in Nat : UpTo(svnLog, i) /\ cur <= i => UpTo(svnLog', i)
    BY <1>2, <2>2, UpToAppend
  <2>6. \A s \in GitPositions' : Recent(s)' /\ SinceSha' < s => UpTo(svnLog', s)
    <3>1. \A s \in GitPositions : Recent(s) /\ SinceSha < s =>
                                    UpTo(svnLog, s) /\ cur <= s
      BY <2>1, CommitIsNext DEF OrderInv, CommitsInOrder
    <3> QED BY <1>2, <2>4, <2>5, <3>1
  <2>7. \A r \in SvnPositions' : Wanted(r)' => UpTo(remote', r)
    BY <2>1, <2>4 DEF OrderInv, RevisionsInOrder
  <2>8. MessagesShown'
    <3>1. \A i \in 1..Len(svnLog) : svnLog'[i] = svnLog[i]
      BY <1>2, <2>2, AppendKeeps
    <3>2. svnLog'[Len(svnLog) + 1] = c
      BY <1>2, <2>2, AppendKeeps
    <3>3. DOMAIN svnLog' = 1..(Len(svnLog) + 1) /\ DOMAIN svnLog = 1..Len(svnLog)
      BY <1>2, <2>2
    <3>4. 1..(Len(svnLog) + 1) = 1..Len(svnLog) \cup {Len(svnLog) + 1}
      BY <1>2
    <3> QED BY <2>2, <3>1, <3>2, <3>3, <3>4 DEF OrderInv, MessagesShown
  <2>9. CASE CommitToSvn
    <3>1. UNCHANGED <<svnTodo, gitTodo, cur>> /\ pc' = "g2s_record"
      BY <2>9 DEF CommitToSvn
    <3>2. pc \in Applying /\ pc' \in Applying
      BY <2>1, <3>1 DEF Applying, Copying, RecordingCommit
    <3>3. InHand' = InHand
      BY <2>1, <3>1 DEF InHand, Copying, RecordingCommit
    <3>4. RevisionsInOrder'
      BY <2>7, <3>1 DEF RevisionsInOrder, RecordingRevision
    <3>5. \A t \in InHand' : UpTo(svnLog', t)
      <4>1. \A t \in InHand : UpTo(svnLog, t) /\ cur <= t
        BY <2>1, <3>2, CommitIsNext DEF OrderInv, CommitsInOrder
      <4> QED BY <1>2, <2>5, <3>3, <4>1
    <3>6. CommitsInOrder'
      BY <2>4, <2>6, <3>1, <3>2, <3>3, <3>5
         DEF OrderInv, CommitsInOrder, RecordingRevision
    <3>7. ShasInOrder'
      BY <1>1, <3>1, <3>2, <3>3 DEF OrderInv, ShasInOrder
    <3> QED BY <1>1, <2>8, <3>4, <3>6, <3>7 DEF OrderInv
  <2>10. CASE SvnCommitUnacknowledged
    <3>1. pc' = "idle"
      BY <2>10 DEF SvnCommitUnacknowledged, Abort, ForgetCycle
    <3> QED BY <1>1, <2>4, <2>6, <2>7, <2>8, <3>1
            DEF OrderInv, RevisionsInOrder, CommitsInOrder, ShasInOrder,
                Applying, RecordingRevision, Copying, RecordingCommit
  <2> QED BY <1>4, <2>9, <2>10
<1> QED BY <1>3, <1>4

\* What users commit is newer than all that was copied or is in hand.
LEMMA OrderUsers ==
    ASSUME BookkeepingKept, IInv, OnceInv, OrderInv,
           UserSvnCommit \/ UserGitPush
    PROVE  OrderInv'
<1> USE DEF db, memory, bounds
<1>1. /\ UNCHANGED <<wmRev, wmSha, kvRev, kvSha, records, pc, svnTodo, gitTodo,
                     cur, out, resets>>
      /\ InHand' = InHand /\ resets' = 0
  BY DEF UserSvnCommit, UserGitPush, InHand, OrderInv
<1>2. /\ SvnPositions \subseteq Nat \ {0} /\ GitPositions \subseteq Nat \ {0}
      /\ Len(svnLog) \in Nat /\ Len(remote) \in Nat /\ out \in Nat
      /\ svnTodo \subseteq SvnPositions /\ InHand \subseteq GitPositions
      /\ \A s \in GitPositions : s <= Len(remote)
      /\ \A r \in SvnPositions : r <= Len(svnLog)
      /\ svnLog \in Seq(Commit) /\ remote \in Seq(Commit)
      /\ UpTo(remote, Len(svnLog)) /\ UpTo(svnLog, Len(remote))
  BY OrderTypes, UpToTheEnd DEF IInv, TypeOK
<1>3. CASE UserSvnCommit
  <2>1. PICK f \in Files, c \in Contents \cup {Absent}, m \in MarkerChoices,
             b \in BlankChoices : svnLog' = UserEdit(svnLog, f, c, m, b)
    BY <1>3 DEF UserSvnCommit
  <2>2. m \in BOOLEAN /\ b = FALSE
    BY TeamSyncAssumption DEF BookkeepingKept
  <2> DEFINE e == [tree |-> [TreeAt(svnLog, Len(svnLog)) EXCEPT ![f] = c],
                   origin |-> 0, marked |-> m, blank |-> b]
  <2>3. e \in Commit /\ e.origin = 0 /\ ~e.blank /\ svnLog' = Append(svnLog, e)
    <3>1. TreeAt(svnLog, Len(svnLog)) \in Tree
      BY <1>2, TreeAtType
    <3>2. [TreeAt(svnLog, Len(svnLog)) EXCEPT ![f] = c] \in Tree
      BY <3>1 DEF Tree
    <3> QED BY <2>1, <2>2, <3>2 DEF Commit, UserEdit
  <2> HIDE DEF e
  <2>4. remote' = remote
    BY <1>3 DEF UserSvnCommit
  <2>5. /\ SvnPositions' = SvnPositions \cup {Len(svnLog) + 1}
        /\ GitPositions' = GitPositions
        /\ \A s : Recent(s)' = Recent(s)
        /\ \A r \in SvnPositions : Wanted(r)' = Wanted(r)
        /\ SinceSha' = SinceSha
    BY <1>1, <2>3, <2>4, OrderGrows
  <2>6. \A i \in Nat : UpTo(svnLog, i) => UpTo(svnLog', i)
    BY <1>2, <2>3, UpToAppend
  <2>7. UpTo(remote, Len(svnLog) + 1)
    BY <1>2, UpToLater
  <2>8. RevisionsInOrder'
    <3>1. \A r \in SvnPositions' : Wanted(r)' => UpTo(remote', r)
      BY <2>4, <2>5, <2>7 DEF OrderInv, RevisionsInOrder
    <3>2. \A t \in SvnPositions : t < Len(svnLog) + 1
      BY ONLY <1>2
    <3>3. pc = "push" => cur \in SvnPositions
      BY PushIsNext
    <3>4. /\ \A t \in svnTodo : t < Len(svnLog) + 1
          /\ pc = "push" => cur < Len(svnLog) + 1
      BY <1>2, <3>2, <3>3
    <3> QED BY <1>1, <2>5, <3>1, <3>4
            DEF OrderInv, RevisionsInOrder, RecordingRevision
  <2>9. CommitsInOrder'
    <3>1. \A s \in GitPositions : UpTo(svnLog, s) => UpTo(svnLog', s)
      BY <1>2, <2>6
    <3>2. UpTo(svnLog, out) => UpTo(svnLog', out)
      BY <1>2, <2>6
    <3>3. \A t \in InHand : UpTo(svnLog, t) => UpTo(svnLog', t)
      BY <1>2, <3>1
    <3> QED BY <1>1, <2>5, <3>1, <3>2, <3>3 DEF OrderInv, CommitsInOrder
  <2>10. ShasInOrder'
    BY <1>1 DEF OrderInv, ShasInOrder
  <2>11. MessagesShown'
    <3>1. \A i \in 1..Len(svnLog) : svnLog'[i] = svnLog[i]
      BY <1>2, <2>3, AppendKeeps
    <3>2. svnLog'[Len(svnLog) + 1] = e
      BY <1>2, <2>3, AppendKeeps
    <3>3. DOMAIN svnLog' = 1..(Len(svnLog) + 1) /\ DOMAIN svnLog = 1..Len(svnLog)
      BY <1>2, <2>3
    <3>4. 1..(Len(svnLog) + 1) = 1..Len(svnLog) \cup {Len(svnLog) + 1}
      BY <1>2
    <3> QED BY <2>3, <3>1, <3>2, <3>3, <3>4 DEF OrderInv, MessagesShown
  <2> QED BY <1>1, <2>8, <2>9, <2>10, <2>11 DEF OrderInv
<1>4. CASE UserGitPush
  <2>1. PICK f \in Files, c \in Contents \cup {Absent}, m \in MarkerChoices :
             remote' = UserEdit(remote, f, c, m, FALSE)
    BY <1>4 DEF UserGitPush
  <2>2. m \in BOOLEAN
    BY TeamSyncAssumption
  <2>3. PICK e \in Commit : e.origin = 0 /\ remote' = Append(remote, e)
    BY <2>1, <2>2, UserEditType DEF IInv, TypeOK
  <2>4. svnLog' = svnLog
    BY <1>4 DEF UserGitPush
  <2>5. /\ GitPositions' = GitPositions \cup {Len(remote) + 1}
        /\ SvnPositions' = SvnPositions
        /\ \A s \in GitPositions : Recent(s)' => Recent(s)
        /\ \A r : Wanted(r)' = Wanted(r)
        /\ SinceSha' = SinceSha
    BY <1>1, <2>3, <2>4, OrderGrows
  <2>6. \A i \in Nat : UpTo(remote, i) => UpTo(remote', i)
    BY <1>2, <2>3, UpToAppend
  <2>7. UpTo(svnLog, Len(remote) + 1)
    BY <1>2, UpToLater
  <2>8. RevisionsInOrder'
    <3>1. \A r \in SvnPositions : UpTo(remote, r) => UpTo(remote', r)
      BY <1>2, <2>6
    <3> QED BY <1>1, <2>5, <3>1 DEF OrderInv, RevisionsInOrder
  <2>9. CommitsInOrder'
    <3>1. \A t \in InHand : t < Len(remote) + 1
      BY <1>2
    <3> QED BY <1>1, <2>4, <2>5, <2>7, <3>1 DEF OrderInv, CommitsInOrder
  <2>10. ShasInOrder'
    BY <1>1 DEF OrderInv, ShasInOrder
  <2> QED BY <1>1, <2>4, <2>8, <2>9, <2>10 DEF OrderInv, MessagesShown
<1> QED BY <1>3, <1>4

\* At the start nothing was copied but what the import recorded.
LEMMA InitOrder == Init => OrderInv
<1> SUFFICES ASSUME Init PROVE OrderInv
  OBVIOUS
<1>1. PICK seeded \in BOOLEAN : InitLogs(seeded)
  BY DEF Init
<1>2. /\ SvnPositions = {1} /\ GitPositions = {1} /\ pc = "idle" /\ resets = 0
      /\ svnLog[1].origin = 0 /\ ~svnLog[1].blank
      /\ DOMAIN svnLog = {1} /\ DOMAIN remote = {1}
      /\ remote[1].origin \in {0, 1} /\ kvSha = 0
      /\ wmRev = wmSha /\ wmSha \in {0, 1}
  BY <1>1 DEF Init, InitLogs, SvnPositions, GitPositions
<1>3. RevisionsInOrder
  BY <1>2 DEF RevisionsInOrder, UpTo, RecordingRevision
<1>4. CommitsInOrder
  BY <1>2 DEF CommitsInOrder, UpTo, RecordingRevision, Applying, Copying,
              RecordingCommit
<1>5. ShasInOrder
  BY <1>2 DEF ShasInOrder, UnknownSha
<1> QED BY <1>2, <1>3, <1>4, <1>5 DEF OrderInv, MessagesShown

\* Every step keeps the order.
LEMMA NextOrder ==
    BookkeepingKept /\ IInv /\ IInv' /\ OnceInv /\ OrderInv /\ [Next]_vars =>
        OrderInv'
<1> SUFFICES ASSUME BookkeepingKept, IInv, IInv', OnceInv, OrderInv, [Next]_vars
             PROVE  OrderInv'
  OBVIOUS
<1>1. CASE Users
  BY <1>1, OrderUsers, OrderMoves DEF Users
<1>2. CASE Environment
  <2>1. ~FreshDb
    BY DEF FreshDb, OrderInv, BookkeepingKept
  <2> QED BY <1>2, <2>1, OrderCrash, OrderMoves, OrderPublish DEF Environment
<1>3. CASE Engine
  <2>1. CASE SvnToGit
    BY <2>1, OrderMoves, OrderPublish, OrderRecords, OrderWatermarks DEF SvnToGit
  <2>2. CASE GitToSvn
    BY <2>2, OrderMoves, OrderPublish, OrderRecords, OrderWatermarks DEF GitToSvn
  <2> QED BY <1>3, <2>1, <2>2, OrderMoves, OrderFetchSvn DEF Engine
<1>4. CASE UNCHANGED vars
  <2>1. /\ UNCHANGED <<svnLog, remote, wmRev, wmSha, kvRev, kvSha, records, pc,
                       svnTodo, gitTodo, cur, out, resets>>
    BY <1>4 DEF vars
  <2>2. /\ SvnPositions' = SvnPositions /\ GitPositions' = GitPositions
        /\ \A s : Recent(s)' = Recent(s)
        /\ \A r : Wanted(r)' = Wanted(r)
        /\ SinceSha' = SinceSha /\ InHand' = InHand
    BY <2>1, OrderSame, WatermarksSame DEF Wanted, InHand
  <2> QED BY <2>1, <2>2 DEF OrderInv, RevisionsInOrder, CommitsInOrder,
             ShasInOrder, MessagesShown
<1> QED BY <1>1, <1>2, <1>3, <1>4 DEF Next

\* The engine publishes at the end of what it published before.
LEMMA OrderedStep ==
    IInv /\ OnceInv /\ OrderInv /\ [Next]_vars =>
        [Promise!OrderedNext]_<<Origins(svnLog), Origins(remote)>>
<1> SUFFICES ASSUME IInv, OnceInv, OrderInv, [Next]_vars
             PROVE  [Promise!OrderedNext]_<<Origins(svnLog), Origins(remote)>>
  OBVIOUS
<1>1. /\ DOMAIN Origins(svnLog) = SvnPositions
      /\ DOMAIN Origins(remote) = GitPositions
      /\ DOMAIN svnLog = SvnPositions /\ DOMAIN remote = GitPositions
      /\ svnLog \in Seq(Commit) /\ remote \in Seq(Commit)
      /\ \A r \in SvnPositions : Origins(svnLog)[r] = svnLog[r].origin
      /\ \A s \in GitPositions : Origins(remote)[s] = remote[s].origin
  BY DEF IInv, TypeOK, Origins, SvnPositions, GitPositions
<1>2. CASE Push \/ PushUnacknowledged
  <2>1. pc = "push" /\ svnLog' = svnLog
    BY <1>2 DEF Push, PushUnacknowledged
  <2>2. cur \in SvnPositions /\ UpTo(remote, cur)
    BY <2>1, PushIsNext
  <2>3. Promise!NoneNewer(Origins(remote), cur)
    BY <1>1, <2>2 DEF UpTo, Promise!NoneNewer
  <2>4. unpushed \in Commit /\ unpushed.origin = cur /\ remote' = Append(remote, unpushed)
    BY <1>2, Published
  <2>5. Origins(svnLog)[cur] = 0
    BY <1>1, <2>1, <2>2, <2>4 DEF IInv, PhaseOK, CopiesOK, GitCopyOK, SvnCopyOK,
       SvnPositions
  <2>6. Promise!CopyToGit(cur)
    BY <1>1, <2>1, <2>4, <2>5, OriginsAppend DEF Promise!CopyToGit
  <2> QED BY <1>1, <2>2, <2>3, <2>6 DEF Promise!OrderedNext
<1>3. CASE CommitToSvn \/ SvnCommitUnacknowledged
  <2>1. pc = "svn_commit" /\ remote' = remote
    BY <1>3 DEF CommitToSvn, SvnCommitUnacknowledged
  <2>2. cur \in GitPositions /\ UpTo(svnLog, cur)
    BY <2>1, CommitIsNext
  <2>3. Promise!NoneNewer(Origins(svnLog), cur)
    BY <1>1, <2>2 DEF UpTo, Promise!NoneNewer
  <2>4. PICK c \in Commit : c.origin = cur /\ svnLog' = Append(svnLog, c)
    BY <1>3, Published
  <2>5. Origins(remote)[cur] = 0
    BY <1>1, <2>1, <2>2 DEF IInv, PhaseOK, CopiesOK, GitCopyOK
  <2>6. Promise!CopyToSvn(cur)
    BY <1>1, <2>1, <2>4, <2>5, OriginsAppend DEF Promise!CopyToSvn
  <2> QED BY <1>1, <2>2, <2>3, <2>6 DEF Promise!OrderedNext
<1>4. CASE ~(Push \/ PushUnacknowledged \/ CommitToSvn \/ SvnCommitUnacknowledged)
  <2>1. CASE UserSvnCommit \/ UserGitPush
    BY <2>1, UsersOnlyAppend DEF Promise!OrderedNext
  <2>2. CASE ~(UserSvnCommit \/ UserGitPush)
    <3>1. UNCHANGED servers
      BY <1>4, <2>2, OthersPublishNothing
    <3> QED BY <3>1 DEF servers
  <2> QED BY <2>1, <2>2
<1> QED BY <1>2, <1>3, <1>4

\* While the database is kept and its writes succeed, the engine copies every
\* commit in the order of the originals: crashes, failed commands, lost
\* answers and users at work can at most make it copy one twice in a row.
THEOREM EngineKeepsTheOrder ==
    ASSUME BookkeepingKept
    PROVE  Spec => ImplementsOrderedReplication
<1>1. Init => OrderInv
  BY InitOrder
<1>2. IInv /\ IInv' /\ OnceInv /\ OrderInv /\ [Next]_vars => OrderInv'
  BY NextOrder
<1>3. IInv /\ OnceInv /\ OrderInv /\ [Next]_vars =>
        [Promise!OrderedNext]_<<Origins(svnLog), Origins(remote)>>
  BY OrderedStep
<1> QED BY RefinementInit, <1>1, <1>2, <1>3, OnceInvariant, PTL
        DEF Spec, ImplementsOrderedReplication, Promise!OrderedSpec

-----------------------------------------------------------------------------
(* Convergence, when users wait, nothing fails and no conflict is resolved. *)

Calm == UsersWait /\ NothingFails /\ MaxResolves = 0

BeforeCycle == pc \in {"idle", "fetch_svn"}

\* The running cycle holds everything that is above a watermark; and before
\* the first cycle has ended the clone is as it was made.
SvnTodoWhole ==
    ~BeforeCycle => \A r \in SvnPositions : Wanted(r) =>
        r \in svnTodo \/ (r = cur /\ pc \in {"push"} \cup RecordingRevision)

GitTodoWhole ==
    ~BeforeFetch => \A s \in GitPositions :
        ~remote[s].marked /\ (s > SinceSha \/ \E t \in InHand : t < s) => s \in InHand

FirstCycle ==
    /\ ~svnLog[1].marked
    /\ BeforeCycle /\ ~Covered(1) => base = 1

TodoWhole == /\ SvnTodoWhole /\ GitTodoWhole /\ FirstCycle
             /\ pc \in RecordingRevision => out = Len(remote)

\* What has yet to be copied, in each direction, and what both sides hold.
SvnLeft == IF BeforeCycle THEN {r \in SvnPositions : Wanted(r)} ELSE svnTodo
GitLeft ==
    IF BeforeFetch THEN {s \in GitPositions : ~remote[s].marked /\ s > SinceSha}
    ELSE gitTodo \cup (IF pc = "svn_commit" THEN {cur} ELSE {})
SvnHead == TreeAt(svnLog, Len(svnLog))
GitHead == IF BeforeFetch THEN TreeAt(remote, Len(remote)) ELSE LocalTree

Changing(log, S, f) == {i \in S : f \in Delta(log, i)}
Newest(log, S, f) == MaxOf(Changing(log, S, f))

\* Have the two lists been compared for conflicts?
Compared == ~BeforeFetch /\ pc # "detect"

\* A side whose changes of a file are not all copied holds the newest of them;
\* when both sides' are not, these agree; and when there are none, both sides
\* hold the same.
FileFollows(f) ==
    /\ \A r \in Newest(svnLog, SvnLeft, f) : svnLog[r].tree[f] = SvnHead[f]
    /\ \A s \in Newest(remote, GitLeft, f) : remote[s].tree[f] = GitHead[f]
    /\ Compared =>
         \A r \in Changing(svnLog, svnTodo, f), s \in Newest(remote, GitLeft, f) :
             svnLog[r].tree[f] = remote[s].tree[f]
    /\ Changing(svnLog, SvnLeft, f) = {} /\ Changing(remote, GitLeft, f) = {} =>
         SvnHead[f] = GitHead[f]

FilesFollow == \A f \in Files \ conflicts : FileFollows(f)

CalmInv ==
    resets = 0 /\ Len(remote) <= GitFetchCap => TodoWhole /\ FilesFollow

\* What can happen while nothing fails and the database is kept.
LEMMA CalmSteps ==
    ASSUME Calm, IInv, UsersSafe, CommitsSafe, [Next]_vars, resets' = 0
    PROVE  /\ resets = 0
           /\ \A kind : ~CanFail(kind)
           /\ \/ UserSvnCommit \/ UserGitPush \/ StartCycle \/ FetchSvn
              \/ FetchGit \/ DetectConflicts \/ ApplyRevision \/ Push
              \/ RecordRevision \/ SaveRevisionKey \/ SaveRevisionRow
              \/ RevisionsApplied \/ PrepareWorkingCopy \/ SkipKey \/ SkipRow
              \/ CommitToSvn \/ RecordCommit \/ SaveCommitKey \/ SaveCommitRow
              \/ FinishCycle \/ UNCHANGED vars
<1>1. ~ResolveConflict
  BY DEF Calm, ResolveConflict, IInv, TypeOK
<1>2. resets \in Nat
  BY DEF IInv, TypeOK
<1>3. ~FreshDb
  <2>1. resets + 1 # 0
    BY <1>2
  <2> QED BY <2>1 DEF FreshDb
<1>4. \/ UserSvnCommit \/ UserGitPush \/ StartCycle \/ FetchSvn
      \/ FetchGit \/ DetectConflicts \/ ApplyRevision \/ Push
      \/ RecordRevision \/ SaveRevisionKey \/ SaveRevisionRow
      \/ RevisionsApplied \/ PrepareWorkingCopy \/ SkipKey \/ SkipRow
      \/ CommitToSvn \/ RecordCommit \/ SaveCommitKey \/ SaveCommitRow
      \/ FinishCycle \/ UNCHANGED vars
  BY <1>1, <1>3, QuietSteps
     DEF Calm, Next, Users, Environment, Engine, SvnToGit, GitToSvn
<1>5. resets' = resets
  <2> USE DEF bounds, vars
  <2>1. CASE UserSvnCommit \/ UserGitPush \/ StartCycle \/ FetchSvn
               \/ FetchGit \/ UNCHANGED vars
    BY <2>1 DEF UserSvnCommit, UserGitPush, StartCycle, FetchSvn, FetchGit
  <2>2. CASE DetectConflicts \/ ApplyRevision \/ Push \/ RecordRevision
               \/ SaveRevisionKey \/ SaveRevisionRow \/ RevisionsApplied
    BY <2>2 DEF DetectConflicts, ApplyRevision, Push, RecordRevision,
       WriteRecord, SaveRevisionKey, SaveRevisionRow, RevisionsApplied
  <2>3. CASE PrepareWorkingCopy \/ SkipKey \/ SkipRow \/ CommitToSvn
               \/ RecordCommit \/ SaveCommitKey \/ SaveCommitRow \/ FinishCycle
    BY <2>3 DEF PrepareWorkingCopy, SkipKey, SkipRow, CommitToSvn,
       RecordCommit, WriteRecord, SaveCommitKey, SaveCommitRow, FinishCycle
  <2> QED BY <1>4, <2>1, <2>2, <2>3
<1> QED BY <1>4, <1>5, QuietSteps DEF Calm

\* What a write of the bookkeeping does to the watermarks when it succeeds:
\* no revision that was under them comes out, and the SHA stays or becomes
\* the commit just pushed or copied, at the latest with the last write.
LEMMA CalmWrites ==
    ASSUME ~CanFail("db_error"), IInv, OnceInv,
           \/ RecordRevision \/ SaveRevisionKey \/ SaveRevisionRow
           \/ SkipKey \/ SkipRow
           \/ RecordCommit \/ SaveCommitKey \/ SaveCommitRow
    PROVE  /\ UNCHANGED <<svnLog, remote, base, unpushed, conflicts, svnTodo, gitTodo>>
           /\ \A r \in SvnPositions : Covered(r) => Covered(r)'
           /\ \/ /\ pc \in RecordingRevision /\ pc' \in RecordingRevision
                 /\ UNCHANGED <<cur, out>> /\ SinceSha' \in {SinceSha, out}
              \/ /\ pc \in RecordingRevision /\ pc' = "svn_to_git"
                 /\ SinceSha' = out
                 /\ \A r \in SvnPositions : r = cur => Covered(r)'
              \/ /\ pc \in Copying \ {"svn_commit"}
                 /\ pc' \in Copying \ {"svn_commit"}
                 /\ UNCHANGED cur /\ SinceSha' \in {SinceSha, cur}
              \/ /\ pc \in Copying \ {"svn_commit"} /\ pc' = "git_to_svn"
                 /\ SinceSha' = cur
<1> USE DEF Goto, WriteIgnoringErrors, row, clone
<1>1. UNCHANGED <<svnLog, remote, base, unpushed, conflicts>>
  BY DEF RecordRevision, RecordCommit, WriteRecord, SaveRevisionKey,
         SaveRevisionRow, SkipKey, SkipRow, SaveCommitKey, SaveCommitRow, servers
<1>2. /\ wmRev \in Nat /\ kvRev \in Nat /\ cur \in Nat /\ out \in Nat
      /\ wmSha \in Int /\ kvSha \in Int
      /\ SvnPositions \subseteq Nat \ {0} /\ GitPositions \subseteq Nat \ {0}
  BY OrderTypes
<1>3. CASE RecordRevision \/ RecordCommit
  <2> DEFINE revision == [dir |-> "svn_to_git", rev |-> cur, sha |-> out]
             commit == [dir |-> "git_to_svn", rev |-> out, sha |-> cur]
  <2>1. /\ UNCHANGED <<wmRev, wmSha, kvRev, kvSha>>
        /\ UNCHANGED <<svnTodo, gitTodo, cur, out>>
        /\ \/ pc = "s2g_record" /\ pc' = "s2g_kv" /\ records' = Append(records, revision)
           \/ pc = "g2s_record" /\ pc' = "g2s_kv" /\ records' = Append(records, commit)
    BY <1>3 DEF RecordRevision, RecordCommit, WriteRecord, kv
  <2>2. /\ records \in Seq(Record)
        /\ revision.sha = out /\ commit.sha = cur
    BY DEF IInv, TypeOK
  <2>3. /\ Len(records') = Len(records) + 1 /\ Len(records) \in Nat
        /\ DOMAIN records = 1..Len(records)
        /\ DOMAIN records' = 1..(Len(records) + 1)
        /\ \A i \in DOMAIN records : records'[i] = records[i]
        /\ records' # <<>>
        /\ records'[Len(records')] = (IF pc = "s2g_record" THEN revision ELSE commit)
    BY <2>1, <2>2
  <2>4. \A r \in SvnPositions : Covered(r) => Covered(r)'
    BY <2>1, <2>3 DEF Covered
  <2>5. SinceSha' \in {SinceSha, IF pc = "s2g_record" THEN out ELSE cur}
    BY <2>1, <2>2, <2>3 DEF SinceSha
  <2> HIDE DEF revision, commit
  <2> QED BY <1>1, <2>1, <2>4, <2>5 DEF RecordingRevision, Copying, RecordingCommit
<1>4. CASE ~RecordRevision /\ ~RecordCommit
  <2>1. UNCHANGED <<records, svnTodo, gitTodo>>
    BY <1>4 DEF SaveRevisionKey, SaveRevisionRow, SkipKey, SkipRow,
       SaveCommitKey, SaveCommitRow
  <2>2. CASE SaveRevisionKey
    <3>1. /\ pc = "s2g_kv" /\ pc' = "s2g_row"
          /\ UNCHANGED <<wmRev, wmSha, kvSha, cur, out>> /\ kvRev' = cur
      BY <2>2 DEF SaveRevisionKey
    <3>2. cur \in SvnPositions /\ \A r \in Nat : Covered(r) => r <= cur
      BY <3>1 DEF IInv, PhaseOK, OnceInv, RevisionsAhead
    <3>3. \A r \in SvnPositions : Covered(r) => Covered(r)'
      BY <1>2, <3>1, <3>2 DEF Covered
    <3>4. SinceSha' = SinceSha
      BY <2>1, <3>1 DEF SinceSha
    <3> QED BY <1>1, <2>1, <3>1, <3>3, <3>4 DEF RecordingRevision
  <2>3. CASE SaveRevisionRow
    <3>1. /\ pc = "s2g_row" /\ pc' = "svn_to_git" /\ UNCHANGED <<kvRev, kvSha>>
          /\ wmRev' = cur /\ wmSha' = out
      BY <2>3 DEF SaveRevisionRow, kv
    <3>2. cur \in SvnPositions /\ out \in GitPositions
          /\ \A r \in Nat : Covered(r) => r <= cur
      BY <3>1 DEF IInv, PhaseOK, OnceInv, RevisionsAhead
    <3>3. SinceSha' = out
      BY <1>2, <3>1, <3>2 DEF SinceSha
    <3>4. \A r \in Nat : Covered(r)' <=> r <= cur
      BY <1>2, <3>1, <3>2 DEF Covered
    <3>5. \A r \in SvnPositions : (r = cur => Covered(r)') /\ (Covered(r) => Covered(r)')
      BY <1>2, <3>2, <3>4
    <3> QED BY <1>1, <2>1, <3>1, <3>3, <3>5 DEF RecordingRevision
  <2>4. CASE SkipKey \/ SaveCommitKey
    <3>1. /\ \/ pc = "skip_kv" /\ pc' = "skip_row"
             \/ pc = "g2s_kv" /\ pc' = "g2s_row"
          /\ UNCHANGED <<wmRev, wmSha, kvRev, cur, out>> /\ kvSha' = cur
      BY <2>4 DEF SkipKey, SaveCommitKey
    <3>2. cur \in GitPositions
      BY <3>1, OrderTypes DEF Copying, RecordingCommit
    <3>3. SinceSha' \in {SinceSha, cur}
      BY <1>2, <2>1, <3>1, <3>2 DEF SinceSha
    <3>4. \A r : Covered(r)' = Covered(r)
      BY <2>1, <3>1 DEF Covered
    <3> QED BY <1>1, <2>1, <3>1, <3>3, <3>4 DEF Copying, RecordingCommit
  <2>5. CASE SkipRow
    <3>1. /\ pc = "skip_row" /\ pc' = "git_to_svn" /\ UNCHANGED <<kvRev, kvSha>>
          /\ wmRev' = wmRev /\ wmSha' = cur
      BY <2>5 DEF SkipRow, kv
    <3>2. cur \in GitPositions
      BY <3>1, OrderTypes DEF Copying, RecordingCommit
    <3>3. SinceSha' = cur
      BY <1>2, <3>1, <3>2 DEF SinceSha
    <3>4. \A r : Covered(r)' = Covered(r)
      BY <2>1, <3>1 DEF Covered
    <3> QED BY <1>1, <2>1, <3>1, <3>3, <3>4 DEF Copying, RecordingCommit
  <2>6. CASE SaveCommitRow
    <3>1. /\ pc = "g2s_row" /\ pc' = "git_to_svn" /\ UNCHANGED <<kvRev, kvSha>>
          /\ wmRev' = out /\ wmSha' = cur
      BY <2>6 DEF SaveCommitRow, kv
    <3>2. /\ cur \in GitPositions /\ out \in SvnPositions
          /\ \A r \in Nat : Covered(r) => r <= out
      BY <3>1 DEF IInv, PhaseOK, OnceInv, RevisionsAhead, RecordingCommit
    <3>3. SinceSha' = cur
      BY <1>2, <3>1, <3>2 DEF SinceSha
    <3>4. \A r \in Nat : Covered(r)' <=> r <= out
      <4>1. out \in Nat \ {0}
        BY <1>2, <3>2
      <4> QED BY <3>1, <4>1 DEF Covered
    <3>5. \A r \in SvnPositions : Covered(r) => Covered(r)'
      BY <1>2, <3>2, <3>4
    <3> QED BY <1>1, <2>1, <3>1, <3>3, <3>5 DEF Copying, RecordingCommit
  <2> QED BY <1>4, <2>2, <2>3, <2>4, <2>5, <2>6
<1> QED BY <1>3, <1>4

\* What a cycle fetches from SVN; nothing is read from the clone.
LEMMA CalmFetch ==
    ASSUME NothingFails, IInv, UsersSafe, CommitsSafe, FirstCycle, FetchSvn
    PROVE  /\ UNCHANGED <<wmRev, wmSha, kvRev, kvSha, records>>
           /\ svnTodo' = {r \in SvnPositions : Wanted(r)}
<1>1. PICK stored \in StoredRev, d \in DetectedRev :
        LET last == IF stored = 0 THEN d ELSE stored IN
        /\ svnTodo' = NewRevisions(last)
        /\ IF stored = 0 /\ d > 0
           THEN kvRev' = d /\ wmRev' = d /\ wmSha' = 0
           ELSE UNCHANGED <<kvRev, wmRev, wmSha>>
  BY DEF FetchSvn
<1>2. stored \in Nat /\ d \in Nat /\ Len(svnLog) \in Nat
  BY StoredRevType, DetectedRevType DEF IInv, TypeOK
<1>3. pc = "fetch_svn" /\ UNCHANGED <<kvSha, records>>
  BY DEF FetchSvn
<1>4. stored = 0 => d = 0
  <2> SUFFICES ASSUME stored = 0 PROVE d = 0
    OBVIOUS
  <2>1. ~Covered(1)
    BY StoredCovers
  <2>2. base = 1 /\ unpushed = NoCommit
    BY <1>3, <2>1 DEF FirstCycle, BeforeCycle, UsersSafe
  <2> QED BY <2>2, NothingDetectedAtFirst
<1>5. /\ UNCHANGED <<wmRev, wmSha, kvRev>>
      /\ svnTodo' = NewRevisions(stored)
  BY <1>1, <1>2, <1>4
<1>6. NewRevisions(stored) = {r \in SvnPositions : Wanted(r)}
  <2>1. \A r \in SvnPositions : r \in Nat \ {0} /\ (Covered(r) <=> r <= stored)
    BY StoredCovers, OrderTypes
  <2>2. (stored + 1)..Len(svnLog) = {r \in SvnPositions : ~(r <= stored)}
    BY <1>2 DEF SvnPositions
  <2> QED BY <2>1, <2>2 DEF NewRevisions, IsEcho, Wanted
<1> QED BY <1>3, <1>5, <1>6

\* On a branch that is not too long the walk back reaches the watermark.
LEMMA SinceAll ==
    ASSUME IInv, Len(remote) <= GitFetchCap
    PROVE  CommitsSince(SinceSha) = {s \in GitPositions : s > SinceSha}
<1>1. /\ Len(remote) \in Nat /\ SinceSha \in Int /\ SinceSha <= Len(remote)
      /\ GitFetchCap \in Nat
  BY SinceShaType, TeamSyncAssumption
<1> DEFINE first == IF SinceSha \in 1..Len(remote) THEN SinceSha + 1 ELSE 1
<1>2. \A s \in GitPositions : s > Len(remote) - GitFetchCap
  BY <1>1 DEF GitPositions
<1>3. first..Len(remote) = {s \in GitPositions : s > SinceSha}
  <2>1. CASE SinceSha \in 1..Len(remote)
    BY <1>1, <2>1 DEF GitPositions
  <2>2. CASE SinceSha \notin 1..Len(remote)
    BY <1>1, <2>2 DEF GitPositions
  <2> QED BY <2>1, <2>2
<1>4. CommitsSince(SinceSha) = {s \in first..Len(remote) : s > Len(remote) - GitFetchCap}
  BY DEF CommitsSince
<1> QED BY <1>2, <1>3, <1>4

\* Steps that write neither history nor watermarks keep the lists whole.
LEMMA WholeMoves ==
    ASSUME IInv, OnceInv, UsersSafe, CommitsSafe, TodoWhole, NothingFails,
           Len(remote) <= GitFetchCap,
           \/ StartCycle \/ FetchSvn \/ FetchGit \/ DetectConflicts
           \/ ApplyRevision \/ RevisionsApplied \/ PrepareWorkingCopy
           \/ FinishCycle \/ UNCHANGED vars
    PROVE  TodoWhole'
<1> USE DEF BeforeCycle, BeforeFetch, RecordingRevision, Copying, RecordingCommit
<1>1. /\ UNCHANGED <<svnLog, remote>>
      /\ UNCHANGED <<wmRev, wmSha, kvRev, kvSha, records>>
  <2>1. CASE FetchSvn
    BY <2>1, CalmFetch DEF FetchSvn, servers, TodoWhole
  <2>2. CASE ~FetchSvn
    BY <2>2 DEF StartCycle, FetchGit, DetectConflicts, ApplyRevision,
       RevisionsApplied, PrepareWorkingCopy, FinishCycle, servers, row, kv, db, vars
  <2> QED BY <2>1, <2>2
<1>2. /\ SvnPositions' = SvnPositions /\ GitPositions' = GitPositions
      /\ \A r : Wanted(r)' = Wanted(r)
      /\ \A r : Covered(r)' = Covered(r)
      /\ SinceSha' = SinceSha
  BY <1>1, WatermarksSame DEF Wanted, SvnPositions, GitPositions
<1>3. CASE StartCycle \/ UNCHANGED vars
  <2>1. /\ UNCHANGED <<svnTodo, gitTodo, cur, out, base>>
        /\ pc' = pc \/ (pc = "idle" /\ pc' = "fetch_svn")
    BY <1>3 DEF StartCycle, clone, vars, Goto
  <2>2. InHand' = InHand
    BY <2>1 DEF InHand
  <2>3. Covered(1)' = Covered(1)
    BY <1>2
  <2> QED BY <1>1, <1>2, <2>1, <2>2, <2>3
          DEF TodoWhole, SvnTodoWhole, GitTodoWhole, FirstCycle
<1>4. CASE FetchSvn
  <2>1. pc = "fetch_svn" /\ pc' = "fetch_git"
    BY <1>4 DEF FetchSvn, Goto
  <2>2. svnTodo' = {r \in SvnPositions : Wanted(r)}
    BY <1>4, CalmFetch DEF TodoWhole
  <2> QED BY <1>1, <1>2, <2>1, <2>2
          DEF TodoWhole, SvnTodoWhole, GitTodoWhole, FirstCycle
<1>5. CASE FetchGit
  <2>1. /\ pc = "fetch_git" /\ pc' = "detect" /\ UNCHANGED svnTodo
        /\ gitTodo' = {s \in CommitsSince(SinceSha) : ~IsEcho(remote[s])}
    BY <1>5 DEF FetchGit, Goto
  <2>2. gitTodo' = {s \in GitPositions : s > SinceSha /\ ~remote[s].marked}
    BY <2>1, SinceAll DEF IsEcho
  <2>3. InHand' = gitTodo'
    BY <2>1 DEF InHand
  <2>4. \A s \in GitPositions, t \in gitTodo' : t < s => s > SinceSha
    <3>1. GitPositions \subseteq Nat /\ SinceSha \in Int
      BY OrderTypes
    <3> QED BY <2>2, <3>1
  <2>5. GitTodoWhole'
    BY <1>1, <1>2, <2>2, <2>3, <2>4 DEF GitTodoWhole
  <2> QED BY <1>1, <1>2, <2>1, <2>5
          DEF TodoWhole, SvnTodoWhole, FirstCycle
<1>6. CASE DetectConflicts \/ RevisionsApplied
  <2>1. /\ UNCHANGED <<svnTodo, gitTodo, cur, out>>
        /\ \/ pc = "detect" /\ pc' = "svn_to_git"
           \/ pc = "svn_to_git" /\ pc' = "git_to_svn"
    BY <1>6 DEF DetectConflicts, RevisionsApplied, Goto
  <2>2. InHand' = InHand
    BY <2>1 DEF InHand
  <2> QED BY <1>1, <1>2, <2>1, <2>2
          DEF TodoWhole, SvnTodoWhole, GitTodoWhole, FirstCycle
<1>7. CASE ApplyRevision
  <2>1. /\ UNCHANGED <<gitTodo, out>> /\ pc = "svn_to_git" /\ pc' = "push"
        /\ svnTodo' = svnTodo \ {cur'}
    BY <1>7 DEF ApplyRevision, Goto
  <2>2. InHand' = InHand
    BY <2>1 DEF InHand
  <2> QED BY <1>1, <1>2, <2>1, <2>2
          DEF TodoWhole, SvnTodoWhole, GitTodoWhole, FirstCycle
<1>8. CASE PrepareWorkingCopy
  <2>1. /\ UNCHANGED svnTodo /\ pc = "git_to_svn"
        /\ pc' \in {"skip_kv", "svn_commit"}
        /\ cur' \in gitTodo /\ gitTodo' = gitTodo \ {cur'}
    BY <1>8 DEF PrepareWorkingCopy, Goto
  <2>2. InHand' = InHand
    BY <2>1 DEF InHand
  <2> QED BY <1>1, <1>2, <2>1, <2>2
          DEF TodoWhole, SvnTodoWhole, GitTodoWhole, FirstCycle
<1>9. CASE FinishCycle
  <2>1. pc = "git_to_svn" /\ pc' = "idle" /\ svnTodo = {}
    BY <1>9 DEF FinishCycle, ForgetCycle, OnceInv, RevisionsAhead
  <2>2. 1 \in SvnPositions /\ ~svnLog[1].marked
    BY DEF CommitsSafe, TodoWhole, FirstCycle
  <2>3. ~Wanted(1)
    BY <2>1, <2>2 DEF TodoWhole, SvnTodoWhole
  <2>4. Covered(1)
    BY <2>2, <2>3 DEF Wanted
  <2>5. Covered(1)'
    BY <1>2, <2>4
  <2> QED BY <1>1, <2>1, <2>2, <2>5
          DEF TodoWhole, SvnTodoWhole, GitTodoWhole, FirstCycle
<1> QED BY <1>3, <1>4, <1>5, <1>6, <1>7, <1>8, <1>9

\* Neither does the bookkeeping take a commit out of the lists too early.
LEMMA WholeWrites ==
    ASSUME IInv, OnceInv, CommitsSafe, TodoWhole, ~CanFail("db_error"),
           \/ RecordRevision \/ SaveRevisionKey \/ SaveRevisionRow
           \/ SkipKey \/ SkipRow
           \/ RecordCommit \/ SaveCommitKey \/ SaveCommitRow
    PROVE  TodoWhole'
<1> USE DEF BeforeCycle, BeforeFetch
<1>1. /\ UNCHANGED <<svnLog, remote, base, svnTodo, gitTodo>>
      /\ \A r \in SvnPositions : Covered(r) => Covered(r)'
      /\ \/ /\ pc \in RecordingRevision /\ pc' \in RecordingRevision
            /\ UNCHANGED <<cur, out>> /\ SinceSha' \in {SinceSha, out}
         \/ /\ pc \in RecordingRevision /\ pc' = "svn_to_git"
            /\ SinceSha' = out
            /\ \A r \in SvnPositions : r = cur => Covered(r)'
         \/ /\ pc \in Copying \ {"svn_commit"}
            /\ pc' \in Copying \ {"svn_commit"}
            /\ UNCHANGED cur /\ SinceSha' \in {SinceSha, cur}
         \/ /\ pc \in Copying \ {"svn_commit"} /\ pc' = "git_to_svn"
            /\ SinceSha' = cur
  BY CalmWrites
<1>2. /\ SvnPositions' = SvnPositions /\ GitPositions' = GitPositions
      /\ \A r \in SvnPositions : Wanted(r)' => Wanted(r)
  BY <1>1 DEF Wanted, SvnPositions, GitPositions
<1>3. /\ GitPositions \subseteq Nat \ {0} /\ SinceSha \in Int
      /\ InHand \subseteq GitPositions
      /\ pc \in Copying => cur \in GitPositions
      /\ \A s \in GitPositions : s <= Len(remote)
      /\ Len(remote) \in Nat
  BY OrderTypes
<1>4. ~svnLog'[1].marked
  BY <1>1 DEF TodoWhole, FirstCycle
<1>5. CASE pc \in RecordingRevision
  <2>1. /\ pc' \in RecordingRevision \cup {"svn_to_git"}
        /\ SinceSha' \in {SinceSha, out} /\ out = Len(remote)
        /\ pc' \in RecordingRevision => UNCHANGED <<cur, out>>
        /\ pc' = "svn_to_git" => \A r \in SvnPositions : r = cur => Covered(r)'
    BY <1>1, <1>5 DEF TodoWhole, RecordingRevision, Copying, RecordingCommit
  <2>2. pc \notin Copying /\ pc' \notin Copying /\ InHand' = gitTodo /\ InHand = gitTodo
    BY <1>1, <1>5, <2>1 DEF InHand, RecordingRevision, Copying, RecordingCommit
  <2>3. SvnTodoWhole'
    <3>1. \A r \in SvnPositions : Wanted(r) =>
            r \in svnTodo \/ r = cur
      BY <1>5 DEF TodoWhole, SvnTodoWhole, RecordingRevision
    <3>2. \A r \in SvnPositions : Wanted(r)' => ~Covered(r)'
      BY DEF Wanted
    <3> QED BY <1>1, <1>2, <2>1, <3>1, <3>2 DEF SvnTodoWhole
  <2>4. GitTodoWhole'
    <3>1. \A s \in GitPositions : ~remote[s].marked
              /\ (s > SinceSha \/ \E t \in gitTodo : t < s) => s \in gitTodo
      BY <1>5, <2>2 DEF TodoWhole, GitTodoWhole, RecordingRevision
    <3>2. \A s \in GitPositions : s > SinceSha' => s > SinceSha
      BY <1>3, <2>1
    <3> QED BY <1>1, <1>2, <2>2, <3>1, <3>2 DEF GitTodoWhole
  <2> QED BY <1>1, <1>4, <2>1, <2>3, <2>4
          DEF TodoWhole, FirstCycle, RecordingRevision
<1>6. CASE pc \in Copying
  <2>1. /\ pc' \in Copying \cup {"git_to_svn"}
        /\ SinceSha' \in {SinceSha, cur}
        /\ pc' \in Copying => UNCHANGED cur
        /\ pc' = "git_to_svn" => SinceSha' = cur
        /\ pc \notin RecordingRevision \cup {"push"}
    BY <1>1, <1>6 DEF RecordingRevision, Copying, RecordingCommit
  <2>2. InHand = gitTodo \cup {cur} /\ \A t \in gitTodo : cur < t
    BY <1>6 DEF InHand, OnceInv, CommitsAhead
  <2>3. SvnTodoWhole'
    <3>1. \A r \in SvnPositions : Wanted(r) => r \in svnTodo
      BY <1>6, <2>1 DEF TodoWhole, SvnTodoWhole, Copying, RecordingCommit
    <3> QED BY <1>1, <1>2, <3>1 DEF SvnTodoWhole
  <2>4. \A s \in GitPositions : ~remote[s].marked
            /\ (s > SinceSha \/ \E t \in InHand : t < s) => s \in InHand
    BY <1>6 DEF TodoWhole, GitTodoWhole, Copying, RecordingCommit
  <2>5. GitTodoWhole'
    <3>1. CASE pc' \in Copying
      <4>1. InHand' = InHand
        BY <1>1, <1>6, <2>1, <3>1 DEF InHand
      <4> QED BY <1>1, <1>2, <2>1, <2>2, <2>4, <4>1 DEF GitTodoWhole
    <3>2. CASE pc' = "git_to_svn"
      <4>1. InHand' = gitTodo /\ SinceSha' = cur
        BY <1>1, <2>1, <3>2 DEF InHand, Copying, RecordingCommit
      <4>2. \A s \in GitPositions : (s > cur \/ \E t \in gitTodo : t < s) =>
              s > cur /\ s # cur
        <5>1. cur \in Nat /\ gitTodo \subseteq Nat /\ GitPositions \subseteq Nat
          BY <1>3, <1>6, <2>2
        <5> QED BY <2>2, <5>1
      <4>3. \A s \in GitPositions : ~remote[s].marked
              /\ (s > cur \/ \E t \in gitTodo : t < s) => s \in gitTodo
        BY <2>2, <2>4, <4>2
      <4> QED BY <1>1, <1>2, <4>1, <4>3 DEF GitTodoWhole
    <3> QED BY <2>1, <3>1, <3>2
  <2> QED BY <1>1, <1>4, <2>1, <2>3, <2>5
          DEF TodoWhole, FirstCycle, RecordingRevision, Copying, RecordingCommit
<1> QED BY <1>1, <1>5, <1>6

\* A commit that the engine adds is marked; one of a user is not overlooked,
\* since no cycle is running.
LEMMA WholeGrows ==
    ASSUME UsersWait, IInv, OnceInv, CommitsSafe, TodoWhole, [Next]_vars,
           UserSvnCommit \/ UserGitPush \/ Push \/ CommitToSvn
    PROVE  TodoWhole'
<1> USE DEF BeforeCycle, BeforeFetch
<1>1. /\ UNCHANGED <<wmRev, wmSha, kvRev, kvSha, records, svnTodo, gitTodo>>
      /\ UserSvnCommit \/ UserGitPush => pc = "idle" /\ UNCHANGED <<pc, base>>
      /\ Push => /\ pc = "push" /\ pc' = "s2g_record" /\ UNCHANGED <<cur, svnLog>>
                 /\ out' = Len(remote')
      /\ CommitToSvn => pc = "svn_commit" /\ pc' = "g2s_record"
                        /\ UNCHANGED <<cur, remote>>
  BY DEF UserSvnCommit, UserGitPush, Push, CommitToSvn, UserMayCommit,
         UsersWait, clone, db, memory, Goto
<1>2. (\A r : Covered(r)' = Covered(r)) /\ SinceSha' = SinceSha
  BY <1>1, WatermarksSame
<1>3. ~svnLog'[1].marked
  BY SvnStays DEF TodoWhole, FirstCycle, CommitsSafe
<1>4. CASE UserSvnCommit \/ UserGitPush
  <2>1. Covered(1)' = Covered(1)
    BY <1>2
  <2> QED BY <1>1, <1>3, <1>4, <2>1
          DEF TodoWhole, SvnTodoWhole, GitTodoWhole, FirstCycle, RecordingRevision
<1>5. CASE Push
  <2>1. remote' = Append(remote, unpushed) /\ unpushed \in Commit /\ unpushed.marked
    <3>1. unpushed.origin # 0
      BY <1>1, <1>5, Published, OrderTypes
    <3> QED BY <1>5, <3>1, Published DEF IInv, CopiesOK, GitCopyOK
  <2>2. /\ GitPositions' = GitPositions \cup {Len(remote) + 1}
        /\ remote'[Len(remote) + 1].marked
        /\ \A s \in GitPositions : remote'[s] = remote[s]
    BY <2>1, AppendKeeps, GitCounts DEF IInv, TypeOK, GitPositions
  <2>3. InHand' = InHand
    BY <1>1, <1>5 DEF InHand, Copying, RecordingCommit
  <2>4. GitTodoWhole'
    BY <1>1, <1>2, <1>5, <2>2, <2>3 DEF TodoWhole, GitTodoWhole
  <2>5. SvnTodoWhole'
    BY <1>1, <1>2, <1>5
       DEF TodoWhole, SvnTodoWhole, RecordingRevision, Wanted, SvnPositions
  <2> QED BY <1>1, <1>3, <1>5, <2>4, <2>5 DEF TodoWhole, FirstCycle
<1>6. CASE CommitToSvn
  <2>1. PICK c \in Commit : c.origin = cur /\ svnLog' = Append(svnLog, c)
    BY <1>6, Published
  <2>2. /\ SvnPositions' = SvnPositions \cup {Len(svnLog) + 1}
        /\ svnLog'[Len(svnLog) + 1].marked
        /\ \A r \in SvnPositions : svnLog'[r] = svnLog[r]
        /\ GitPositions' = GitPositions
    <3>1. IInv'
      BY NextIInv
    <3>2. /\ SvnPositions' = SvnPositions \cup {Len(svnLog) + 1}
          /\ svnLog'[Len(svnLog) + 1] = c
      BY <1>1, <1>6, <2>1, AppendKeeps, SvnCounts DEF IInv, TypeOK
    <3>3. c.origin # 0
      BY <1>1, <1>6, <2>1, OrderTypes DEF Copying
    <3>4. \A r \in SvnPositions' : svnLog'[r].origin # 0 => svnLog'[r].marked
      BY <3>1 DEF IInv, CopiesOK, SvnCopyOK
    <3> QED BY <1>1, <1>6, <2>1, <3>2, <3>3, <3>4, SvnStays DEF GitPositions
  <2>3. InHand' = InHand
    BY <1>1, <1>6 DEF InHand, Copying, RecordingCommit
  <2>4. GitTodoWhole'
    BY <1>1, <1>2, <1>6, <2>2, <2>3 DEF TodoWhole, GitTodoWhole
  <2>5. SvnTodoWhole'
    BY <1>1, <1>2, <1>6, <2>2 DEF TodoWhole, SvnTodoWhole, RecordingRevision, Wanted
  <2> QED BY <1>1, <1>3, <1>6, <2>4, <2>5
          DEF TodoWhole, FirstCycle, RecordingRevision
<1> QED BY <1>4, <1>5, <1>6

\* What is asked of a file depends on the histories, on what is left, and on
\* what the branch and the clone hold.
LEMMA FollowsSame ==
    ASSUME UNCHANGED <<svnLog, remote, conflicts>>,
           SvnLeft' = SvnLeft, GitLeft' = GitLeft, GitHead' = GitHead,
           Compared' => Compared /\ svnTodo' = svnTodo, FilesFollow
    PROVE  FilesFollow'
<1>1. SvnHead' = SvnHead
  BY DEF SvnHead
<1>2. ASSUME NEW f \in Files, FileFollows(f) PROVE FileFollows(f)'
  <2>1. \A r \in Newest(svnLog, SvnLeft, f)' : svnLog'[r].tree[f] = SvnHead'[f]
    BY <1>1, <1>2 DEF FileFollows
  <2>2. \A s \in Newest(remote, GitLeft, f)' : remote'[s].tree[f] = GitHead'[f]
    BY <1>2 DEF FileFollows
  <2>3. Compared' =>
          \A r \in Changing(svnLog, svnTodo, f)', s \in Newest(remote, GitLeft, f)' :
             svnLog'[r].tree[f] = remote'[s].tree[f]
    BY <1>2 DEF FileFollows
  <2>4. (Changing(svnLog, SvnLeft, f) = {} /\ Changing(remote, GitLeft, f) = {})' =>
          SvnHead'[f] = GitHead'[f]
    BY <1>1, <1>2 DEF FileFollows
  <2> QED BY <2>1, <2>2, <2>3, <2>4 DEF FileFollows
<1> QED BY <1>2 DEF FilesFollow

\* Between the commits of a cycle the clone is at the head of the branch.
LEMMA CloneAtHead ==
    ASSUME UsersSafe, NothingFails, ~BeforeFetch, pc # "push"
    PROVE  GitHead = TreeAt(remote, Len(remote))
<1>1. unpushed = NoCommit /\ base = Len(remote)
  BY DEF UsersSafe, BeforeFetch
<1> QED BY <1>1 DEF GitHead, LocalTree

\* Steps that change what is left by nothing.
LEMMA FollowsMoves ==
    ASSUME NothingFails, IInv, OnceInv, UsersSafe, CommitsSafe,
           TodoWhole, FilesFollow, Len(remote) <= GitFetchCap,
           \/ StartCycle \/ FetchSvn \/ FetchGit \/ RevisionsApplied
           \/ FinishCycle \/ UNCHANGED vars
    PROVE  FilesFollow'
<1>1. /\ UNCHANGED <<svnLog, remote, conflicts>>
      /\ UNCHANGED <<wmRev, wmSha, kvRev, kvSha, records>>
  <2>1. CASE FetchSvn
    BY <2>1, CalmFetch DEF FetchSvn, servers, TodoWhole
  <2>2. CASE ~FetchSvn
    BY <2>2 DEF StartCycle, FetchGit, RevisionsApplied, FinishCycle, servers,
       row, kv, db, vars
  <2> QED BY <2>1, <2>2
<1>2. /\ SvnPositions' = SvnPositions /\ GitPositions' = GitPositions
      /\ \A r : Wanted(r)' = Wanted(r)
      /\ SinceSha' = SinceSha
  BY <1>1, WatermarksSame DEF Wanted, SvnPositions, GitPositions
<1>3. CASE UNCHANGED vars
  <2>1. UNCHANGED <<pc, svnTodo, gitTodo, cur, base, unpushed>>
    BY <1>3 DEF vars
  <2>2. BeforeCycle' = BeforeCycle /\ BeforeFetch' = BeforeFetch /\ Compared' = Compared
    BY <2>1 DEF BeforeCycle, BeforeFetch, Compared
  <2>3. SvnLeft' = SvnLeft /\ GitLeft' = GitLeft
    BY <1>1, <1>2, <2>1, <2>2 DEF SvnLeft, GitLeft
  <2>4. GitHead' = GitHead
    BY <1>1, <2>1, <2>2 DEF GitHead, LocalTree
  <2> QED BY <1>1, <2>1, <2>2, <2>3, <2>4, FollowsSame
<1>4. CASE StartCycle
  <2>1. UNCHANGED <<svnTodo, gitTodo, cur>> /\ pc = "idle" /\ pc' = "fetch_svn"
    BY <1>4 DEF StartCycle, Goto
  <2>2. /\ BeforeCycle' /\ BeforeCycle /\ BeforeFetch' /\ BeforeFetch /\ ~Compared'
    BY <2>1 DEF BeforeCycle, BeforeFetch, Compared
  <2>3. SvnLeft' = SvnLeft /\ GitLeft' = GitLeft /\ GitHead' = GitHead
    BY <1>1, <1>2, <2>2 DEF SvnLeft, GitLeft, GitHead
  <2> QED BY <1>1, <2>1, <2>2, <2>3, FollowsSame
<1>5. CASE RevisionsApplied
  <2>1. /\ UNCHANGED <<svnTodo, gitTodo, cur>> /\ pc = "svn_to_git" /\ pc' = "git_to_svn"
    BY <1>5 DEF RevisionsApplied, Goto
  <2>2. /\ ~BeforeCycle' /\ ~BeforeCycle /\ ~BeforeFetch' /\ ~BeforeFetch /\ Compared
    BY <2>1 DEF BeforeCycle, BeforeFetch, Compared
  <2>3. SvnLeft' = SvnLeft /\ GitLeft' = GitLeft
    BY <1>1, <1>2, <2>1, <2>2 DEF SvnLeft, GitLeft
  <2>4. GitHead' = GitHead
    BY <1>1, <2>1, <2>2, <1>5 DEF GitHead, LocalTree, RevisionsApplied, clone
  <2> QED BY <1>1, <2>1, <2>2, <2>3, <2>4, FollowsSame
<1>6. CASE FetchSvn
  <2>1. UNCHANGED <<gitTodo, cur>> /\ pc = "fetch_svn" /\ pc' = "fetch_git"
    BY <1>6 DEF FetchSvn, Goto
  <2>2. /\ ~BeforeCycle' /\ BeforeCycle /\ BeforeFetch' /\ BeforeFetch /\ ~Compared'
    BY <2>1 DEF BeforeCycle, BeforeFetch, Compared
  <2>3. SvnLeft' = SvnLeft
    BY <1>6, <2>2, CalmFetch DEF SvnLeft, TodoWhole
  <2>4. GitLeft' = GitLeft /\ GitHead' = GitHead
    BY <1>1, <1>2, <2>2 DEF GitLeft, GitHead
  <2> QED BY <1>1, <2>2, <2>3, <2>4, FollowsSame
<1>7. CASE FetchGit
  <2>1. /\ pc = "fetch_git" /\ pc' = "detect" /\ UNCHANGED <<svnTodo, cur>>
        /\ gitTodo' = {s \in CommitsSince(SinceSha) : ~IsEcho(remote[s])}
        /\ base' = Len(remote) /\ unpushed' = NoCommit
    BY <1>7 DEF FetchGit, Goto, Pulled
  <2>2. /\ ~BeforeCycle' /\ ~BeforeCycle /\ ~BeforeFetch' /\ BeforeFetch /\ ~Compared'
    BY <2>1 DEF BeforeCycle, BeforeFetch, Compared
  <2>3. gitTodo' = {s \in GitPositions : ~remote[s].marked /\ s > SinceSha}
    BY <2>1, SinceAll DEF IsEcho
  <2>4. SvnLeft' = SvnLeft /\ GitLeft' = GitLeft
    BY <2>1, <2>2, <2>3 DEF SvnLeft, GitLeft
  <2>5. GitHead' = GitHead
    BY <1>1, <2>1, <2>2 DEF GitHead, LocalTree
  <2> QED BY <1>1, <2>2, <2>4, <2>5, FollowsSame
<1>8. CASE FinishCycle
  <2>1. /\ pc = "git_to_svn" /\ pc' = "idle" /\ svnTodo = {} /\ gitTodo = {}
    BY <1>8 DEF FinishCycle, ForgetCycle, OnceInv, RevisionsAhead
  <2>2. /\ BeforeCycle' /\ ~BeforeCycle /\ BeforeFetch' /\ ~BeforeFetch /\ ~Compared'
    BY <2>1 DEF BeforeCycle, BeforeFetch, Compared
  <2>3. \A r \in SvnPositions : ~Wanted(r)
    BY <2>1, <2>2 DEF TodoWhole, SvnTodoWhole, RecordingRevision
  <2>4. InHand = {}
    BY <2>1 DEF InHand, Copying, RecordingCommit
  <2>5. \A s \in GitPositions : ~(~remote[s].marked /\ s > SinceSha)
    BY <2>2, <2>4 DEF TodoWhole, GitTodoWhole
  <2>6. SvnLeft = {} /\ GitLeft = {}
    BY <2>1, <2>2 DEF SvnLeft, GitLeft
  <2>7. SvnLeft' = {} /\ GitLeft' = {}
    BY <1>1, <1>2, <2>2, <2>3, <2>5 DEF SvnLeft, GitLeft
  <2>8. GitHead = TreeAt(remote, Len(remote))
    BY <2>1, <2>2, CloneAtHead
  <2>9. GitHead' = GitHead
    BY <1>1, <2>2, <2>8 DEF GitHead
  <2> QED BY <1>1, <2>2, <2>6, <2>7, <2>9, FollowsSame
<1> QED BY <1>3, <1>4, <1>5, <1>6, <1>7, <1>8

\* Nor does the bookkeeping change what is left.
LEMMA FollowsWrites ==
    ASSUME IInv, OnceInv, FilesFollow, ~CanFail("db_error"),
           \/ RecordRevision \/ SaveRevisionKey \/ SaveRevisionRow
           \/ SkipKey \/ SkipRow
           \/ RecordCommit \/ SaveCommitKey \/ SaveCommitRow
    PROVE  FilesFollow'
<1>1. UNCHANGED <<svnLog, remote, base, unpushed, conflicts, svnTodo, gitTodo>>
  BY CalmWrites
<1>2. /\ pc \in RecordingRevision \cup (Copying \ {"svn_commit"})
      /\ pc' \in RecordingRevision \cup (Copying \ {"svn_commit"})
                    \cup {"svn_to_git", "git_to_svn"}
  BY CalmWrites
<1>3. /\ ~BeforeCycle' /\ ~BeforeCycle /\ ~BeforeFetch' /\ ~BeforeFetch /\ Compared
      /\ pc # "svn_commit" /\ pc' # "svn_commit"
  BY <1>2 DEF BeforeCycle, BeforeFetch, Compared, RecordingRevision, Copying,
     RecordingCommit
<1>4. SvnLeft' = SvnLeft /\ GitLeft' = GitLeft /\ GitHead' = GitHead
  BY <1>1, <1>3 DEF SvnLeft, GitLeft, GitHead, LocalTree
<1> QED BY <1>1, <1>3, <1>4, FollowsSame

\* A commit more at the end of a history changes nothing of what was there.
LEMMA DeltaAppend ==
    ASSUME NEW log \in Seq(Commit), NEW c \in Commit
    PROVE  /\ \A i \in 0..Len(log) : TreeAt(Append(log, c), i) = TreeAt(log, i)
           /\ TreeAt(Append(log, c), Len(log) + 1) = c.tree
           /\ \A i \in 1..Len(log) : Delta(Append(log, c), i) = Delta(log, i)
           /\ Delta(Append(log, c), Len(log) + 1) =
                {f \in Files : c.tree[f] # TreeAt(log, Len(log))[f]}
<1>1. /\ Len(log) \in Nat
      /\ \A i \in 1..Len(log) : Append(log, c)[i] = log[i]
      /\ Append(log, c)[Len(log) + 1] = c
  BY AppendKeeps
<1>2. \A i \in 0..Len(log) : TreeAt(Append(log, c), i) = TreeAt(log, i)
  BY <1>1 DEF TreeAt
<1>3. TreeAt(Append(log, c), Len(log) + 1) = c.tree
  BY <1>1 DEF TreeAt
<1>4. \A i \in 1..Len(log) : Delta(Append(log, c), i) = Delta(log, i)
  <2> SUFFICES ASSUME NEW i \in 1..Len(log)
               PROVE  Delta(Append(log, c), i) = Delta(log, i)
    OBVIOUS
  <2>1. i - 1 \in 0..Len(log)
    BY <1>1
  <2> QED BY <1>1, <1>2, <2>1 DEF Delta
<1>5. Delta(Append(log, c), Len(log) + 1) =
        {f \in Files : c.tree[f] # TreeAt(log, Len(log))[f]}
  <2>1. (Len(log) + 1) - 1 = Len(log) /\ Len(log) \in 0..Len(log)
    BY <1>1
  <2> QED BY <1>1, <1>2, <2>1 DEF Delta
<1> QED BY <1>2, <1>3, <1>4, <1>5

\* The positions of S are positions of the history.
Within(S, log) == S \subseteq 1..Len(log)

\* The newest change of a file among commits that were there stays the newest.
LEMMA NewestKept ==
    ASSUME NEW log \in Seq(Commit), NEW c \in Commit,
           NEW S, Within(S, log), NEW f \in Files
    PROVE  /\ Changing(Append(log, c), S, f) = Changing(log, S, f)
           /\ Newest(Append(log, c), S, f) = Newest(log, S, f)
<1>1. \A i \in 1..Len(log) : Delta(Append(log, c), i) = Delta(log, i)
  BY DeltaAppend
<1>2. Changing(Append(log, c), S, f) = Changing(log, S, f)
  BY <1>1 DEF Changing, Within
<1> QED BY <1>2 DEF Newest

\* A new commit that does not change the file does not count.
LEMMA NewestSame ==
    ASSUME NEW log \in Seq(Commit), NEW c \in Commit,
           NEW S, Within(S, log), NEW f \in Files,
           c.tree[f] = TreeAt(log, Len(log))[f]
    PROVE  /\ Changing(Append(log, c), S \cup {Len(log) + 1}, f) =
                Changing(log, S, f)
           /\ Newest(Append(log, c), S \cup {Len(log) + 1}, f) =
                Newest(log, S, f)
<1> DEFINE n == Len(log) + 1
           new == Append(log, c)
<1>1. /\ \A i \in 1..Len(log) : Delta(new, i) = Delta(log, i)
      /\ f \notin Delta(new, n)
  BY DeltaAppend
<1> HIDE DEF n, new
<1>2. Changing(new, S \cup {n}, f) = Changing(log, S, f)
  BY <1>1 DEF Changing, Within
<1> QED BY <1>2 DEF Newest, n, new

\* A new commit that changes the file is the newest that does.
LEMMA NewestLast ==
    ASSUME NEW log \in Seq(Commit), NEW c \in Commit,
           NEW S, Within(S, log), NEW f \in Files,
           c.tree[f] # TreeAt(log, Len(log))[f]
    PROVE  /\ Newest(Append(log, c), S \cup {Len(log) + 1}, f) = {Len(log) + 1}
           /\ Len(log) + 1 \in Changing(Append(log, c), S \cup {Len(log) + 1}, f)
<1> DEFINE n == Len(log) + 1
           new == Append(log, c)
           C == Changing(log, S, f)
<1>1. Len(log) \in Nat /\ n \in Nat /\ \A i \in 1..Len(log) : i <= n /\ ~(n <= i)
  OBVIOUS
<1>2. /\ \A i \in 1..Len(log) : Delta(new, i) = Delta(log, i)
      /\ f \in Delta(new, n)
  BY DeltaAppend
<1>3. n <= n
  BY <1>1
<1> HIDE DEF n, new
<1>4. Changing(new, S \cup {n}, f) = C \cup {n}
  BY <1>2 DEF Changing, Within
<1>5. \A i \in C : i <= n /\ ~(n <= i)
  BY <1>1 DEF Changing, Within
<1> HIDE DEF C
<1>6. MaxOf(C \cup {n}) = {n}
  BY <1>3, <1>5 DEF MaxOf
<1>7. Newest(new, S \cup {n}, f) = {n} /\ n \in Changing(new, S \cup {n}, f)
  BY <1>4, <1>6 DEF Newest
<1> QED BY <1>7 DEF n, new

\* Without its oldest commit a list has the same newest change of a file, or
\* none; none, if the oldest was the only one.
LEMMA NewestRest ==
    ASSUME NEW log, NEW S \in SUBSET Nat, NEW f, NEW i \in S, \A j \in S : i <= j
    PROVE  /\ Newest(log, S \ {i}, f) \subseteq Newest(log, S, f)
           /\ Changing(log, S \ {i}, f) \subseteq Changing(log, S, f)
           /\ Changing(log, S \ {i}, f) = {} /\ f \in Delta(log, i) =>
                i \in Newest(log, S, f)
           /\ f \notin Delta(log, i) => Changing(log, S \ {i}, f) = Changing(log, S, f)
           /\ f \in Delta(log, i) => i \in Changing(log, S, f)
<1>1. /\ Changing(log, S \ {i}, f) = Changing(log, S, f) \ {i}
      /\ f \in Delta(log, i) <=> i \in Changing(log, S, f)
  BY DEF Changing
<1>2. \A j \in Changing(log, S, f) : i <= j /\ j \in Nat
  BY DEF Changing
<1> DEFINE C == Changing(log, S, f)
<1>3. i <= i
  OBVIOUS
<1>4. MaxOf(C \ {i}) \subseteq MaxOf(C)
  BY <1>2 DEF MaxOf
<1>5. C \ {i} = {} /\ i \in C => i \in MaxOf(C)
  BY <1>3 DEF MaxOf
<1> QED BY <1>1, <1>4, <1>5 DEF Newest

\* A file that is not in the queue is changed by one side only, or to the same.
LEMMA FollowsDetect ==
    ASSUME NothingFails, UsersSafe, CommitsSafe, [Next]_vars, FilesFollow,
           DetectConflicts
    PROVE  FilesFollow'
<1>1. /\ UNCHANGED <<svnLog, remote, svnTodo, gitTodo, base, unpushed>>
      /\ pc = "detect" /\ pc' = "svn_to_git"
      /\ conflicts' = conflicts \cup DetectedConflicts
  BY QuietSteps DEF DetectConflicts, Goto, servers, clone
<1>2. ~BeforeCycle' /\ ~BeforeCycle /\ ~BeforeFetch' /\ ~BeforeFetch
  BY <1>1 DEF BeforeCycle, BeforeFetch
<1>3. /\ SvnLeft' = SvnLeft /\ GitLeft' = GitLeft /\ GitHead' = GitHead
      /\ SvnHead' = SvnHead /\ GitLeft = gitTodo
  BY <1>1, <1>2 DEF SvnLeft, GitLeft, GitHead, SvnHead, LocalTree
<1>4. ASSUME NEW f \in Files \ conflicts' PROVE FileFollows(f)'
  <2>1. FileFollows(f) /\ f \notin DetectedConflicts
    BY <1>1, <1>4 DEF FilesFollow
  <2>2. LastGitChange(f) = Newest(remote, gitTodo, f)
    BY DEF LastGitChange, Newest, Changing
  <2>3. \A r \in Changing(svnLog, svnTodo, f), s \in Newest(remote, gitTodo, f) :
            svnLog[r].tree[f] = remote[s].tree[f]
    BY <1>4, <2>1, <2>2 DEF DetectedConflicts, Changing
  <2>4. \A r \in Newest(svnLog, SvnLeft, f) : svnLog[r].tree[f] = SvnHead[f]
    BY <2>1 DEF FileFollows
  <2>5. \A s \in Newest(remote, GitLeft, f) : remote[s].tree[f] = GitHead[f]
    BY <2>1 DEF FileFollows
  <2>6. Changing(svnLog, SvnLeft, f) = {} /\ Changing(remote, GitLeft, f) = {} =>
          SvnHead[f] = GitHead[f]
    BY <2>1 DEF FileFollows
  <2> QED BY <1>1, <1>3, <2>3, <2>4, <2>5, <2>6 DEF FileFollows
<1> QED BY <1>4 DEF FilesFollow

\* Applying a revision gives the clone what the revision holds: for the last
\* one that changes a file, what SVN holds.
LEMMA FollowsApply ==
    ASSUME NothingFails, IInv, IInv', UsersSafe, CommitsSafe, [Next]_vars,
           FilesFollow, ApplyRevision
    PROVE  FilesFollow'
<1>1. PICK r \in svnTodo :
        /\ \A j \in svnTodo : r <= j
        /\ cur' = r /\ svnTodo' = svnTodo \ {r}
        /\ unpushed'.tree = Overlay(LocalTree, svnLog, r, Delta(svnLog, r))
  <2>1. PICK r \in svnTodo :
          /\ IsOldest(r, svnTodo)
          /\ \E missed \in SUBSET CatFiles(r) :
               /\ missed # {} => CanFail("cat_error")
               /\ faults' = IF missed = {} THEN faults ELSE faults + 1
               /\ unpushed' =
                   [tree |-> Overlay(LocalTree, svnLog, r,
                                     Delta(svnLog, r) \ missed),
                    origin |-> r, marked |-> TRUE, blank |-> svnLog[r].blank]
          /\ cur' = r /\ svnTodo' = svnTodo \ {r}
    BY DEF ApplyRevision
  <2>2. PICK missed \in SUBSET CatFiles(r) :
          /\ missed # {} => CanFail("cat_error")
          /\ unpushed' =
               [tree |-> Overlay(LocalTree, svnLog, r, Delta(svnLog, r) \ missed),
                origin |-> r, marked |-> TRUE, blank |-> svnLog[r].blank]
    BY <2>1
  <2>3. missed = {}
    BY <2>2, QuietSteps
  <2>4. Delta(svnLog, r) \ {} = Delta(svnLog, r)
    OBVIOUS
  <2> QED BY <2>1, <2>2, <2>3, <2>4 DEF IsOldest
<1>2. /\ UNCHANGED <<svnLog, remote, gitTodo, base, conflicts>>
      /\ pc = "svn_to_git" /\ pc' = "push"
  BY DEF ApplyRevision, Goto, servers, db
<1>3. ~BeforeCycle' /\ ~BeforeCycle /\ ~BeforeFetch' /\ ~BeforeFetch /\ Compared
  BY <1>2 DEF BeforeCycle, BeforeFetch, Compared
<1>4. /\ SvnLeft = svnTodo /\ SvnLeft' = svnTodo \ {r}
      /\ GitLeft = gitTodo /\ GitLeft' = gitTodo
      /\ SvnHead' = SvnHead
  BY <1>1, <1>2, <1>3 DEF SvnLeft, GitLeft, SvnHead
<1>5. GitHead = LocalTree /\ GitHead' = unpushed'.tree
  <2>1. unpushed' # NoCommit
    BY <1>2, NoCommitAssumption DEF IInv, PhaseOK
  <2> QED BY <1>3, <2>1 DEF GitHead, LocalTree
<1>6. \A f \in Files : GitHead'[f] =
        IF f \in Delta(svnLog, r) THEN svnLog[r].tree[f] ELSE GitHead[f]
  BY <1>1, <1>5 DEF Overlay
<1>7. svnTodo \subseteq Nat
  BY OrderTypes
<1>8. ASSUME NEW f \in Files \ conflicts PROVE FileFollows(f)'
  <2>1. FileFollows(f)
    BY <1>8 DEF FilesFollow
  <2>2. /\ Newest(svnLog, svnTodo \ {r}, f) \subseteq Newest(svnLog, svnTodo, f)
        /\ Changing(svnLog, svnTodo \ {r}, f) \subseteq Changing(svnLog, svnTodo, f)
        /\ Changing(svnLog, svnTodo \ {r}, f) = {} /\ f \in Delta(svnLog, r) =>
             r \in Newest(svnLog, svnTodo, f)
        /\ f \notin Delta(svnLog, r) =>
             Changing(svnLog, svnTodo \ {r}, f) = Changing(svnLog, svnTodo, f)
        /\ f \in Delta(svnLog, r) => r \in Changing(svnLog, svnTodo, f)
    BY <1>1, <1>7, NewestRest
  <2>3. \A q \in Newest(svnLog, svnTodo, f) : svnLog[q].tree[f] = SvnHead[f]
    BY <1>4, <2>1 DEF FileFollows
  <2>4. \A s \in Newest(remote, gitTodo, f) : remote[s].tree[f] = GitHead[f]
    BY <1>4, <2>1 DEF FileFollows
  <2>5. \A q \in Changing(svnLog, svnTodo, f), s \in Newest(remote, gitTodo, f) :
            svnLog[q].tree[f] = remote[s].tree[f]
    BY <1>3, <1>4, <2>1 DEF FileFollows
  <2>6. Changing(svnLog, svnTodo, f) = {} /\ Changing(remote, gitTodo, f) = {} =>
          SvnHead[f] = GitHead[f]
    BY <1>4, <2>1 DEF FileFollows
  <2>7. \A s \in Newest(remote, gitTodo, f) : remote[s].tree[f] = GitHead'[f]
    BY <1>6, <1>8, <2>2, <2>4, <2>5
  <2>8. ASSUME Changing(svnLog, svnTodo \ {r}, f) = {}, Changing(remote, gitTodo, f) = {}
        PROVE  SvnHead[f] = GitHead'[f]
    <3>1. CASE f \in Delta(svnLog, r)
      <4>1. svnLog[r].tree[f] = SvnHead[f]
        BY <2>2, <2>3, <2>8, <3>1
      <4> QED BY <1>6, <1>8, <3>1, <4>1
    <3>2. CASE f \notin Delta(svnLog, r)
      <4>1. SvnHead[f] = GitHead[f]
        BY <2>2, <2>6, <2>8, <3>2
      <4> QED BY <1>6, <1>8, <3>2, <4>1
    <3> QED BY <3>1, <3>2
  <2>9. /\ Changing(svnLog, SvnLeft, f)' = Changing(svnLog, svnTodo \ {r}, f)
        /\ Changing(svnLog, svnTodo, f)' = Changing(svnLog, svnTodo \ {r}, f)
        /\ Changing(remote, GitLeft, f)' = Changing(remote, gitTodo, f)
        /\ Newest(svnLog, SvnLeft, f)' = Newest(svnLog, svnTodo \ {r}, f)
        /\ Newest(remote, GitLeft, f)' = Newest(remote, gitTodo, f)
    BY <1>1, <1>2, <1>4
  <2>10. \A q \in Newest(svnLog, SvnLeft, f)' : svnLog'[q].tree[f] = SvnHead'[f]
    BY <1>2, <1>4, <2>2, <2>3, <2>9
  <2>11. \A s \in Newest(remote, GitLeft, f)' : remote'[s].tree[f] = GitHead'[f]
    BY <1>2, <2>7, <2>9
  <2>12. \A q \in Changing(svnLog, svnTodo, f)', s \in Newest(remote, GitLeft, f)' :
            svnLog'[q].tree[f] = remote'[s].tree[f]
    BY <1>2, <2>2, <2>5, <2>9
  <2>13. (Changing(svnLog, SvnLeft, f) = {} /\ Changing(remote, GitLeft, f) = {})' =>
            SvnHead'[f] = GitHead'[f]
    BY <1>4, <2>8, <2>9
  <2> QED BY <2>10, <2>11, <2>12, <2>13 DEF FileFollows
<1> QED BY <1>2, <1>8 DEF FilesFollow

\* When the oldest commit in hand is in SVN, as a revision of its own or
\* because it was already, the rest of the list is left.
LEMMA FollowsNext ==
    ASSUME UNCHANGED <<remote, conflicts>>, FilesFollow,
           SvnLeft = {}, SvnLeft' = {}, svnTodo' = {},
           NEW s \in GitLeft, GitLeft \subseteq Nat, \A t \in GitLeft : s <= t,
           GitLeft' = GitLeft \ {s}, GitHead' = GitHead,
           \A f \in Files : SvnHead'[f] =
               IF f \in Delta(remote, s) THEN remote[s].tree[f] ELSE SvnHead[f]
    PROVE  FilesFollow'
<1>1. \A log, f : Changing(log, {}, f) = {} /\ Newest(log, {}, f) = {}
  BY DEF Changing, Newest, MaxOf
<1>2. ASSUME NEW f \in Files \ conflicts PROVE FileFollows(f)'
  <2>1. FileFollows(f)
    BY <1>2 DEF FilesFollow
  <2>2. /\ Newest(remote, GitLeft \ {s}, f) \subseteq Newest(remote, GitLeft, f)
        /\ Changing(remote, GitLeft \ {s}, f) = {} /\ f \in Delta(remote, s) =>
             s \in Newest(remote, GitLeft, f)
        /\ f \notin Delta(remote, s) =>
             Changing(remote, GitLeft \ {s}, f) = Changing(remote, GitLeft, f)
    BY NewestRest
  <2>3. \A t \in Newest(remote, GitLeft, f) : remote[t].tree[f] = GitHead[f]
    BY <2>1 DEF FileFollows
  <2>4. Changing(remote, GitLeft, f) = {} => SvnHead[f] = GitHead[f]
    <3>1. Changing(svnLog, SvnLeft, f) = {}
      BY <1>1
    <3> QED BY <2>1, <3>1 DEF FileFollows
  <2>5. ASSUME Changing(remote, GitLeft \ {s}, f) = {}
        PROVE  SvnHead'[f] = GitHead[f]
    <3>1. CASE f \in Delta(remote, s)
      <4>1. remote[s].tree[f] = GitHead[f]
        BY <2>2, <2>3, <2>5, <3>1
      <4> QED BY <1>2, <3>1, <4>1
    <3>2. CASE f \notin Delta(remote, s)
      <4>1. SvnHead[f] = GitHead[f]
        BY <2>2, <2>4, <2>5, <3>2
      <4> QED BY <1>2, <3>2, <4>1
    <3> QED BY <3>1, <3>2
  <2>6. /\ Newest(svnLog, SvnLeft, f)' = {}
        /\ Changing(svnLog, svnTodo, f)' = {}
    BY <1>1
  <2>7. /\ Newest(remote, GitLeft, f)' = Newest(remote, GitLeft \ {s}, f)
        /\ Changing(remote, GitLeft, f)' = Changing(remote, GitLeft \ {s}, f)
    OBVIOUS
  <2>8. \A t \in Newest(remote, GitLeft, f)' : remote'[t].tree[f] = GitHead'[f]
    BY <2>2, <2>3, <2>7
  <2>9. Changing(remote, GitLeft, f)' = {} => SvnHead'[f] = GitHead'[f]
    BY <2>5, <2>7
  <2> QED BY <2>6, <2>8, <2>9 DEF FileFollows
<1> QED BY <1>2 DEF FilesFollow

\* A push leaves the clone as it is, and at the head of the branch.
LEMMA FollowsPush ==
    ASSUME NothingFails, IInv, UsersSafe, FilesFollow, Push
    PROVE  FilesFollow'
<1>1. /\ UNCHANGED <<svnLog, svnTodo, gitTodo, conflicts>>
      /\ pc = "push" /\ pc' = "s2g_record"
      /\ remote' = Append(remote, unpushed)
      /\ base' = Len(remote') /\ unpushed' = NoCommit
  BY DEF Push, PushAccepted, Goto, db
<1>2. remote \in Seq(Commit) /\ unpushed \in Commit /\ Len(remote) \in Nat
  BY <1>1 DEF IInv, TypeOK, PhaseOK
<1>3. gitTodo \subseteq 1..Len(remote)
  BY DEF IInv, TypeOK
<1>4. ~BeforeCycle' /\ ~BeforeCycle /\ ~BeforeFetch' /\ ~BeforeFetch /\ Compared
  BY <1>1 DEF BeforeCycle, BeforeFetch, Compared
<1>5. /\ SvnLeft = svnTodo /\ SvnLeft' = svnTodo
      /\ GitLeft = gitTodo /\ GitLeft' = gitTodo
      /\ SvnHead' = SvnHead
  BY <1>1, <1>4 DEF SvnLeft, GitLeft, SvnHead
<1>6. GitHead' = GitHead
  <2>1. GitHead = unpushed.tree
    BY <1>2, <1>4, NoCommitAssumption DEF GitHead, LocalTree
  <2>2. Len(remote') = Len(remote) + 1
    BY <1>1, <1>2, AppendKeeps
  <2>3. GitHead' = TreeAt(remote', Len(remote) + 1)
    BY <1>1, <1>4, <2>2 DEF GitHead, LocalTree
  <2> QED BY <1>1, <1>2, <2>1, <2>3, DeltaAppend
<1>7. \A s \in gitTodo : remote'[s] = remote[s]
  BY <1>1, <1>2, <1>3, AppendKeeps
<1>8. ASSUME NEW f \in Files \ conflicts PROVE FileFollows(f)'
  <2>1. FileFollows(f)
    BY <1>8 DEF FilesFollow
  <2>2. /\ Changing(remote', gitTodo, f) = Changing(remote, gitTodo, f)
        /\ Newest(remote', gitTodo, f) = Newest(remote, gitTodo, f)
    <3>1. f \in Files /\ Within(gitTodo, remote)
      BY <1>3, <1>8 DEF Within
    <3> QED BY <1>1, <1>2, <3>1, NewestKept
  <2>3. /\ Changing(remote, GitLeft, f)' = Changing(remote, gitTodo, f)
        /\ Newest(remote, GitLeft, f)' = Newest(remote, gitTodo, f)
        /\ Changing(svnLog, SvnLeft, f)' = Changing(svnLog, svnTodo, f)
        /\ Changing(svnLog, svnTodo, f)' = Changing(svnLog, svnTodo, f)
        /\ Newest(svnLog, SvnLeft, f)' = Newest(svnLog, svnTodo, f)
    BY <1>1, <1>5, <2>2
  <2>4. Newest(remote, gitTodo, f) \subseteq gitTodo
    BY DEF Newest, Changing, MaxOf
  <2>5. \A q \in Newest(svnLog, SvnLeft, f)' : svnLog'[q].tree[f] = SvnHead'[f]
    BY <1>1, <1>5, <2>1, <2>3 DEF FileFollows
  <2>6. \A s \in Newest(remote, GitLeft, f)' : remote'[s].tree[f] = GitHead'[f]
    BY <1>5, <1>6, <1>7, <2>1, <2>3, <2>4 DEF FileFollows
  <2>7. \A q \in Changing(svnLog, svnTodo, f)', s \in Newest(remote, GitLeft, f)' :
            svnLog'[q].tree[f] = remote'[s].tree[f]
    <3>1. \A q \in Changing(svnLog, svnTodo, f), s \in Newest(remote, gitTodo, f) :
            svnLog[q].tree[f] = remote[s].tree[f]
      BY <1>4, <1>5, <2>1 DEF FileFollows
    <3> SUFFICES ASSUME NEW q \in Changing(svnLog, svnTodo, f)',
                        NEW s \in Newest(remote, GitLeft, f)'
                 PROVE  svnLog'[q].tree[f] = remote'[s].tree[f]
      OBVIOUS
    <3>2. q \in Changing(svnLog, svnTodo, f) /\ s \in Newest(remote, gitTodo, f)
      BY <2>3
    <3>3. svnLog'[q] = svnLog[q] /\ remote'[s] = remote[s]
      BY <1>1, <1>7, <2>4, <3>2
    <3> QED BY <3>1, <3>2, <3>3
  <2>8. (Changing(svnLog, SvnLeft, f) = {} /\ Changing(remote, GitLeft, f) = {})' =>
            SvnHead'[f] = GitHead'[f]
    BY <1>5, <1>6, <2>1, <2>3 DEF FileFollows
  <2> QED BY <2>5, <2>6, <2>7, <2>8 DEF FileFollows
<1> QED BY <1>1, <1>8 DEF FilesFollow

\* A commit with nothing left to commit in SVN is there already.
LEMMA FollowsPrepare ==
    ASSUME NothingFails, IInv, OnceInv, UsersSafe, FilesFollow,
           PrepareWorkingCopy
    PROVE  FilesFollow'
<1>1. PICK s \in gitTodo :
        /\ \A t \in gitTodo : s <= t
        /\ cur' = s /\ gitTodo' = gitTodo \ {s}
        /\ \/ PendingFiles(s, Len(svnLog)) = {} /\ pc' = "skip_kv"
           \/ pc' = "svn_commit"
  BY DEF PrepareWorkingCopy, IsOldest, Goto
<1>2. /\ UNCHANGED <<svnLog, remote, base, unpushed, conflicts, svnTodo>>
      /\ pc = "git_to_svn"
  BY DEF PrepareWorkingCopy, servers, clone, db
<1>3. ~BeforeCycle' /\ ~BeforeCycle /\ ~BeforeFetch' /\ ~BeforeFetch /\ Compared
  BY <1>1, <1>2 DEF BeforeCycle, BeforeFetch, Compared
<1>4. svnTodo = {} /\ gitTodo \subseteq GitPositions /\ gitTodo \subseteq Nat
  BY <1>2, OrderTypes DEF OnceInv, RevisionsAhead
<1>5. /\ SvnLeft = {} /\ SvnLeft' = {} /\ svnTodo' = {}
      /\ GitLeft = gitTodo /\ GitHead' = GitHead /\ SvnHead' = SvnHead
  BY <1>2, <1>3, <1>4 DEF SvnLeft, GitLeft, GitHead, LocalTree, SvnHead
<1>6. CASE pc' = "svn_commit"
  <2>1. GitLeft' = GitLeft
    BY <1>1, <1>3, <1>5, <1>6 DEF GitLeft
  <2> QED BY <1>2, <1>3, <1>5, <2>1, FollowsSame
<1>7. CASE PendingFiles(s, Len(svnLog)) = {} /\ pc' = "skip_kv"
  <2>1. GitLeft' = GitLeft \ {s}
    BY <1>1, <1>3, <1>5, <1>7 DEF GitLeft
  <2>2. \A f \in Delta(remote, s) : remote[s].tree[f] = SvnHead[f]
    BY <1>7 DEF PendingFiles, SvnHead, Delta
  <2>3. \A f \in Files : SvnHead'[f] =
          IF f \in Delta(remote, s) THEN remote[s].tree[f] ELSE SvnHead[f]
    BY <1>5, <2>2
  <2>4. s \in GitLeft /\ GitLeft \subseteq Nat /\ \A t \in GitLeft : s <= t
    BY <1>1, <1>4, <1>5
  <2>5. UNCHANGED <<remote, conflicts>>
    BY <1>2
  <2> QED BY <1>5, <2>1, <2>3, <2>4, <2>5, FollowsNext
<1> QED BY <1>1, <1>6, <1>7

\* A commit to SVN leaves there what the commit it copies left on the branch.
LEMMA FollowsCommit ==
    ASSUME NothingFails, IInv, OnceInv, UsersSafe, CommitsSafe, FilesFollow,
           CommitToSvn
    PROVE  FilesFollow'
<1>1. /\ UNCHANGED <<remote, base, unpushed, conflicts, svnTodo, gitTodo, cur>>
      /\ pc = "svn_commit" /\ pc' = "g2s_record"
  BY DEF CommitToSvn, Goto, clone, db
<1>2. ~BeforeCycle' /\ ~BeforeCycle /\ ~BeforeFetch' /\ ~BeforeFetch /\ Compared
  BY <1>1 DEF BeforeCycle, BeforeFetch, Compared
<1>3. /\ svnTodo = {} /\ gitTodo \subseteq Nat /\ cur \in GitPositions
      /\ cur \in Nat /\ \A t \in gitTodo : cur < t
  BY <1>1, OrderTypes DEF OnceInv, RevisionsAhead, CommitsAhead, Copying
<1>4. /\ SvnLeft = {} /\ SvnLeft' = {} /\ svnTodo' = {}
      /\ GitLeft = gitTodo \cup {cur} /\ GitLeft' = gitTodo
      /\ GitHead' = GitHead
  BY <1>1, <1>2, <1>3 DEF SvnLeft, GitLeft, GitHead, LocalTree
<1>5. /\ cur \in GitLeft /\ GitLeft \subseteq Nat
      /\ \A t \in GitLeft : cur <= t
      /\ GitLeft' = GitLeft \ {cur}
  BY <1>3, <1>4
<1> DEFINE tree == Overlay(TreeAt(svnLog, Len(svnLog)), remote, cur,
                           PendingFiles(cur, wcRev))
           c == [tree |-> tree, origin |-> cur, marked |-> TRUE, blank |-> FALSE]
<1>6. wcRev = Len(svnLog)
  BY <1>1 DEF CommitsSafe
<1>7. svnLog' = Append(svnLog, c)
  BY DEF CommitToSvn, SvnCommitAccepted
<1>8. svnLog \in Seq(Commit) /\ remote \in Seq(Commit) /\ Len(svnLog) \in Nat
  BY DEF IInv, TypeOK
<1>9. c \in Commit
  <2>1. TreeAt(svnLog, Len(svnLog)) \in Tree
    BY <1>8, TreeAtType
  <2>2. tree \in Tree
    BY <1>3, <1>8, <2>1, OverlayType DEF GitPositions
  <2> QED BY <1>3, <2>2 DEF Commit
<1>10. SvnHead' = tree
  <2> HIDE DEF tree
  <2>1. c.tree = tree
    OBVIOUS
  <2> HIDE DEF c
  <2>2. Len(svnLog') = Len(svnLog) + 1
    BY <1>7, <1>8, <1>9, AppendKeeps
  <2>3. SvnHead' = TreeAt(svnLog', Len(svnLog) + 1)
    BY <2>2 DEF SvnHead
  <2> QED BY <1>7, <1>8, <1>9, <2>1, <2>3, DeltaAppend
<1>11. \A f \in Files : SvnHead'[f] =
          IF f \in Delta(remote, cur) THEN remote[cur].tree[f] ELSE SvnHead[f]
  BY <1>6, <1>10 DEF Overlay, PendingFiles, SvnHead, Delta
<1>12. UNCHANGED <<remote, conflicts>>
  BY <1>1
<1> QED BY <1>4, <1>5, <1>11, <1>12, FollowsNext

\* What a user commits between cycles is left to be copied, and is the newest.
LEMMA FollowsUsers ==
    ASSUME UsersWait, IInv, FilesFollow, UserSvnCommit \/ UserGitPush
    PROVE  FilesFollow'
<1>1. /\ UNCHANGED <<conflicts, svnTodo, gitTodo, pc>> /\ pc = "idle"
      /\ UNCHANGED <<wmRev, wmSha, kvRev, kvSha, records>>
      /\ UserSvnCommit => remote' = remote
      /\ UserGitPush => svnLog' = svnLog
  BY DEF UsersWait, UserSvnCommit, UserGitPush, UserMayCommit, db, memory
<1>2. BeforeCycle' /\ BeforeCycle /\ BeforeFetch' /\ BeforeFetch /\ ~Compared'
  BY <1>1 DEF BeforeCycle, BeforeFetch, Compared
<1>3. (\A r : Covered(r)' = Covered(r)) /\ SinceSha' = SinceSha
  BY <1>1, WatermarksSame
<1>4. /\ svnLog \in Seq(Commit) /\ remote \in Seq(Commit)
      /\ Len(svnLog) \in Nat /\ Len(remote) \in Nat
  BY DEF IInv, TypeOK
<1>5. /\ SvnLeft \subseteq 1..Len(svnLog) /\ GitLeft \subseteq 1..Len(remote)
  BY <1>1, <1>2 DEF SvnLeft, GitLeft, SvnPositions, GitPositions
<1>6. CASE UserSvnCommit
  <2>1. PICK f \in Files, c \in Contents \cup {Absent}, m \in MarkerChoices,
             b \in BlankChoices : svnLog' = UserEdit(svnLog, f, c, m, b)
    BY <1>6 DEF UserSvnCommit
  <2> DEFINE e == [tree |-> [TreeAt(svnLog, Len(svnLog)) EXCEPT ![f] = c],
                   origin |-> 0, marked |-> m, blank |-> b]
             n == Len(svnLog) + 1
  <2>2. m = FALSE /\ b \in BOOLEAN
    BY TeamSyncAssumption DEF UsersWait
  <2>3. svnLog' = Append(svnLog, e) /\ ~e.marked
    BY <2>1, <2>2 DEF UserEdit
  <2>4. e \in Commit
    <3>1. TreeAt(svnLog, Len(svnLog)) \in Tree
      BY <1>4, TreeAtType
    <3> QED BY <2>2, <3>1 DEF Commit, Tree
  <2> HIDE DEF e
  <2>5. /\ Len(svnLog') = n /\ svnLog'[n] = e
        /\ \A i \in 1..Len(svnLog) : svnLog'[i] = svnLog[i]
        /\ SvnPositions' = SvnPositions \cup {n}
    <3>1. /\ Len(svnLog') = n /\ svnLog'[n] = e
          /\ \A i \in 1..Len(svnLog) : svnLog'[i] = svnLog[i]
      BY <1>4, <2>3, <2>4, AppendKeeps
    <3> QED BY <1>4, <3>1 DEF SvnPositions
  <2>6. \A i \in SvnPositions \cup {n} : Wanted(i)' <=> Wanted(i) \/ i = n
    <3>1. \A i \in SvnPositions : svnLog'[i] = svnLog[i] /\ i # n
      BY <1>4, <2>5 DEF SvnPositions
    <3>2. ~Covered(n)
      BY CoveredExists
    <3>3. ~svnLog'[n].marked
      BY <2>3, <2>5
    <3> HIDE DEF n
    <3>4. ASSUME NEW i \in SvnPositions \cup {n}
          PROVE  Wanted(i)' <=> Wanted(i) \/ i = n
      <4>1. Wanted(i)' <=> ~svnLog'[i].marked /\ ~Covered(i)
        BY <1>3 DEF Wanted
      <4> QED BY <3>1, <3>2, <3>3, <4>1 DEF Wanted
    <3> QED BY <3>4
  <2>7. SvnLeft' = SvnLeft \cup {n}
    <3>1. SvnLeft = {r \in SvnPositions : Wanted(r)}
      BY <1>2 DEF SvnLeft
    <3>2. SvnLeft' = {r \in SvnPositions' : Wanted(r)'}
      BY <1>2 DEF SvnLeft
    <3>3. SvnPositions' = SvnPositions \cup {n} /\ n \notin SvnPositions
      BY <1>4, <2>5 DEF SvnPositions
    <3> HIDE DEF n
    <3> QED BY <2>6, <3>1, <3>2, <3>3
  <2>8. GitLeft' = GitLeft /\ GitHead' = GitHead /\ SvnHead' = e.tree
        /\ UNCHANGED remote
    <3>1. GitLeft' = GitLeft /\ GitHead' = GitHead
      BY <1>1, <1>2, <1>3, <1>6 DEF GitLeft, GitHead, GitPositions
    <3>2. SvnHead' = TreeAt(svnLog', n)
      BY <2>5 DEF SvnHead
    <3> QED BY <1>1, <1>4, <1>6, <2>3, <2>4, <3>1, <3>2, DeltaAppend
  <2>9. ASSUME NEW g \in Files \ conflicts PROVE FileFollows(g)'
    <3>1. FileFollows(g)
      BY <2>9 DEF FilesFollow
    <3>2. /\ Changing(remote, GitLeft, g)' = Changing(remote, GitLeft, g)
          /\ Newest(remote, GitLeft, g)' = Newest(remote, GitLeft, g)
          /\ Changing(svnLog, SvnLeft, g)' = Changing(svnLog', SvnLeft \cup {n}, g)
          /\ Newest(svnLog, SvnLeft, g)' = Newest(svnLog', SvnLeft \cup {n}, g)
      BY <2>7, <2>8
    <3>3. \A s \in Newest(remote, GitLeft, g)' : remote'[s].tree[g] = GitHead'[g]
      BY <2>8, <3>1, <3>2 DEF FileFollows
    <3>4. CASE e.tree[g] # SvnHead[g]
      <4>1. /\ Newest(svnLog', SvnLeft \cup {n}, g) = {n}
            /\ n \in Changing(svnLog', SvnLeft \cup {n}, g)
        <5>1. g \in Files /\ Within(SvnLeft, svnLog)
          BY <1>5, <2>9 DEF Within
        <5>2. e.tree[g] # TreeAt(svnLog, Len(svnLog))[g]
          BY <3>4 DEF SvnHead
        <5> QED BY <1>4, <2>3, <2>4, <5>1, <5>2, NewestLast
      <4> QED BY <1>2, <2>5, <2>8, <3>2, <3>3, <4>1 DEF FileFollows
    <3>5. CASE e.tree[g] = SvnHead[g]
      <4>1. /\ Newest(svnLog', SvnLeft \cup {n}, g) = Newest(svnLog, SvnLeft, g)
            /\ Changing(svnLog', SvnLeft \cup {n}, g) = Changing(svnLog, SvnLeft, g)
        <5>1. g \in Files /\ Within(SvnLeft, svnLog)
          BY <1>5, <2>9 DEF Within
        <5>2. e.tree[g] = TreeAt(svnLog, Len(svnLog))[g]
          BY <3>5 DEF SvnHead
        <5> QED BY <1>4, <2>3, <2>4, <5>1, <5>2, NewestSame
      <4>2. Newest(svnLog, SvnLeft, g) \subseteq 1..Len(svnLog)
        BY <1>5 DEF Newest, Changing, MaxOf
      <4>3. \A r \in Newest(svnLog, SvnLeft, g)' : svnLog'[r].tree[g] = SvnHead'[g]
        BY <2>5, <2>8, <3>1, <3>2, <3>5, <4>1, <4>2 DEF FileFollows
      <4>4. (Changing(svnLog, SvnLeft, g) = {} /\ Changing(remote, GitLeft, g) = {})' =>
                SvnHead'[g] = GitHead'[g]
        BY <2>8, <3>1, <3>2, <3>5, <4>1 DEF FileFollows
      <4> QED BY <1>2, <3>3, <4>3, <4>4 DEF FileFollows
    <3> QED BY <3>4, <3>5
  <2> QED BY <1>1, <2>9 DEF FilesFollow
<1>7. CASE UserGitPush
  <2>1. PICK f \in Files, c \in Contents \cup {Absent}, m \in MarkerChoices :
             remote' = UserEdit(remote, f, c, m, FALSE)
    BY <1>7 DEF UserGitPush
  <2> DEFINE e == [tree |-> [TreeAt(remote, Len(remote)) EXCEPT ![f] = c],
                   origin |-> 0, marked |-> m, blank |-> FALSE]
             n == Len(remote) + 1
  <2>2. m = FALSE
    BY DEF UsersWait
  <2>3. remote' = Append(remote, e) /\ ~e.marked
    BY <2>1, <2>2 DEF UserEdit
  <2>4. e \in Commit
    <3>1. TreeAt(remote, Len(remote)) \in Tree
      BY <1>4, TreeAtType
    <3> QED BY <2>2, <3>1 DEF Commit, Tree
  <2> HIDE DEF e
  <2>5. /\ Len(remote') = n /\ remote'[n] = e
        /\ \A i \in 1..Len(remote) : remote'[i] = remote[i]
        /\ GitPositions' = GitPositions \cup {n}
    <3>1. /\ Len(remote') = n /\ remote'[n] = e
          /\ \A i \in 1..Len(remote) : remote'[i] = remote[i]
      BY <1>4, <2>3, <2>4, AppendKeeps
    <3> QED BY <1>4, <3>1 DEF GitPositions
  <2>6. n > SinceSha
    BY SinceShaType
  <2>7. GitLeft' = GitLeft \cup {n}
    <3>1. \A s \in GitPositions : remote'[s] = remote[s]
      BY <2>5 DEF GitPositions
    <3> QED BY <1>2, <1>3, <2>3, <2>5, <2>6, <3>1 DEF GitLeft
  <2>8. SvnLeft' = SvnLeft /\ GitHead = TreeAt(remote, Len(remote))
        /\ SvnHead' = SvnHead /\ GitHead' = e.tree /\ UNCHANGED svnLog
    <3>1. SvnLeft' = SvnLeft /\ SvnHead' = SvnHead /\ UNCHANGED svnLog
      BY <1>1, <1>2, <1>3, <1>7 DEF SvnLeft, SvnHead, SvnPositions, Wanted
    <3>2. GitHead' = TreeAt(remote', n) /\ GitHead = TreeAt(remote, Len(remote))
      BY <1>2, <2>5 DEF GitHead
    <3> QED BY <1>4, <2>3, <2>4, <3>1, <3>2, DeltaAppend
  <2>9. ASSUME NEW g \in Files \ conflicts PROVE FileFollows(g)'
    <3>1. FileFollows(g)
      BY <2>9 DEF FilesFollow
    <3>2. /\ Changing(svnLog, SvnLeft, g)' = Changing(svnLog, SvnLeft, g)
          /\ Newest(svnLog, SvnLeft, g)' = Newest(svnLog, SvnLeft, g)
          /\ Changing(remote, GitLeft, g)' = Changing(remote', GitLeft \cup {n}, g)
          /\ Newest(remote, GitLeft, g)' = Newest(remote', GitLeft \cup {n}, g)
      BY <2>7, <2>8
    <3>3. \A r \in Newest(svnLog, SvnLeft, g)' : svnLog'[r].tree[g] = SvnHead'[g]
      BY <2>8, <3>1, <3>2 DEF FileFollows
    <3>4. CASE e.tree[g] # GitHead[g]
      <4>1. /\ Newest(remote', GitLeft \cup {n}, g) = {n}
            /\ n \in Changing(remote', GitLeft \cup {n}, g)
        <5>1. g \in Files /\ Within(GitLeft, remote)
          BY <1>5, <2>9 DEF Within
        <5>2. e.tree[g] # TreeAt(remote, Len(remote))[g]
          BY <2>8, <3>4
        <5> QED BY <1>4, <2>3, <2>4, <5>1, <5>2, NewestLast
      <4> QED BY <1>2, <2>5, <2>8, <3>2, <3>3, <4>1 DEF FileFollows
    <3>5. CASE e.tree[g] = GitHead[g]
      <4>1. /\ Newest(remote', GitLeft \cup {n}, g) = Newest(remote, GitLeft, g)
            /\ Changing(remote', GitLeft \cup {n}, g) = Changing(remote, GitLeft, g)
        <5>1. g \in Files /\ Within(GitLeft, remote)
          BY <1>5, <2>9 DEF Within
        <5>2. e.tree[g] = TreeAt(remote, Len(remote))[g]
          BY <2>8, <3>5
        <5> QED BY <1>4, <2>3, <2>4, <5>1, <5>2, NewestSame
      <4>2. Newest(remote, GitLeft, g) \subseteq 1..Len(remote)
        BY <1>5 DEF Newest, Changing, MaxOf
      <4>3. \A s \in Newest(remote, GitLeft, g)' : remote'[s].tree[g] = GitHead'[g]
        BY <2>5, <2>8, <3>1, <3>2, <3>5, <4>1, <4>2 DEF FileFollows
      <4>4. (Changing(svnLog, SvnLeft, g) = {} /\ Changing(remote, GitLeft, g) = {})' =>
                SvnHead'[g] = GitHead'[g]
        BY <2>8, <3>1, <3>2, <3>5, <4>1 DEF FileFollows
      <4> QED BY <1>2, <3>3, <4>3, <4>4 DEF FileFollows
    <3> QED BY <3>4, <3>5
  <2> QED BY <1>1, <2>9 DEF FilesFollow
<1> QED BY <1>6, <1>7

\* A set of numbers with a bound has a greatest.
LEMMA MaxExists ==
    ASSUME NEW n \in Nat, NEW X, X # {}, X \subseteq 0..n
    PROVE  \E x \in X : x \in MaxOf(X)
<1> DEFINE Lower == {k \in Nat : n - k \in X}
           Less == OpToRel(<, Nat)
<1>1. \A a, b \in Nat : <<a, b>> \in Less <=> a < b
  BY DEF OpToRel
<1>2. IsWellFoundedOn(Less, Nat)
  BY NatLessThanWellFounded
<1>3. Lower \subseteq Nat
  OBVIOUS
<1>4. Lower # {}
  <2>1. PICK x \in X : x \in 0..n
    OBVIOUS
  <2>2. n - x \in Nat /\ n - (n - x) = x
    BY <2>1
  <2> QED BY <2>1, <2>2
<1> HIDE DEF Lower, Less
<1>5. PICK k \in Lower : \A j \in Lower : ~(<<j, k>> \in Less)
  BY <1>2, <1>3, <1>4, WFMin
<1>6. k \in Nat /\ n - k \in X
  BY DEF Lower
<1>7. ASSUME NEW y \in X PROVE y <= n - k
  <2>1. y \in 0..n /\ n - y \in Nat /\ n - (n - y) = y
    OBVIOUS
  <2>2. n - y \in Lower
    BY <2>1 DEF Lower
  <2>3. ~(n - y < k)
    BY <1>1, <1>5, <1>6, <2>1, <2>2
  <2> QED BY <1>6, <2>1, <2>3
<1> QED BY <1>6, <1>7 DEF MaxOf

\* There is always a revision a cycle would start from.
LEMMA StoredExists ==
    ASSUME IInv PROVE \E stored \in StoredRev : TRUE
<1>1. /\ Len(svnLog) \in Nat
      /\ \A i \in DOMAIN records : records[i].rev \in 1..Len(svnLog)
  BY DEF IInv, RecordsTruthful, TypeOK
<1> DEFINE X == {records[i].rev : i \in DOMAIN records} \cup {0}
<1>2. X # {} /\ X \subseteq 0..Len(svnLog)
  BY <1>1
<1> HIDE DEF X
<1>3. \E x \in X : x \in MaxOf(X)
  BY <1>1, <1>2, MaxExists
<1>4. \E stored \in RecordedRev : TRUE
  BY <1>3 DEF RecordedRev, X
<1> QED BY <1>4 DEF StoredRev

\* At the start both sides hold nothing, or what the import left there.
LEMMA InitCalm == Init => CalmInv
<1> SUFFICES ASSUME Init, Len(remote) <= GitFetchCap
             PROVE  TodoWhole /\ FilesFollow
  BY DEF CalmInv
<1> DEFINE first == [tree |-> EmptyTree, origin |-> 0, marked |-> FALSE,
                     blank |-> FALSE]
<1>1. PICK seeded \in BOOLEAN :
        /\ svnLog = <<first>>
        /\ remote = <<[tree |-> EmptyTree, origin |-> IF seeded THEN 1 ELSE 0,
                       marked |-> seeded, blank |-> FALSE]>>
  BY DEF Init, InitLogs
<1>2. /\ pc = "idle" /\ base = 1 /\ svnTodo = {} /\ gitTodo = {}
  BY DEF Init
<1>3. BeforeCycle /\ BeforeFetch /\ ~Compared
  BY <1>2 DEF BeforeCycle, BeforeFetch, Compared
<1>4. /\ Len(svnLog) = 1 /\ Len(remote) = 1
      /\ svnLog[1].tree = EmptyTree /\ remote[1].tree = EmptyTree
      /\ ~svnLog[1].marked
  BY <1>1
<1>5. TodoWhole
  BY <1>2, <1>3, <1>4
     DEF TodoWhole, SvnTodoWhole, GitTodoWhole, FirstCycle, RecordingRevision
<1>6. SvnHead = EmptyTree /\ GitHead = EmptyTree
  BY <1>3, <1>4 DEF SvnHead, GitHead, TreeAt
<1>7. SvnLeft \subseteq {1} /\ GitLeft \subseteq {1}
  BY <1>3, <1>4 DEF SvnLeft, GitLeft, SvnPositions, GitPositions
<1>8. ASSUME NEW f \in Files PROVE FileFollows(f)
  <2>1. 1 - 1 = 0 /\ TreeAt(svnLog, 0) = EmptyTree /\ TreeAt(remote, 0) = EmptyTree
    BY DEF TreeAt
  <2>2. Delta(svnLog, 1) = {} /\ Delta(remote, 1) = {}
    BY <1>4, <2>1 DEF Delta
  <2>3. Changing(svnLog, SvnLeft, f) = {} /\ Changing(remote, GitLeft, f) = {}
    BY <1>7, <2>2 DEF Changing
  <2>4. Newest(svnLog, SvnLeft, f) = {} /\ Newest(remote, GitLeft, f) = {}
    BY <2>3 DEF Newest, MaxOf
  <2> QED BY <1>3, <1>6, <2>4 DEF FileFollows
<1> QED BY <1>5, <1>8 DEF FilesFollow

\* Every step keeps what is left whole, and the files with it.
LEMMA NextCalm ==
    ASSUME Calm, IInv, IInv', OnceInv, UsersSafe, CommitsSafe, CalmInv, [Next]_vars
    PROVE  CalmInv'
<1> SUFFICES ASSUME resets' = 0, Len(remote') <= GitFetchCap
             PROVE  TodoWhole' /\ FilesFollow'
  BY TeamSyncAssumption DEF CalmInv
<1>1. UsersWait /\ NothingFails
  BY DEF Calm
<1>2. /\ resets = 0 /\ ~CanFail("db_error")
      /\ \/ UserSvnCommit \/ UserGitPush \/ StartCycle \/ FetchSvn
         \/ FetchGit \/ DetectConflicts \/ ApplyRevision \/ Push
         \/ RecordRevision \/ SaveRevisionKey \/ SaveRevisionRow
         \/ RevisionsApplied \/ PrepareWorkingCopy \/ SkipKey \/ SkipRow
         \/ CommitToSvn \/ RecordCommit \/ SaveCommitKey \/ SaveCommitRow
         \/ FinishCycle \/ UNCHANGED vars
  BY CalmSteps
<1>3. Len(remote) <= GitFetchCap
  BY <1>1, GitUsersStep, TeamSyncAssumption
<1>4. TodoWhole /\ FilesFollow
  BY <1>2, <1>3 DEF CalmInv
<1>5. TodoWhole'
  BY <1>1, <1>2, <1>3, <1>4, WholeMoves, WholeWrites, WholeGrows
<1>6. FilesFollow'
  <2>1. CASE UserSvnCommit \/ UserGitPush
    BY <1>1, <1>4, <2>1, FollowsUsers
  <2>2. CASE \/ StartCycle \/ FetchSvn \/ FetchGit \/ RevisionsApplied
             \/ FinishCycle \/ UNCHANGED vars
    BY <1>1, <1>3, <1>4, <2>2, FollowsMoves
  <2>3. CASE \/ RecordRevision \/ SaveRevisionKey \/ SaveRevisionRow
             \/ SkipKey \/ SkipRow
             \/ RecordCommit \/ SaveCommitKey \/ SaveCommitRow
    BY <1>2, <1>4, <2>3, FollowsWrites
  <2>4. CASE DetectConflicts
    BY <1>1, <1>4, <2>4, FollowsDetect
  <2>5. CASE ApplyRevision
    BY <1>1, <1>4, <2>5, FollowsApply
  <2>6. CASE Push
    BY <1>1, <1>4, <2>6, FollowsPush
  <2>7. CASE PrepareWorkingCopy
    BY <1>1, <1>4, <2>7, FollowsPrepare
  <2>8. CASE CommitToSvn
    BY <1>1, <1>4, <2>8, FollowsCommit
  <2> QED BY <1>2, <2>1, <2>2, <2>3, <2>4, <2>5, <2>6, <2>7, <2>8
<1> QED BY <1>5, <1>6

\* A cycle that finds nothing to fetch on either side has nothing left to copy.
LEMMA NothingLeft ==
    ASSUME IInv, NothingToSync, Len(remote) <= GitFetchCap
    PROVE  SvnLeft = {} /\ GitLeft = {} /\ BeforeCycle /\ BeforeFetch
<1>1. BeforeCycle /\ BeforeFetch
  BY DEF NothingToSync, BeforeCycle, BeforeFetch
<1>2. PICK stored \in StoredRev : TRUE
  BY StoredExists
<1>3. NewRevisions(stored) = {} /\ stored \in Nat /\ Len(svnLog) \in Nat
  BY StoredRevType DEF NothingToSync, IInv, TypeOK
<1>4. ASSUME NEW r \in SvnPositions, Wanted(r) PROVE FALSE
  <2>1. r \in Nat \ {0} /\ r <= Len(svnLog)
    BY <1>3 DEF SvnPositions
  <2>2. ~(r <= stored)
    BY <1>4, <2>1, StoredCovers DEF Wanted
  <2>3. r \in (stored + 1)..Len(svnLog)
    BY <1>3, <2>1, <2>2
  <2> QED BY <1>3, <1>4, <2>3 DEF NewRevisions, IsEcho, Wanted
<1>5. SvnLeft = {}
  BY <1>1, <1>4 DEF SvnLeft
<1>6. {s \in CommitsSince(SinceSha) : ~remote[s].marked} = {}
  BY DEF NothingToSync, IsEcho
<1>7. GitLeft = {}
  BY <1>1, <1>6, SinceAll DEF GitLeft
<1> QED BY <1>1, <1>5, <1>7

\* While nothing fails and users wait for the end of a cycle, a daemon with
\* nothing left to fetch has made both repositories hold the same files, but
\* for those in the conflict queue: what DetectConflicts keeps out of the
\* queue, ApplyRevision and CommitToSvn bring to the same contents.
THEOREM NothingLeftMeansConverged ==
    ASSUME UsersDuringCycle = FALSE, MarkerChoices = {FALSE}, FaultKinds = {},
           MaxResolves = 0
    PROVE  Spec => [](Len(remote) <= GitFetchCap => ConvergedOrQueued)
<1>1. Calm /\ UsersWait /\ NothingFails
  BY DEF Calm, UsersWait, NothingFails
<1>2. Init => UsersSafe /\ CommitsSafe /\ CalmInv
  BY <1>1, InitUsersSafe, InitCommitsSafe, InitCalm
<1>3. IInv /\ OnceInv /\ IInv' /\ OnceInv' /\ UsersSafe /\ CommitsSafe
        /\ CalmInv /\ [Next]_vars => (UsersSafe /\ CommitsSafe /\ CalmInv)'
  BY <1>1, UsersSafeSteps, CommitsSafeStep, NextCalm
<1>4. IInv /\ CalmInv => (Len(remote) <= GitFetchCap => ConvergedOrQueued)
  <2> SUFFICES ASSUME IInv, CalmInv, Len(remote) <= GitFetchCap,
                      NothingToSync, resets = 0, NEW f \in Files \ conflicts
               PROVE  TreeAt(svnLog, Len(svnLog))[f] = TreeAt(remote, Len(remote))[f]
    BY DEF ConvergedOrQueued
  <2>1. FileFollows(f)
    BY DEF CalmInv, FilesFollow
  <2>2. SvnLeft = {} /\ GitLeft = {} /\ BeforeFetch
    BY NothingLeft
  <2>3. Changing(svnLog, SvnLeft, f) = {} /\ Changing(remote, GitLeft, f) = {}
    BY <2>2 DEF Changing
  <2>4. SvnHead[f] = GitHead[f]
    BY <2>1, <2>3 DEF FileFollows
  <2> QED BY <2>2, <2>4 DEF SvnHead, GitHead
<1> QED BY <1>2, <1>3, <1>4, OnceInvariant, PTL DEF Spec
=============================================================================
