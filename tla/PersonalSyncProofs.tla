------------------------- MODULE PersonalSyncProofs -------------------------
(***************************************************************************)
(* Proofs about PersonalSync for every choice of its constants: any pull   *)
(* requests, any number of revisions, faults, new clones and resets.       *)
(***************************************************************************)
EXTENDS PersonalSync, SequenceTheorems, FiniteSetTheorems, TLAPS

-----------------------------------------------------------------------------
(* The inductive invariant.                                                *)

\* What the locals of the running cycle mean in each phase.
PhaseOK ==
    /\ pc \in {"mirror", "push", "record", "advance"} => rev = wm + 1
    /\ pc \in {"push", "record", "advance"} => rev <= upto
    /\ pc = "push" /\ ~Diverged => ahead # <<>> /\ ahead[Len(ahead)] = rev
    /\ pc = "record" => base \in DOMAIN remote /\ remote[base] = Mirror(rev)
    /\ pc = "advance" => Mirrors(rev) # {}
    /\ pc \in {"pr", "replay", "commit", "map", "fail"} => pr # 0
    /\ pc = "map" => /\ out \in DOMAIN svnLog
                     /\ \A k \in left : InHand(k) => svnLog[out].of = <<pr, k>>

\* The clone and the branch mirror revisions that exist, and a snapshot is
\* not newer than the latest import; SVN is never empty.
PointersOK ==
    /\ Len(svnLog) > 0
    /\ \A i \in DOMAIN ahead : ahead[i] \in DOMAIN svnLog
    /\ \A s \in DOMAIN remote :
         remote[s].kind = "mirror" => remote[s].n \in DOMAIN svnLog
    /\ \A s \in DOMAIN remote : remote[s].kind = "snapshot" => remote[s].n <= imported

\* A commit_map row names commits that exist, one the copy of the other.
MapOK ==
    \A row \in commitMap :
        /\ row.rev \in DOMAIN svnLog
        /\ row.sha[1] = 0 => /\ row.sha[2] \in DOMAIN remote
                             /\ remote[row.sha[2]] \in {Mirror(row.rev), Snapshot(row.rev)}
        /\ row.sha[1] # 0 => svnLog[row.rev].of = row.sha

\* While the marker or commit_map can be relied on, only users' revisions are
\* mirrored; without the marker every revision of the daemon has its row,
\* except the one it is about to record.
EchoOK ==
    marker \/ faults + resets = 0 =>
        /\ \A i \in DOMAIN ahead : IsUsers(ahead[i])
        /\ \A s \in DOMAIN remote : remote[s].kind = "mirror" => IsUsers(remote[s].n)
        /\ marker \/ \A r \in DOMAIN svnLog :
               IsUsers(r) \/ IsSvnRevSynced(r) \/ (pc = "map" /\ r = out)

IInv == TypeOK /\ PhaseOK /\ PointersOK /\ MapOK /\ WatermarkCoversMirror /\ EchoOK

-----------------------------------------------------------------------------
(* Lemmas about the data.                                                  *)

\* History `new` has every entry of `old` in its place.
Extends(new, old) ==
    /\ DOMAIN old \subseteq DOMAIN new
    /\ \A i \in DOMAIN old : new[i] = old[i]

\* Both histories are sequences of the right type, with integer lengths.
LEMMA Histories ==
    ASSUME TypeOK
    PROVE  /\ Len(svnLog) \in Nat /\ DOMAIN svnLog = 1..Len(svnLog)
           /\ \A r \in DOMAIN svnLog : svnLog[r] \in Revision
           /\ Len(remote) \in Nat /\ DOMAIN remote = 1..Len(remote)
           /\ \A s \in DOMAIN remote : remote[s] \in BranchCommit
           /\ Len(ahead) \in Nat /\ DOMAIN ahead = 1..Len(ahead)
           /\ \A i \in DOMAIN ahead : ahead[i] \in Nat
           /\ Len(prs) \in Nat /\ DOMAIN prs = 1..Len(prs)
  BY DEF TypeOK

\* A history to which one entry is appended.
LEMMA AppendExtends ==
    ASSUME NEW S, NEW log \in Seq(S), NEW x \in S
    PROVE  /\ Len(Append(log, x)) = Len(log) + 1
           /\ Extends(Append(log, x), log)
           /\ Append(log, x)[Len(Append(log, x))] = x
           /\ DOMAIN Append(log, x) = 1..Len(Append(log, x))
           /\ \A i \in DOMAIN Append(log, x) :
                i \in DOMAIN log \/ i = Len(Append(log, x))
<1> DEFINE new == Append(log, x)
<1>1. /\ new \in Seq(S) /\ Len(new) = Len(log) + 1
      /\ \A i \in 1..Len(log) : new[i] = log[i]
      /\ new[Len(log) + 1] = x
  BY AppendProperties
<1>2. DOMAIN log = 1..Len(log) /\ Len(log) \in Nat
  OBVIOUS
<1>3. DOMAIN new = 1..Len(new)
  BY <1>1
<1> HIDE DEF new
<1>4. Extends(new, log)
  BY <1>1, <1>2, <1>3 DEF Extends
<1>5. \A i \in DOMAIN new : i \in DOMAIN log \/ i = Len(new)
  BY <1>1, <1>2, <1>3
<1> QED BY <1>1, <1>3, <1>4, <1>5 DEF new

\* The rows of pr_sync_log are rows.
LEMMA LogRows ==
    ASSUME TypeOK
    PROVE  /\ DOMAIN prLog = 1..Len(prLog) /\ Len(prLog) \in Nat
           /\ \A i \in DOMAIN prLog : prLog[i] \in Row
  BY DEF TypeOK

\* The listing starts at some pull request.
LEMMA SinceType ==
    ASSUME TypeOK PROVE LastPrSyncTime \subseteq Nat
<1>1. \A i \in DOMAIN prLog : prLog[i].at \in Nat
  BY LogRows DEF Row
<1> QED BY <1>1 DEF LastPrSyncTime

\* A branch that only grows keeps its mirrored revisions.
LEMMA MirrorsKept ==
    ASSUME Extends(remote', remote), NEW r
    PROVE  Mirrors(r) \subseteq Mirrors(r)'
  BY DEF Extends, Mirrors, Mirror

-----------------------------------------------------------------------------
(* Type correctness of a step.                                             *)

\* TypeOK by what the variables belong to.
ServersType == /\ svnLog \in Seq(Revision) /\ remote \in Seq(BranchCommit)
               /\ prs \in Seq(PullRequest)
DiskType    == /\ base \in 0..Len(remote) /\ ahead \in Seq(Nat)
               /\ present \subseteq Nat /\ dirty \subseteq Nat \X Nat
DbType      == /\ wm \in 0..Len(svnLog) /\ prLog \in Seq(Row)
               /\ commitMap \subseteq [rev : Nat, sha : Nat \X Nat]
PhaseType   == pc \in {"idle", "mirror", "push", "record", "advance", "prs", "list",
                       "pr", "replay", "commit", "map", "fail", "down"}
MirrorType  == rev \in Nat /\ upto \in 0..Len(svnLog)
ReplayType  == /\ pr \in Nat /\ prUpto \in 0..Len(prs) /\ left \subseteq Nat
               /\ wcRev \in 0..Len(svnLog) /\ out \in 0..Len(svnLog)
RestType    == /\ marker \in BOOLEAN /\ imported \in 0..Len(svnLog)
               /\ faults \in Nat /\ repairs \in Nat /\ resets \in Nat

LEMMA TypeParts ==
    /\ TypeOK <=> /\ ServersType /\ DiskType /\ DbType /\ PhaseType
                  /\ MirrorType /\ ReplayType /\ RestType
    /\ TypeOK' <=> /\ ServersType' /\ DiskType' /\ DbType' /\ PhaseType'
                   /\ MirrorType' /\ ReplayType' /\ RestType'
  BY DEF TypeOK, ServersType, DiskType, DbType, PhaseType, MirrorType,
         ReplayType, RestType

\* What a step leaves alone keeps its type.
LEMMA Untouched ==
    ASSUME TypeOK
    PROVE  /\ UNCHANGED servers => ServersType'
           /\ UNCHANGED <<servers, disk>> => DiskType'
           /\ UNCHANGED <<servers, db>> => DbType'
           /\ UNCHANGED <<servers, mirror>> => MirrorType'
           /\ UNCHANGED <<servers, replay>> => ReplayType'
           /\ UNCHANGED <<servers, rest>> => RestType'
           /\ UNCHANGED <<servers, calm>> /\ faults' \in {faults, faults + 1} => RestType'
<1> USE TypeParts DEF servers
<1>1. UNCHANGED servers => ServersType'
  BY DEF ServersType
<1>2. UNCHANGED <<servers, disk>> => DiskType'
  BY DEF DiskType, disk
<1>3. UNCHANGED <<servers, db>> => DbType'
  BY DEF DbType, db
<1>4. UNCHANGED <<servers, mirror>> => MirrorType'
  BY DEF MirrorType, mirror
<1>5. UNCHANGED <<servers, replay>> => ReplayType'
  BY DEF ReplayType, replay
<1>6. UNCHANGED <<servers, rest>> => RestType'
  BY DEF RestType, rest
<1>7. UNCHANGED <<servers, calm>> /\ faults' \in {faults, faults + 1} => RestType'
  BY DEF RestType, calm
<1> QED BY <1>1, <1>2, <1>3, <1>4, <1>5, <1>6, <1>7

\* The first phase, apart from the steps that commit and push.
LEMMA MirrorStepsType ==
    ASSUME TypeOK, PhaseOK,
           \/ StartCycle \/ SkipRevision \/ PushRejected \/ RecordMirror
           \/ AdvanceWatermark \/ MirrorDone \/ MirrorFails
    PROVE  TypeOK'
<1> USE TypeParts, Untouched DEF db, rest, calm, EndOfMirror, Faulty
<1>1. Len(svnLog) \in Nat /\ Len(remote) \in Nat /\ Len(prs) \in Nat
  BY Histories DEF ServersType
<1>2. CASE StartCycle
  <2>1. MirrorType'
    BY <1>1, <1>2 DEF StartCycle, MirrorType, servers, FirstRevision, DbType
  <2> QED BY <1>2, <2>1 DEF StartCycle, PhaseType, FirstRevision
<1>3. CASE SkipRevision
  <2>1. MirrorType'
    BY <1>1, <1>3 DEF SkipRevision, MirrorType, servers
  <2>2. DbType'
    BY <1>1, <1>3 DEF SkipRevision, DbType, servers, MirrorType
  <2> QED BY <1>3, <2>1, <2>2 DEF SkipRevision, PhaseType
<1>4. CASE PushRejected
  <2>1. MirrorType'
    BY <1>1, <1>4 DEF PushRejected, MirrorType, servers
  <2> QED BY <1>4, <2>1 DEF PushRejected, PhaseType
<1>5. CASE RecordMirror
  <2>1. DbType'
    BY <1>1, <1>5 DEF RecordMirror, DbType, servers, MirrorType, DiskType
  <2> QED BY <1>5, <2>1 DEF RecordMirror, PhaseType
<1>6. CASE AdvanceWatermark
  <2>1. MirrorType'
    BY <1>1, <1>6 DEF AdvanceWatermark, MirrorType, servers
  <2>2. DbType'
    BY <1>1, <1>6 DEF AdvanceWatermark, DbType, servers, MirrorType, PhaseOK
  <2> QED BY <1>6, <2>1, <2>2 DEF AdvanceWatermark, PhaseType
<1>7. CASE MirrorDone
  <2>1. MirrorType'
    BY <1>1, <1>7 DEF MirrorDone, MirrorType, servers
  <2> QED BY <1>7, <2>1 DEF MirrorDone, PhaseType
<1>8. CASE MirrorFails
  <2>1. MirrorType'
    BY <1>1, <1>8 DEF MirrorFails, MirrorType, servers
  <2> QED BY <1>8, <2>1 DEF MirrorFails, PhaseType
<1> QED BY <1>2, <1>3, <1>4, <1>5, <1>6, <1>7, <1>8

\* The second phase, apart from the steps that commit to SVN or write the log.
LEMMA ReplayStepsType ==
    ASSUME TypeOK, PhaseOK,
           \/ CheckForMergedPrs \/ ListMergedPrs \/ PrsDone \/ SkipPr
           \/ (\E k \in left : ApplyToWorkingCopy(k))
           \/ CommitNotFound \/ CommitRefused \/ RecordReplay
           \/ RecordReplayFails \/ ListingFails \/ PrFails \/ ReplayFails
    PROVE  TypeOK'
<1> USE TypeParts, Untouched DEF disk, db, replay, rest, calm, Faulty,
            EndOfCycle, EndOfPr, NextCommit
<1>1. Len(svnLog) \in Nat /\ Len(remote) \in Nat /\ Len(prs) \in Nat
  BY Histories DEF ServersType
<1>2. CASE CheckForMergedPrs
  <2> QED BY <1>2 DEF CheckForMergedPrs, PhaseType
<1>3. CASE ListMergedPrs
  <2>1. ReplayType'
    BY SinceType, <1>1, <1>3 DEF ListMergedPrs, ReplayType, servers, ServersType
  <2> QED BY <1>3, <2>1 DEF ListMergedPrs, PhaseType
<1>4. CASE PrsDone
  <2>1. ReplayType'
    BY <1>1, <1>4 DEF PrsDone, ReplayType, servers
  <2> QED BY <1>4, <2>1 DEF PrsDone, PhaseType
<1>5. CASE SkipPr
  <2>1. ReplayType'
    BY <1>1, <1>5 DEF SkipPr, ReplayType, servers
  <2> QED BY <1>5, <2>1 DEF SkipPr, PhaseType
<1>6. CASE \E k \in left : ApplyToWorkingCopy(k)
  <2>1. ReplayType'
    BY <1>1, <1>6 DEF ApplyToWorkingCopy, ReplayType, servers
  <2>2. DiskType'
    BY <1>1, <1>6 DEF ApplyToWorkingCopy, DiskType, servers, ReplayType
  <2> QED BY <1>6, <2>1, <2>2 DEF ApplyToWorkingCopy, PhaseType
<1>7. CASE CommitNotFound
  <2> QED BY <1>7 DEF CommitNotFound, PhaseType
<1>8. CASE CommitRefused
  <2> QED BY <1>8 DEF CommitRefused, PhaseType
<1>9. CASE RecordReplay
  <2>1. ReplayType'
    BY <1>1, <1>9 DEF RecordReplay, ReplayType, servers
  <2>2. DbType'
    BY <1>1, <1>9 DEF RecordReplay, DbType, servers, ReplayType
  <2> QED BY <1>9, <2>1, <2>2 DEF RecordReplay, PhaseType
<1>10. CASE RecordReplayFails
  <2>1. ReplayType'
    BY <1>1, <1>10 DEF RecordReplayFails, ReplayType, servers
  <2>2. DbType'
    BY <1>1, <1>10 DEF RecordReplayFails, DbType, servers
  <2> QED BY <1>10, <2>1, <2>2 DEF RecordReplayFails, PhaseType
<1>11. CASE ListingFails
  <2>1. ReplayType'
    BY <1>1, <1>11 DEF ListingFails, ReplayType, servers
  <2> QED BY <1>11, <2>1 DEF ListingFails, PhaseType
<1>12. CASE PrFails
  <2>1. ReplayType'
    BY <1>1, <1>12 DEF PrFails, ReplayType, servers
  <2> QED BY <1>12, <2>1 DEF PrFails, PhaseType
<1>13. CASE ReplayFails
  <2> QED BY <1>13 DEF ReplayFails, PhaseType
<1> QED BY <1>2, <1>3, <1>4, <1>5, <1>6, <1>7, <1>8, <1>9, <1>10, <1>11, <1>12, <1>13

\* Committing in the clone and pushing.
LEMMA PushStepsType ==
    ASSUME TypeOK, PhaseOK,
           CommitMirror \/ Push \/ PushUnacknowledged
    PROVE  TypeOK'
<1> USE TypeParts, Untouched DEF calm, EndOfMirror, Faulty
<1>1. Len(svnLog) \in Nat /\ Len(remote) \in Nat /\ Len(prs) \in Nat
  BY Histories DEF ServersType
<1>2. CASE CommitMirror
  <2>1. DiskType'
    BY <1>1, <1>2 DEF CommitMirror, DiskType, MirrorType, servers
  <2> QED BY <1>2, <2>1 DEF CommitMirror, PhaseType
<1>3. CASE Push \/ PushUnacknowledged
  <2> DEFINE copies == [i \in 1..Len(ahead) |-> Mirror(ahead[i])]
  <2>1. copies \in Seq(BranchCommit)
    <3>1. \A i \in 1..Len(ahead) : Mirror(ahead[i]) \in BranchCommit
      BY Histories DEF Mirror, BranchCommit
    <3>2. Len(ahead) \in Nat
      BY Histories
    <3> QED BY <3>1, <3>2, IsASeq
  <2>2. remote' = remote \o copies /\ base' = Len(remote') /\ ahead' = <<>>
    BY <1>3, Histories DEF Push, PushUnacknowledged, Pushed
  <2> HIDE DEF copies
  <2>3. remote' \in Seq(BranchCommit)
    BY <2>1, <2>2, ConcatProperties DEF ServersType
  <2>4. base' \in 0..Len(remote')
    BY <2>2, <2>3
  <2>5. ServersType'
    BY <1>3, <2>3 DEF Push, PushUnacknowledged, Pushed, ServersType
  <2>6. DiskType'
    BY <1>3, <2>2, <2>4 DEF Push, PushUnacknowledged, Pushed, DiskType
  <2>7. DbType' /\ ReplayType'
    BY <1>3 DEF Push, PushUnacknowledged, Pushed, DbType, db, ReplayType, replay
  <2>8. MirrorType'
    BY <1>3 DEF Push, PushUnacknowledged, Pushed, MirrorType, mirror
  <2>9. RestType'
    BY <1>3 DEF Push, PushUnacknowledged, Pushed, RestType
  <2> QED BY <1>3, <2>5, <2>6, <2>7, <2>8, <2>9 DEF Push, PushUnacknowledged, PhaseType
<1> QED BY <1>2, <1>3

\* The steps that write pr_sync_log.
LEMMA LogStepsType ==
    ASSUME TypeOK, PhaseOK,
           BeginPr \/ CompletePr \/ FailPr
    PROVE  TypeOK'
<1> USE TypeParts, Untouched DEF disk, EndOfPr
<1>1. Len(svnLog) \in Nat /\ Len(remote) \in Nat /\ Len(prs) \in Nat
  BY Histories DEF ServersType
<1>2. CASE BeginPr
  <2>1. left' \subseteq Nat
    <3>1. pr \in DOMAIN prs
      BY <1>1, <1>2, Histories DEF BeginPr, PhaseOK, ReplayType
    <3>2. prs[pr] \in PullRequest
      BY <3>1 DEF ServersType
    <3>3. prs[pr].commits \in Seq(CommitKinds)
      BY <3>2 DEF PullRequest
    <3>4. DOMAIN prs[pr].commits \subseteq Nat
      BY <3>3
    <3> QED BY <1>2, <3>4 DEF BeginPr, ToReplay
  <2>2. prLog' \in Seq(Row)
    <3>1. [pr |-> pr, status |-> "pending", at |-> 0] \in Row
      BY DEF Row, ReplayType
    <3> QED BY <1>2, <3>1, AppendProperties DEF BeginPr, DbType
  <2>3. DbType' /\ ReplayType'
    BY <1>2, <2>1, <2>2 DEF BeginPr, DbType, ReplayType, servers
  <2> QED BY <1>2, <2>3 DEF BeginPr, PhaseType
<1>3. CASE CompletePr \/ FailPr
  <2>1. PICK status \in {"completed", "failed"} : FinishPr(status)
    BY <1>3 DEF CompletePr, FailPr
  <2>2. prLog' \in Seq(Row)
    <3> DEFINE row == [pr |-> pr, status |-> status, at |-> Len(prs)]
    <3>1. row \in Row
      BY <1>1 DEF Row, ReplayType
    <3> HIDE DEF row
    <3>2. prLog' = [i \in 1..Len(prLog) |-> IF i = Len(prLog) THEN row ELSE prLog[i]]
      BY <2>1, LogRows DEF FinishPr, row
    <3>3. prLog' \in [1..Len(prLog) -> Row]
      BY <3>1, <3>2, LogRows
    <3> QED BY <3>3, LogRows
  <2>3. DbType' /\ ReplayType'
    BY <1>1, <2>1, <2>2 DEF FinishPr, DbType, ReplayType, servers
  <2> QED BY <2>1, <2>3 DEF FinishPr, PhaseType
<1> QED BY <1>2, <1>3

\* The daemon's commits to SVN.
LEMMA CommitStepsType ==
    ASSUME TypeOK, PhaseOK,
           \E k \in left : CommitToSvn(k) \/ CommitUnacknowledged(k)
    PROVE  TypeOK'
<1> USE TypeParts, Untouched DEF calm, Faulty
<1>1. Len(svnLog) \in Nat /\ Len(remote) \in Nat /\ Len(prs) \in Nat
  BY Histories DEF ServersType
<1>2. PICK k \in left : Committed(k) /\ (CommitToSvn(k) \/ CommitUnacknowledged(k))
  BY DEF CommitToSvn, CommitUnacknowledged
<1>3. svnLog' \in Seq(Revision) /\ Len(svnLog') = Len(svnLog) + 1
  <2>1. [of |-> <<pr, k>>, carries |-> dirty] \in Revision
    BY DEF Revision, ReplayType, DiskType
  <2> QED BY <1>2, <2>1, AppendProperties DEF Committed, ServersType
<1>4. ServersType'
  BY <1>2, <1>3 DEF Committed, ServersType
<1>5. DiskType' /\ DbType'
  BY <1>1, <1>2, <1>3 DEF Committed, DiskType, DbType, db
<1>6. MirrorType' /\ ReplayType'
  BY <1>1, <1>2, <1>3 DEF Committed, MirrorType, ReplayType, mirror
<1>7. RestType'
  BY <1>1, <1>2, <1>3 DEF Committed, CommitToSvn, CommitUnacknowledged, RestType
<1> QED BY <1>2, <1>4, <1>5, <1>6, <1>7
        DEF CommitToSvn, CommitUnacknowledged, PhaseType

\* Users, and the life and death of the process.
LEMMA OtherStepsType ==
    ASSUME TypeOK, PhaseOK,
           Users \/ Operator \/ Restart
    PROVE  TypeOK'
<1> USE TypeParts, Untouched DEF disk, db, calm, Faulty
<1>1. Len(svnLog) \in Nat /\ Len(remote) \in Nat /\ Len(prs) \in Nat
  BY Histories DEF ServersType
<1>2. CASE UserSvnCommit
  <2>1. UserRevision \in Revision
    BY DEF UserRevision, Revision
  <2>2. svnLog' \in Seq(Revision) /\ Len(svnLog') = Len(svnLog) + 1
    BY <1>2, <2>1, AppendProperties DEF UserSvnCommit, ServersType
  <2>3. ServersType' /\ DiskType' /\ DbType'
    <3>1. ServersType' /\ DiskType'
      BY <1>2, <2>2 DEF UserSvnCommit, ServersType, DiskType
    <3>2. DbType'
      BY <1>1, <1>2, <2>2 DEF UserSvnCommit, DbType
    <3> QED BY <3>1, <3>2
  <2>4. MirrorType' /\ ReplayType' /\ RestType'
    BY <1>1, <1>2, <2>2 DEF UserSvnCommit, MirrorType, ReplayType, RestType,
       mirror, replay, rest
  <2> QED BY <1>2, <2>3, <2>4 DEF UserSvnCommit, PhaseType
<1>3. CASE \E shape \in PrShapes, kept \in BOOLEAN : MergePullRequest(shape, kept)
  <2>1. PICK shape \in PrShapes, kept \in BOOLEAN : MergePullRequest(shape, kept)
    BY <1>3
  <2>2. remote' \in Seq(BranchCommit) /\ Len(remote') = Len(remote) + 1
    <3>1. Merge(Len(prs) + 1) \in BranchCommit
      BY <1>1 DEF Merge, BranchCommit
    <3> QED BY <2>1, <3>1, AppendProperties DEF MergePullRequest, ServersType
  <2>3. /\ prs' \in Seq(PullRequest)
        /\ Len(prs') = Len(prs) + 1
    <3>1. [commits |-> shape, kept |-> kept] \in PullRequest
      BY PersonalAssumption DEF PullRequest
    <3> QED BY <2>1, <3>1, AppendProperties DEF MergePullRequest, ServersType
  <2>4. ServersType' /\ DiskType' /\ DbType'
    <3>1. ServersType'
      BY <2>1, <2>2, <2>3 DEF MergePullRequest, ServersType
    <3>2. DiskType'
      BY <1>1, <2>1, <2>2 DEF MergePullRequest, DiskType
    <3>3. DbType'
      BY <2>1 DEF MergePullRequest, DbType
    <3> QED BY <3>1, <3>2, <3>3
  <2>5. MirrorType' /\ ReplayType' /\ RestType'
    <3>1. MirrorType' /\ RestType'
      BY <2>1 DEF MergePullRequest, MirrorType, RestType, mirror, rest
    <3>2. ReplayType'
      BY <1>1, <2>1, <2>3 DEF MergePullRequest, ReplayType, replay
    <3> QED BY <3>1, <3>2
  <2> QED BY <2>1, <2>4, <2>5 DEF MergePullRequest, PhaseType
<1>4. CASE Crash
  <2>1. MirrorType' /\ ReplayType'
    BY <1>1, <1>4 DEF Crash, MirrorType, ReplayType, servers
  <2> QED BY <1>4, <2>1 DEF Crash, PhaseType
<1>5. CASE Restart
  BY <1>5 DEF Restart, PhaseType
<1>6. ASSUME Cloned PROVE present' \subseteq Nat
  <2>1. PICK early \in SUBSET (Len(prs) + 1 .. MaxPrs) :
          present' = {p \in DOMAIN prs : prs[p].kept} \cup early
    BY <1>6 DEF Cloned
  <2>2. Len(prs) + 1 .. MaxPrs \subseteq Nat /\ DOMAIN prs \subseteq Nat
    BY <1>1, PersonalAssumption DEF ServersType
  <2> QED BY <2>1, <2>2
<1>7. CASE Reclone
  <2>1. DiskType'
    BY <1>1, <1>6, <1>7 DEF Reclone, DiskType, servers
  <2>2. RestType'
    BY <1>1, <1>7 DEF Reclone, RestType, servers
  <2> QED BY <1>7, <2>1, <2>2 DEF Reclone, PhaseType
<1>8. CASE FullReset
  <2>1. remote' \in Seq(BranchCommit) /\ Len(remote') = Len(remote) + 1
    <3>1. Snapshot(Len(svnLog)) \in BranchCommit
      BY <1>1 DEF Snapshot, BranchCommit
    <3> QED BY <1>8, <3>1, AppendProperties DEF FullReset, ServersType
  <2>2. ServersType' /\ DiskType'
    BY <1>1, <1>6, <1>8, <2>1 DEF FullReset, ServersType, DiskType
  <2>3. DbType' /\ RestType'
    <3>1. wm' \in 0..Len(svnLog') /\ prLog' \in Seq(Row)
      BY <1>1, <1>8 DEF FullReset
    <3>2. commitMap' \subseteq [rev : Nat, sha : Nat \X Nat]
      BY <1>1, <1>8, <2>1 DEF FullReset
    <3>3. RestType'
      BY <1>1, <1>8 DEF FullReset, RestType
    <3> QED BY <3>1, <3>2, <3>3 DEF DbType
  <2>4. MirrorType' /\ ReplayType'
    BY <1>8 DEF FullReset, MirrorType, ReplayType, mirror, replay
  <2> QED BY <1>8, <2>2, <2>3, <2>4 DEF FullReset, PhaseType
<1> QED BY <1>2, <1>3, <1>4, <1>5, <1>7, <1>8 DEF Users, Operator

\* Every step keeps the types.
LEMMA TypeStep ==
    ASSUME TypeOK, PhaseOK, [Next]_vars
    PROVE  TypeOK'
<1>1. CASE SvnToGit
  BY <1>1, MirrorStepsType, PushStepsType DEF SvnToGit
<1>2. CASE GitToSvn
  BY <1>2, ReplayStepsType, LogStepsType, CommitStepsType DEF GitToSvn
<1>3. CASE Users \/ Operator \/ Restart
  BY <1>3, OtherStepsType
<1>4. CASE UNCHANGED vars
  BY <1>4 DEF vars, TypeOK
<1> QED BY <1>1, <1>2, <1>3, <1>4 DEF Next, Daemon

-----------------------------------------------------------------------------
(* The rest of the invariant, step by step.                                *)

\* The facts about types that the steps need most.
LEMMA Types ==
    ASSUME TypeOK
    PROVE  /\ Len(svnLog) \in Nat /\ DOMAIN svnLog = 1..Len(svnLog)
           /\ Len(remote) \in Nat /\ DOMAIN remote = 1..Len(remote)
           /\ base \in 0..Len(remote) /\ wm \in 0..Len(svnLog)
           /\ rev \in Nat /\ upto \in 0..Len(svnLog)
           /\ pr \in Nat /\ left \subseteq Nat /\ imported \in 0..Len(svnLog)
           /\ faults \in Nat /\ resets \in Nat /\ marker \in BOOLEAN
           /\ LastPrSyncTime \subseteq Nat
<1>1. LastPrSyncTime \subseteq Nat
  BY SinceType
<1>2. /\ Len(svnLog) \in Nat /\ DOMAIN svnLog = 1..Len(svnLog)
      /\ Len(remote) \in Nat /\ DOMAIN remote = 1..Len(remote)
  BY Histories
<1> QED BY <1>1, <1>2 DEF TypeOK

\* A step that touches neither the histories nor what is stored about them
\* keeps what holds of them; a commit that is being recorded must stay in
\* hand unless the step is a fault.
LEMMA QuietStep ==
    ASSUME IInv,
           UNCHANGED <<svnLog, remote, ahead, commitMap, marker, imported, resets>>,
           \/ faults' = faults + 1
           \/ faults' = faults /\ (pc = "map" => pc' = "map" /\ out' = out)
    PROVE  /\ PointersOK' /\ MapOK' /\ EchoOK'
           /\ wm' = wm => WatermarkCoversMirror'
<1> USE DEF IInv
<1>1. PointersOK'
  BY DEF PointersOK
<1>2. MapOK'
  BY DEF MapOK
<1>3. EchoOK'
  BY Types DEF EchoOK, IsUsers, IsSvnRevSynced
<1>4. wm' = wm => WatermarkCoversMirror'
  BY DEF WatermarkCoversMirror, IsUsers, Mirrors
<1> QED BY <1>1, <1>2, <1>3, <1>4

LEMMA QuietSteps ==
    ASSUME IInv, TypeOK',
           \/ StartCycle \/ PushRejected \/ MirrorDone \/ MirrorFails
           \/ CheckForMergedPrs \/ ListMergedPrs \/ PrsDone \/ SkipPr \/ BeginPr
           \/ (\E k \in left : ApplyToWorkingCopy(k))
           \/ CommitNotFound \/ CommitRefused \/ RecordReplayFails
           \/ CompletePr \/ FailPr \/ ListingFails \/ PrFails \/ ReplayFails
           \/ Crash \/ Restart
    PROVE  IInv'
<1> USE DEF IInv, servers, disk, db, mirror, replay, rest, calm, Faulty,
            EndOfMirror, EndOfCycle, EndOfPr, NextCommit
<1>1. CASE StartCycle
  <2>1. PhaseOK'
    BY <1>1, Types DEF StartCycle, FirstRevision, PhaseOK
  <2> QED BY <1>1, <2>1, QuietStep DEF StartCycle, FirstRevision
<1>2. CASE PushRejected
  <2>1. PhaseOK'
    BY <1>2, Types DEF PushRejected, PhaseOK
  <2> QED BY <1>2, <2>1, QuietStep DEF PushRejected
<1>3. CASE MirrorDone
  <2>1. PhaseOK'
    BY <1>3, Types DEF MirrorDone, PhaseOK
  <2> QED BY <1>3, <2>1, QuietStep DEF MirrorDone
<1>4. CASE MirrorFails
  <2>1. PhaseOK'
    BY <1>4, Types DEF MirrorFails, PhaseOK
  <2> QED BY <1>4, <2>1, QuietStep DEF MirrorFails
<1>5. CASE CheckForMergedPrs
  <2>1. PhaseOK'
    BY <1>5, Types DEF CheckForMergedPrs, PhaseOK
  <2> QED BY <1>5, <2>1, QuietStep DEF CheckForMergedPrs
<1>6. CASE ListMergedPrs
  <2>1. PhaseOK'
    BY <1>6, Types DEF ListMergedPrs, PhaseOK
  <2> QED BY <1>6, <2>1, QuietStep DEF ListMergedPrs
<1>7. CASE PrsDone
  <2>1. PhaseOK'
    BY <1>7, Types DEF PrsDone, PhaseOK
  <2> QED BY <1>7, <2>1, QuietStep DEF PrsDone
<1>8. CASE SkipPr
  <2>1. PhaseOK'
    BY <1>8, Types DEF SkipPr, PhaseOK
  <2> QED BY <1>8, <2>1, QuietStep DEF SkipPr
<1>9. CASE BeginPr
  <2>1. PhaseOK'
    BY <1>9, Types DEF BeginPr, PhaseOK
  <2> QED BY <1>9, <2>1, QuietStep DEF BeginPr
<1>10. CASE \E k \in left : ApplyToWorkingCopy(k)
  <2>1. PhaseOK'
    BY <1>10, Types DEF ApplyToWorkingCopy, PhaseOK
  <2> QED BY <1>10, <2>1, QuietStep DEF ApplyToWorkingCopy
<1>11. CASE CommitNotFound
  <2>1. PhaseOK'
    BY <1>11, Types DEF CommitNotFound, PhaseOK
  <2> QED BY <1>11, <2>1, QuietStep DEF CommitNotFound
<1>12. CASE CommitRefused
  <2>1. PhaseOK'
    BY <1>12, Types DEF CommitRefused, PhaseOK
  <2> QED BY <1>12, <2>1, QuietStep DEF CommitRefused
<1>13. CASE RecordReplayFails
  <2>1. PhaseOK'
    BY <1>13, Types DEF RecordReplayFails, PhaseOK
  <2> QED BY <1>13, <2>1, QuietStep DEF RecordReplayFails
<1>14. CASE CompletePr
  <2>1. PhaseOK'
    BY <1>14, Types DEF CompletePr, FinishPr, PhaseOK
  <2> QED BY <1>14, <2>1, QuietStep DEF CompletePr, FinishPr
<1>15. CASE FailPr
  <2>1. PhaseOK'
    BY <1>15, Types DEF FailPr, FinishPr, PhaseOK
  <2> QED BY <1>15, <2>1, QuietStep DEF FailPr, FinishPr
<1>16. CASE ListingFails
  <2>1. PhaseOK'
    BY <1>16, Types DEF ListingFails, PhaseOK
  <2> QED BY <1>16, <2>1, QuietStep DEF ListingFails
<1>17. CASE PrFails
  <2>1. PhaseOK'
    BY <1>17, Types DEF PrFails, PhaseOK
  <2> QED BY <1>17, <2>1, QuietStep DEF PrFails
<1>18. CASE ReplayFails
  <2>1. PhaseOK'
    BY <1>18, Types DEF ReplayFails, PhaseOK
  <2> QED BY <1>18, <2>1, QuietStep DEF ReplayFails
<1>19. CASE Crash
  <2>1. PhaseOK'
    BY <1>19, Types DEF Crash, PhaseOK
  <2> QED BY <1>19, <2>1, QuietStep DEF Crash
<1>20. CASE Restart
  <2>1. PhaseOK'
    BY <1>20, Types DEF Restart, PhaseOK
  <2> QED BY <1>20, <2>1, QuietStep DEF Restart
<1> QED BY <1>1, <1>2, <1>3, <1>4, <1>5, <1>6, <1>7, <1>8, <1>9, <1>10,
           <1>11, <1>12, <1>13, <1>14, <1>15, <1>16, <1>17, <1>18, <1>19, <1>20

\* SVN grows by one revision.
LEMMA SvnGrows ==
    ASSUME IInv, NEW x \in Revision, svnLog' = Append(svnLog, x),
           UNCHANGED <<remote, ahead, commitMap, marker, imported, wm>>
    PROVE  /\ PointersOK' /\ MapOK' /\ WatermarkCoversMirror'
           /\ Extends(svnLog', svnLog)
           /\ Len(svnLog') = Len(svnLog) + 1 /\ svnLog'[Len(svnLog')] = x
           /\ DOMAIN svnLog' = 1..Len(svnLog')
<1> USE DEF IInv
<1>1. /\ Extends(svnLog', svnLog)
      /\ Len(svnLog') = Len(svnLog) + 1 /\ svnLog'[Len(svnLog')] = x
      /\ DOMAIN svnLog' = 1..Len(svnLog')
  <2>1. svnLog \in Seq(Revision)
    BY DEF TypeOK
  <2> QED BY <2>1, AppendExtends
<1>2. PointersOK'
  BY <1>1 DEF PointersOK, Extends
<1>3. MapOK'
  BY <1>1 DEF MapOK, Extends
<1>4. WatermarkCoversMirror'
  <2>1. \A r \in imported + 1 .. wm : r \in DOMAIN svnLog
    BY Types
  <2>2. \A r \in imported + 1 .. wm : IsUsers(r)' = IsUsers(r)
    BY <1>1, <2>1 DEF IsUsers, Extends
  <2>3. \A r : Mirrors(r)' = Mirrors(r)
    BY DEF Mirrors
  <2> QED BY <2>2, <2>3 DEF WatermarkCoversMirror
<1> QED BY <1>1, <1>2, <1>3, <1>4

\* The branch grows by merges and by copies of users' revisions.
LEMMA BranchGrows ==
    ASSUME IInv, Extends(remote', remote),
           \A s \in DOMAIN remote' : s \in DOMAIN remote
             \/ remote'[s].kind = "merge"
             \/ \E i \in DOMAIN ahead : remote'[s] = Mirror(ahead[i]),
           UNCHANGED <<svnLog, commitMap, marker, imported, wm>>,
           resets' = resets, pc # "map",
           faults' = faults \/ faults' = faults + 1,
           ahead' \in {ahead, <<>>}
    PROVE  PointersOK' /\ MapOK' /\ WatermarkCoversMirror' /\ EchoOK'
<1> USE DEF IInv
<1>1. PointersOK'
  BY DEF PointersOK, Extends, Mirror
<1>2. MapOK'
  BY DEF MapOK, Extends
<1>3. WatermarkCoversMirror'
  <2>1. \A r : Mirrors(r) \subseteq Mirrors(r)'
    BY MirrorsKept
  <2> QED BY <2>1 DEF WatermarkCoversMirror, IsUsers
<1>4. EchoOK'
  BY Types DEF EchoOK, IsUsers, IsSvnRevSynced, Mirror, Extends
<1> QED BY <1>1, <1>2, <1>3, <1>4

\* An echo or a recorded revision moves the watermark past it.
LEMMA SkipRevisionStep ==
    ASSUME IInv, TypeOK', SkipRevision PROVE IInv'
<1> USE DEF IInv
<1>1. PhaseOK'
  BY Types DEF SkipRevision, PhaseOK
<1>2. PointersOK' /\ MapOK' /\ EchoOK'
  BY QuietStep DEF SkipRevision, servers, disk, rest
<1>3. rev \in DOMAIN svnLog /\ rev = wm + 1
  BY Types DEF SkipRevision, PhaseOK
<1>4. IsUsers(rev) => Mirrors(rev) # {} \/ rev <= imported
  <2> SUFFICES ASSUME IsUsers(rev)
               PROVE  Mirrors(rev) # {} \/ rev <= imported
    OBVIOUS
  <2>1. PICK row \in commitMap : row.rev = rev
    BY DEF SkipRevision, IsEcho, IsSvnRevSynced
  <2>2. row.sha[1] = 0
    BY <2>1 DEF MapOK, IsUsers
  <2>3. /\ row.sha[2] \in DOMAIN remote
        /\ remote[row.sha[2]] \in {Mirror(rev), Snapshot(rev)}
    BY <2>1, <2>2 DEF MapOK
  <2>4. CASE remote[row.sha[2]] = Mirror(rev)
    BY <2>3, <2>4 DEF Mirrors
  <2>5. CASE remote[row.sha[2]] = Snapshot(rev)
    BY <2>3, <2>5 DEF PointersOK, Snapshot
  <2> QED BY <2>3, <2>4, <2>5
<1>5. WatermarkCoversMirror'
  <2>1. \A r \in imported + 1 .. rev : r \in imported + 1 .. wm \/ r = rev
    BY <1>3, Types
  <2>2. \A r \in imported + 1 .. rev : IsUsers(r) => Mirrors(r) # {}
    BY <1>3, <1>4, <2>1, Types DEF WatermarkCoversMirror
  <2> QED BY <2>2 DEF SkipRevision, WatermarkCoversMirror, IsUsers, Mirrors,
             servers, rest
<1> QED BY <1>1, <1>2, <1>5

\* A commit in the clone is of a revision that is not the daemon's.
LEMMA CommitMirrorStep ==
    ASSUME IInv, TypeOK', CommitMirror PROVE IInv'
<1> USE DEF IInv, servers, db, mirror, replay, rest
<1>1. rev \in DOMAIN svnLog
  BY Types DEF CommitMirror, PhaseOK
<1>2. \/ Diverged /\ ahead' = ahead
      \/ /\ ahead' # <<>>
         /\ ahead'[Len(ahead')] = rev
         /\ \A i \in DOMAIN ahead' : \/ ahead'[i] = rev
                                     \/ i \in DOMAIN ahead /\ ahead'[i] = ahead[i]
  <2>1. CASE ahead' = ahead /\ Diverged
    BY <2>1
  <2>2. CASE ahead' = Append(ahead, rev)
    <3>1. ahead \in Seq(Nat) /\ rev \in Nat
      BY DEF TypeOK
    <3>2. /\ Len(ahead') = Len(ahead) + 1 /\ Extends(ahead', ahead)
          /\ ahead'[Len(ahead')] = rev
          /\ \A i \in DOMAIN ahead' : i \in DOMAIN ahead \/ i = Len(ahead')
      BY <2>2, <3>1, AppendExtends
    <3>3. ahead' # <<>>
      BY <2>2, <3>1, AppendProperties
    <3>4. \A i \in DOMAIN ahead' : \/ ahead'[i] = rev
                                   \/ i \in DOMAIN ahead /\ ahead'[i] = ahead[i]
      BY <3>2 DEF Extends
    <3> QED BY <3>2, <3>3, <3>4
  <2> QED BY <2>1, <2>2 DEF CommitMirror
<1>3. PhaseOK'
  BY <1>2, Types DEF CommitMirror, PhaseOK, Diverged
<1>4. PointersOK'
  BY <1>1, <1>2 DEF CommitMirror, PointersOK
<1>5. MapOK' /\ WatermarkCoversMirror'
  BY DEF CommitMirror, MapOK, WatermarkCoversMirror, IsUsers, Mirrors
<1>6. EchoOK'
  <2>1. marker \/ faults + resets = 0 => IsUsers(rev)
    BY <1>1 DEF CommitMirror, EchoOK, IsEcho
  <2> QED BY <1>2, <2>1 DEF CommitMirror, EchoOK, IsUsers, IsSvnRevSynced
<1> QED BY <1>3, <1>4, <1>5, <1>6

\* A push appends a mirror of every commit waiting in the clone.
LEMMA PushedBranch ==
    ASSUME TypeOK, Pushed
    PROVE  /\ Len(remote') = Len(remote) + Len(ahead)
           /\ DOMAIN remote' = 1..Len(remote')
           /\ Extends(remote', remote)
           /\ \A s \in DOMAIN remote' \ DOMAIN remote :
                /\ s - Len(remote) \in DOMAIN ahead
                /\ remote'[s] = Mirror(ahead[s - Len(remote)])
<1> DEFINE copies == [i \in DOMAIN ahead |-> Mirror(ahead[i])]
<1>1. /\ Len(ahead) \in Nat /\ DOMAIN ahead = 1..Len(ahead)
      /\ Len(remote) \in Nat /\ DOMAIN remote = 1..Len(remote)
      /\ remote \in Seq(BranchCommit)
  BY Histories DEF TypeOK
<1>2. /\ copies \in Seq(BranchCommit) /\ Len(copies) = Len(ahead)
      /\ \A i \in DOMAIN ahead : copies[i] = Mirror(ahead[i])
  <2>1. \A i \in 1..Len(ahead) : Mirror(ahead[i]) \in BranchCommit
    BY Histories DEF Mirror, BranchCommit
  <2> QED BY <1>1, <2>1, IsASeq
<1>3. remote' = remote \o copies
  BY DEF Pushed
<1> HIDE DEF copies
<1>4. /\ remote \o copies \in Seq(BranchCommit)
      /\ Len(remote \o copies) = Len(remote) + Len(copies)
      /\ \A s \in 1 .. Len(remote) + Len(copies) : (remote \o copies)[s] =
           IF s <= Len(remote) THEN remote[s] ELSE copies[s - Len(remote)]
  BY <1>1, <1>2, ConcatProperties
<1>5. Len(remote') = Len(remote) + Len(ahead) /\ DOMAIN remote' = 1..Len(remote')
  BY <1>2, <1>3, <1>4
<1>6. \A s \in DOMAIN remote' : remote'[s] =
        IF s <= Len(remote) THEN remote[s] ELSE copies[s - Len(remote)]
  BY <1>2, <1>3, <1>4, <1>5
<1>7. Extends(remote', remote)
  BY <1>1, <1>5, <1>6 DEF Extends
<1>8. ASSUME NEW s \in DOMAIN remote' \ DOMAIN remote
      PROVE  /\ s - Len(remote) \in DOMAIN ahead
             /\ remote'[s] = Mirror(ahead[s - Len(remote)])
  <2>1. ~(s <= Len(remote)) /\ s - Len(remote) \in DOMAIN ahead
    BY <1>1, <1>5
  <2> QED BY <1>2, <1>6, <2>1
<1> QED BY <1>5, <1>7, <1>8

\* A push puts the revision in hand last on the branch.
LEMMA PushSteps ==
    ASSUME IInv, TypeOK', Push \/ PushUnacknowledged PROVE IInv'
<1> USE DEF IInv, calm
<1>1. Pushed /\ pc # "map"
  BY DEF Push, PushUnacknowledged, Pushed
<1>2. ahead # <<>> /\ ahead[Len(ahead)] = rev /\ Len(ahead) \in Nat \ {0}
  BY <1>1 DEF Pushed, PhaseOK, TypeOK
<1>3. /\ Len(remote') = Len(remote) + Len(ahead)
      /\ DOMAIN remote' = 1..Len(remote')
      /\ Extends(remote', remote)
      /\ \A s \in DOMAIN remote' \ DOMAIN remote :
           /\ s - Len(remote) \in DOMAIN ahead
           /\ remote'[s] = Mirror(ahead[s - Len(remote)])
  BY <1>1, PushedBranch
<1>4. remote'[Len(remote')] = Mirror(rev) /\ Len(remote') \in DOMAIN remote'
  BY <1>2, <1>3, Types
<1>5. PhaseOK'
  BY <1>1, <1>4 DEF Push, PushUnacknowledged, Pushed, PhaseOK, EndOfMirror,
     mirror, db
<1>6. \A s \in DOMAIN remote' : s \in DOMAIN remote
        \/ \E i \in DOMAIN ahead : remote'[s] = Mirror(ahead[i])
  BY <1>3, Types
<1>7. PointersOK' /\ MapOK' /\ WatermarkCoversMirror' /\ EchoOK'
  <2>1. UNCHANGED <<svnLog, commitMap, marker, imported, wm, resets>> /\ ahead' = <<>>
    BY <1>1 DEF Pushed, db
  <2>2. faults' = faults \/ faults' = faults + 1
    BY DEF Push, PushUnacknowledged, Faulty
  <2> QED BY <1>1, <1>3, <1>6, <2>1, <2>2, BranchGrows
<1> QED BY <1>5, <1>7

\* The commit_map row of a mirrored revision, then its watermark.
LEMMA RecordMirrorStep ==
    ASSUME IInv, TypeOK', RecordMirror \/ AdvanceWatermark PROVE IInv'
<1> USE DEF IInv, servers, disk, replay, rest, mirror
<1>1. rev \in DOMAIN svnLog /\ rev = wm + 1
  BY Types DEF RecordMirror, AdvanceWatermark, PhaseOK
<1>2. CASE RecordMirror
  <2>1. base \in DOMAIN remote /\ remote[base] = Mirror(rev)
    BY <1>2 DEF RecordMirror, PhaseOK
  <2>2. PhaseOK'
    BY <1>2, <2>1 DEF RecordMirror, PhaseOK, Mirrors
  <2>3. PointersOK'
    BY <1>2 DEF RecordMirror, PointersOK
  <2>4. MapOK'
    BY <1>1, <1>2, <2>1 DEF RecordMirror, MapOK
  <2>5. WatermarkCoversMirror' /\ EchoOK'
    BY <1>2 DEF RecordMirror, WatermarkCoversMirror, EchoOK, IsUsers, Mirrors,
       IsSvnRevSynced
  <2> QED BY <2>2, <2>3, <2>4, <2>5
<1>3. CASE AdvanceWatermark
  <2>1. Mirrors(rev) # {}
    BY <1>3 DEF AdvanceWatermark, PhaseOK
  <2>2. PhaseOK'
    BY <1>1, <1>3, Types DEF AdvanceWatermark, PhaseOK
  <2>3. PointersOK' /\ MapOK' /\ EchoOK'
    BY <1>3, QuietStep DEF AdvanceWatermark
  <2>4. \A r \in imported + 1 .. rev : r \in imported + 1 .. wm \/ r = rev
    BY <1>1, Types
  <2>5. \A r \in imported + 1 .. rev : IsUsers(r) => Mirrors(r) # {}
    BY <2>1, <2>4 DEF WatermarkCoversMirror
  <2>6. WatermarkCoversMirror'
    BY <1>3, <2>5 DEF AdvanceWatermark, WatermarkCoversMirror, IsUsers, Mirrors
  <2> QED BY <2>2, <2>3, <2>6
<1> QED BY <1>2, <1>3

\* The commit_map row of a replayed commit.
LEMMA RecordReplayStep ==
    ASSUME IInv, TypeOK', RecordReplay PROVE IInv'
<1> USE DEF IInv, servers, disk, mirror, NextCommit, calm
<1>1. PICK k \in left : /\ InHand(k)
                        /\ commitMap' = commitMap \cup {[rev |-> out, sha |-> <<pr, k>>]}
  BY DEF RecordReplay
<1>2. out \in DOMAIN svnLog /\ svnLog[out].of = <<pr, k>> /\ pr # 0
  BY <1>1 DEF RecordReplay, PhaseOK
<1>3. PhaseOK'
  BY DEF RecordReplay, PhaseOK
<1>4. PointersOK' /\ WatermarkCoversMirror'
  BY DEF RecordReplay, PointersOK, WatermarkCoversMirror, IsUsers, Mirrors
<1>5. MapOK'
  <2> SUFFICES ASSUME NEW row \in commitMap'
               PROVE  /\ row.rev \in DOMAIN svnLog
                      /\ row.sha[1] = 0 => /\ row.sha[2] \in DOMAIN remote
                                           /\ remote[row.sha[2]] \in
                                                {Mirror(row.rev), Snapshot(row.rev)}
                      /\ row.sha[1] # 0 => svnLog[row.rev].of = row.sha
    BY DEF RecordReplay, MapOK
  <2>1. CASE row \in commitMap
    BY <2>1 DEF MapOK
  <2>2. CASE row = [rev |-> out, sha |-> <<pr, k>>]
    BY <1>2, <2>2
  <2> QED BY <1>1, <2>1, <2>2
<1>6. EchoOK'
  <2>1. \A r : IsSvnRevSynced(r) => IsSvnRevSynced(r)'
    BY <1>1 DEF IsSvnRevSynced
  <2>2. \A r : r = out => IsSvnRevSynced(r)'
    <3>1. [rev |-> out, sha |-> <<pr, k>>] \in commitMap'
      BY <1>1
    <3> QED BY <3>1 DEF IsSvnRevSynced
  <2>3. \A r : IsUsers(r)' = IsUsers(r)
    BY DEF RecordReplay, IsUsers
  <2>4. ASSUME marker \/ faults + resets = 0, ~marker, NEW r \in DOMAIN svnLog
        PROVE  IsUsers(r)' \/ IsSvnRevSynced(r)'
    BY <2>1, <2>2, <2>3, <2>4 DEF EchoOK
  <2> QED BY <2>3, <2>4 DEF RecordReplay, EchoOK
<1> QED BY <1>3, <1>4, <1>5, <1>6

\* A replayed commit becomes a revision; without its row only while it is
\* being recorded, unless the answer was lost.
LEMMA CommitSteps ==
    ASSUME IInv, TypeOK',
           \E k \in left : CommitToSvn(k) \/ CommitUnacknowledged(k)
    PROVE  IInv'
<1> USE DEF IInv, mirror, calm
<1>1. PICK k \in left : Committed(k) /\ (CommitToSvn(k) \/ CommitUnacknowledged(k))
  BY DEF CommitToSvn, CommitUnacknowledged
<1> DEFINE x == [of |-> <<pr, k>>, carries |-> dirty]
<1>2. x \in Revision /\ svnLog' = Append(svnLog, x)
  BY <1>1, Types DEF Revision, Committed, TypeOK
<1>3. /\ UNCHANGED <<remote, ahead, commitMap, marker, imported, wm, base, rev,
                     upto, pr, left, resets>>
      /\ out' = Len(svnLog') /\ InHand(k)
  BY <1>1 DEF Committed, db
<1>4. x.of = <<pr, k>>
  OBVIOUS
<1> HIDE DEF x
<1>5. /\ PointersOK' /\ MapOK' /\ WatermarkCoversMirror'
      /\ Extends(svnLog', svnLog) /\ Len(svnLog') = Len(svnLog) + 1
      /\ svnLog'[Len(svnLog')] = x /\ DOMAIN svnLog' = 1..Len(svnLog')
  BY <1>2, <1>3, SvnGrows
<1>6. PhaseOK'
  <2>1. pr # 0
    BY <1>1 DEF Committed, PhaseOK
  <2>2. Len(svnLog') \in DOMAIN svnLog'
    BY <1>5, Types
  <2>3. \A l \in left : InHand(l) => l = k
    BY <1>3, Types DEF InHand
  <2>4. \A l \in left' : InHand(l)' => svnLog'[out'].of = <<pr', l>>
    BY <1>3, <1>4, <1>5, <2>3 DEF InHand
  <2> QED BY <1>1, <1>3, <2>1, <2>2, <2>4
          DEF CommitToSvn, CommitUnacknowledged, PhaseOK
<1>7. EchoOK'
  <2> SUFFICES ASSUME marker \/ faults' + resets = 0
               PROVE  /\ \A i \in DOMAIN ahead : svnLog'[ahead[i]].of[1] = 0
                      /\ \A s \in DOMAIN remote :
                           remote[s].kind = "mirror" => svnLog'[remote[s].n].of[1] = 0
                      /\ marker \/ \A r \in DOMAIN svnLog' :
                           \/ IsUsers(r)'
                           \/ IsSvnRevSynced(r)'
                           \/ (pc' = "map" /\ r = out')
    BY <1>3 DEF EchoOK, IsUsers
  <2>1. marker \/ faults + resets = 0
    BY <1>1, Types DEF CommitToSvn, CommitUnacknowledged, Faulty
  <2>2. \A r \in DOMAIN svnLog : IsUsers(r)' = IsUsers(r)
    BY <1>5 DEF IsUsers, Extends
  <2>3. /\ \A i \in DOMAIN ahead : svnLog'[ahead[i]].of[1] = 0
        /\ \A s \in DOMAIN remote :
             remote[s].kind = "mirror" => svnLog'[remote[s].n].of[1] = 0
    BY <1>5, <2>1 DEF EchoOK, PointersOK, IsUsers, Extends
  <2>4. ASSUME ~marker, NEW r \in DOMAIN svnLog'
        PROVE  IsUsers(r)' \/ IsSvnRevSynced(r)' \/ (pc' = "map" /\ r = out')
    <3>1. faults' = faults /\ pc' = "map" /\ pc = "commit"
      BY <1>1, <2>4, Types DEF CommitToSvn, CommitUnacknowledged, Faulty, Committed
    <3>2. r \in DOMAIN svnLog \/ r = out'
      BY <1>3, <1>5, Types
    <3>3. r \in DOMAIN svnLog => IsUsers(r) \/ IsSvnRevSynced(r)
      BY <2>1, <2>4, <3>1 DEF EchoOK
    <3>4. IsSvnRevSynced(r)' = IsSvnRevSynced(r)
      BY <1>3 DEF IsSvnRevSynced
    <3> QED BY <2>2, <3>1, <3>2, <3>3, <3>4
  <2> QED BY <2>3, <2>4
<1> QED BY <1>5, <1>6, <1>7

\* Users commit to SVN and merge pull requests.
LEMMA UserSteps ==
    ASSUME IInv, TypeOK', Users PROVE IInv'
<1> USE DEF IInv, disk, db, mirror, replay, rest
<1>1. CASE UserSvnCommit
  <2>1. UserRevision \in Revision /\ svnLog' = Append(svnLog, UserRevision)
    BY <1>1 DEF UserSvnCommit, UserRevision, Revision
  <2>2. /\ PointersOK' /\ MapOK' /\ WatermarkCoversMirror'
        /\ Extends(svnLog', svnLog) /\ Len(svnLog') = Len(svnLog) + 1
        /\ svnLog'[Len(svnLog')] = UserRevision
        /\ DOMAIN svnLog' = 1..Len(svnLog')
    BY <1>1, <2>1, SvnGrows DEF UserSvnCommit
  <2>3. PhaseOK'
    BY <1>1, <2>2 DEF UserSvnCommit, PhaseOK, Extends, Diverged, Mirrors, InHand
  <2>4. \A r \in DOMAIN svnLog : svnLog'[r].of = svnLog[r].of
    BY <2>2 DEF Extends
  <2>5. svnLog'[Len(svnLog')].of[1] = 0
    BY <2>2 DEF UserRevision
  <2>6. \A r \in DOMAIN svnLog' : r \in DOMAIN svnLog \/ r = Len(svnLog')
    BY <2>2, Types
  <2>7. \A r : IsSvnRevSynced(r)' = IsSvnRevSynced(r)
    BY <1>1 DEF IsSvnRevSynced, UserSvnCommit
  <2>8. EchoOK'
    BY <1>1, <2>4, <2>5, <2>6, <2>7 DEF UserSvnCommit, EchoOK, PointersOK, IsUsers
  <2> QED BY <2>2, <2>3, <2>8
<1>2. CASE \E shape \in PrShapes, kept \in BOOLEAN : MergePullRequest(shape, kept)
  <2>1. PICK shape \in PrShapes, kept \in BOOLEAN : MergePullRequest(shape, kept)
    BY <1>2
  <2>2. remote \in Seq(BranchCommit) /\ Merge(Len(prs) + 1) \in BranchCommit
    BY Histories DEF TypeOK, Merge, BranchCommit
  <2>3. /\ Len(remote') = Len(remote) + 1 /\ Extends(remote', remote)
        /\ remote'[Len(remote')] = Merge(Len(prs) + 1)
        /\ \A s \in DOMAIN remote' : s \in DOMAIN remote \/ s = Len(remote')
    BY <2>1, <2>2, AppendExtends DEF MergePullRequest
  <2>4. PhaseOK'
    BY <2>1, <2>3, Types DEF MergePullRequest, PhaseOK, Extends, Diverged, Mirrors,
       InHand
  <2>5. PointersOK'
    BY <2>1, <2>3 DEF MergePullRequest, PointersOK, Extends, Merge
  <2>6. MapOK'
    BY <2>1, <2>3 DEF MergePullRequest, MapOK, Extends
  <2>7. WatermarkCoversMirror'
    <3>1. \A r : Mirrors(r) \subseteq Mirrors(r)'
      BY <2>3, MirrorsKept
    <3> QED BY <2>1, <3>1 DEF MergePullRequest, WatermarkCoversMirror, IsUsers
  <2>8. EchoOK'
    BY <2>1, <2>3 DEF MergePullRequest, EchoOK, IsUsers, IsSvnRevSynced, Extends,
       Merge
  <2> QED BY <2>4, <2>5, <2>6, <2>7, <2>8
<1> QED BY <1>1, <1>2 DEF Users

\* A new clone forgets the commits not pushed; a reset also everything else.
LEMMA RepairSteps ==
    ASSUME IInv, TypeOK', Reclone \/ FullReset PROVE IInv'
<1> USE DEF IInv, servers, db, mirror, replay
<1>1. CASE Reclone
  <2>1. PhaseOK'
    BY <1>1 DEF Reclone, PhaseOK
  <2>2. PointersOK' /\ MapOK' /\ WatermarkCoversMirror' /\ EchoOK'
    BY <1>1 DEF Reclone, PointersOK, MapOK, WatermarkCoversMirror, EchoOK, IsUsers,
       Mirrors, IsSvnRevSynced
  <2> QED BY <2>1, <2>2
<1>2. CASE FullReset
  <2>1. remote \in Seq(BranchCommit) /\ Snapshot(Len(svnLog)) \in BranchCommit
    BY Types DEF TypeOK, Snapshot, BranchCommit
  <2>2. /\ Len(remote') = Len(remote) + 1 /\ Extends(remote', remote)
        /\ remote'[Len(remote')] = Snapshot(Len(svnLog))
        /\ DOMAIN remote' = 1..Len(remote')
        /\ \A s \in DOMAIN remote' : s \in DOMAIN remote \/ s = Len(remote')
    BY <1>2, <2>1, AppendExtends DEF FullReset
  <2>3. PhaseOK'
    BY <1>2 DEF FullReset, PhaseOK
  <2>4. PointersOK'
    <3>1. \A s \in DOMAIN remote : remote[s].n \in Nat
      BY Histories DEF BranchCommit
    <3>2. \A s \in DOMAIN remote' :
            remote'[s].kind = "snapshot" => remote'[s].n <= Len(svnLog)
      BY <2>2, <3>1, Types DEF PointersOK, Extends, Snapshot
    <3>3. \A s \in DOMAIN remote' :
            remote'[s].kind = "mirror" => remote'[s].n \in DOMAIN svnLog
      BY <2>2 DEF PointersOK, Extends, Snapshot
    <3> QED BY <1>2, <3>2, <3>3 DEF FullReset, PointersOK
  <2>5. MapOK'
    <3>1. Len(svnLog) \in DOMAIN svnLog
      BY Types DEF PointersOK
    <3> QED BY <1>2, <2>2, <3>1, Types DEF FullReset, MapOK
  <2>6. WatermarkCoversMirror'
    BY <1>2, Types DEF FullReset, WatermarkCoversMirror
  <2>7. EchoOK'
    BY <1>2, <2>2, Types DEF FullReset, EchoOK, IsUsers, Extends, Snapshot
  <2> QED BY <2>3, <2>4, <2>5, <2>6, <2>7
<1> QED BY <1>1, <1>2

-----------------------------------------------------------------------------
(* The theorems.                                                           *)

LEMMA InitIInv == Init => IInv
<1> SUFFICES ASSUME Init PROVE IInv
  OBVIOUS
<1> USE DEF Init
<1>1. TypeOK
  BY PersonalAssumption
     DEF TypeOK, UserRevision, Revision, Snapshot, BranchCommit, Row
<1>2. PhaseOK /\ PointersOK
  BY DEF PhaseOK, PointersOK, Snapshot
<1>3. MapOK /\ WatermarkCoversMirror
  BY DEF MapOK, WatermarkCoversMirror, Snapshot
<1>4. EchoOK
  BY DEF EchoOK, IsUsers, Snapshot, UserRevision
<1> QED BY <1>1, <1>2, <1>3, <1>4 DEF IInv

LEMMA NextIInv == IInv /\ [Next]_vars => IInv'
<1> SUFFICES ASSUME IInv, [Next]_vars PROVE IInv'
  OBVIOUS
<1>1. TypeOK'
  BY TypeStep DEF IInv
<1>2. CASE SvnToGit
  BY <1>1, <1>2, QuietSteps, SkipRevisionStep, CommitMirrorStep, PushSteps,
     RecordMirrorStep DEF SvnToGit
<1>3. CASE GitToSvn
  <2>1. CASE \E k \in left : ApplyToWorkingCopy(k)
    BY <1>1, <2>1, QuietSteps
  <2>2. CASE \E k \in left : CommitToSvn(k) \/ CommitUnacknowledged(k)
    BY <1>1, <2>2, CommitSteps
  <2>3. CASE RecordReplay
    BY <1>1, <2>3, RecordReplayStep
  <2> QED BY <1>1, <1>3, <2>1, <2>2, <2>3, QuietSteps DEF GitToSvn
<1>4. CASE Users
  BY <1>1, <1>4, UserSteps
<1>5. CASE Operator
  BY <1>1, <1>5, QuietSteps, RepairSteps DEF Operator
<1>6. CASE Restart
  BY <1>1, <1>6, QuietSteps
<1>7. CASE UNCHANGED vars
  BY <1>1, <1>7 DEF vars, IInv, PhaseOK, PointersOK, MapOK, WatermarkCoversMirror,
     EchoOK, IsUsers, IsSvnRevSynced, Mirrors, Diverged, InHand
<1> QED BY <1>2, <1>3, <1>4, <1>5, <1>6, <1>7 DEF Next, Daemon

\* Every reachable state satisfies the inductive invariant.
THEOREM Invariant == Spec => []IInv
<1> QED BY InitIInv, NextIInv, PTL DEF Spec

\* Watermark, clone and loop bounds never run ahead of what they point into,
\* whenever the process dies.
THEOREM TypeCorrect == Spec => []TypeOK
<1>1. IInv => TypeOK
  BY DEF IInv
<1> QED BY <1>1, Invariant, PTL

\* The svn_rev watermark never covers a user's revision that is neither on
\* the branch nor in the imported snapshot: the watermark is written after
\* the push, and a revision skipped for its commit_map row was mirrored.
THEOREM WatermarkAlwaysCovered == Spec => []WatermarkCoversMirror
<1>1. IInv => WatermarkCoversMirror
  BY DEF IInv
<1> QED BY <1>1, Invariant, PTL

\* insert_commit_map always names a commit and its copy, although users push
\* and commit between the commit and the row.
THEOREM CommitMapAlwaysTruthful == Spec => []CommitMapTruthful
<1>1. IInv => CommitMapTruthful
  BY DEF IInv, MapOK, CommitMapTruthful
<1> QED BY <1>1, Invariant, PTL

\* With the marker in the template, or as long as nothing failed, the mirror
\* never copies a revision of the daemon back to the branch.
THEOREM NeverEchoed == Spec => []NoEcho
<1>1. IInv => NoEcho
  BY DEF IInv, EchoOK, NoEcho, Mirrors, Mirror
<1> QED BY <1>1, Invariant, PTL

-----------------------------------------------------------------------------
(* The order of the copies.                                                *)

\* Copies on the branch are in order, those waiting in the clone are in order
\* and not older, and none is further than one revision past the watermark.
OrderOK ==
    /\ MirroredInOrder
    /\ \A s \in DOMAIN remote : remote[s].kind # "merge" =>
         /\ remote[s].n <= wm + 1
         /\ \A i \in DOMAIN ahead : remote[s].n <= ahead[i]
    /\ \A i \in DOMAIN ahead : ahead[i] <= wm + 1
    /\ \A i, j \in DOMAIN ahead : i < j => ahead[i] <= ahead[j]

\* The branch grows by commits that are merges or not older than any copy.
LEMMA InOrderGrows ==
    ASSUME IInv, MirroredInOrder, Extends(remote', remote),
           Len(remote') \in Nat, DOMAIN remote' = 1..Len(remote'),
           \A s \in DOMAIN remote' \ DOMAIN remote : remote'[s].kind # "merge" =>
             /\ \A t \in DOMAIN remote :
                  remote[t].kind # "merge" => remote[t].n <= remote'[s].n
             /\ \A t \in DOMAIN remote' \ DOMAIN remote :
                  t < s /\ remote'[t].kind # "merge" => remote'[t].n <= remote'[s].n
    PROVE  MirroredInOrder'
<1> SUFFICES ASSUME NEW i \in DOMAIN remote', NEW j \in DOMAIN remote', i < j,
                    remote'[i].kind # "merge", remote'[j].kind # "merge"
             PROVE  remote'[i].n <= remote'[j].n
  BY DEF MirroredInOrder
<1>1. DOMAIN remote = 1..Len(remote) /\ Len(remote) \in Nat
  BY Types DEF IInv
<1>2. CASE j \in DOMAIN remote
  <2>1. i \in DOMAIN remote
    BY <1>1, <1>2
  <2> QED BY <1>2, <2>1 DEF MirroredInOrder, Extends
<1>3. CASE j \notin DOMAIN remote /\ i \in DOMAIN remote
  BY <1>3 DEF Extends
<1>4. CASE j \notin DOMAIN remote /\ i \notin DOMAIN remote
  BY <1>4
<1> QED BY <1>2, <1>3, <1>4

\* What the branch and the clone refer to are revision numbers.
LEMMA Numbers ==
    ASSUME TypeOK, TypeOK'
    PROVE  /\ \A s \in DOMAIN remote : remote[s].n \in Nat
           /\ \A i \in DOMAIN ahead : ahead[i] \in Nat
           /\ wm \in Nat /\ wm' \in Nat
<1>1. \A s \in DOMAIN remote : remote[s].n \in Nat
  BY Histories DEF BranchCommit
<1>2. \A i \in DOMAIN ahead : ahead[i] \in Nat
  BY Histories
<1>3. wm \in Nat /\ wm' \in Nat
  <2>1. wm \in 0..Len(svnLog) /\ wm' \in 0..Len(svnLog')
    BY DEF TypeOK
  <2> QED BY <2>1
<1> QED BY <1>1, <1>2, <1>3

\* Steps that touch neither the branch nor the clone.
LEMMA OrderKept ==
    ASSUME IInv, TypeOK', OrderOK, remote' = remote, ahead' = ahead, wm' >= wm
    PROVE  OrderOK'
<1>1. /\ \A s \in DOMAIN remote : remote[s].n \in Nat
      /\ \A i \in DOMAIN ahead : ahead[i] \in Nat
      /\ wm \in Nat /\ wm' \in Nat
  BY Numbers DEF IInv
<1> QED BY <1>1 DEF OrderOK, MirroredInOrder

LEMMA OrderStep ==
    ASSUME IInv, TypeOK', OrderOK, [Next]_vars
    PROVE  OrderOK'
<1> USE DEF servers, disk, db, mirror, replay, rest, calm
<1>1. /\ \A s \in DOMAIN remote : remote[s].n \in Nat
      /\ \A i \in DOMAIN ahead : ahead[i] \in Nat
      /\ Len(ahead) \in Nat /\ DOMAIN ahead = 1..Len(ahead)
      /\ Len(remote) \in Nat /\ DOMAIN remote = 1..Len(remote)
      /\ wm \in Nat /\ wm' \in Nat /\ wm <= Len(svnLog) /\ Len(svnLog) \in Nat
      /\ remote \in Seq(BranchCommit) /\ ahead \in Seq(Nat)
      /\ remote' \in Seq(BranchCommit)
  <2>1. TypeOK
    BY DEF IInv
  <2>2. /\ remote \in Seq(BranchCommit) /\ ahead \in Seq(Nat)
        /\ remote' \in Seq(BranchCommit)
    BY <2>1 DEF TypeOK
  <2>3. wm <= Len(svnLog)
    BY <2>1, Types
  <2> QED BY <2>1, <2>2, <2>3, Histories, Numbers
<1>2. CASE CommitMirror
  <2>1. rev = wm + 1
    BY <1>2 DEF CommitMirror, IInv, PhaseOK
  <2>2. CASE ahead' = ahead
    <3>1. remote' = remote /\ wm' = wm
      BY <1>2 DEF CommitMirror
    <3> QED BY <1>1, <2>2, <3>1, OrderKept
  <2>3. CASE ahead' = Append(ahead, rev)
    <3>1. /\ Extends(ahead', ahead) /\ Len(ahead') = Len(ahead) + 1
          /\ ahead'[Len(ahead')] = rev /\ DOMAIN ahead' = 1..Len(ahead')
          /\ \A i \in DOMAIN ahead' : i \in DOMAIN ahead \/ i = Len(ahead')
      BY <1>1, <2>1, <2>3, AppendExtends
    <3>2. remote' = remote /\ wm' = wm
      BY <1>2 DEF CommitMirror
    <3>3. \A i \in DOMAIN ahead' : ahead'[i] <= wm + 1
      BY <1>1, <2>1, <3>1 DEF OrderOK, Extends
    <3>4. \A i, j \in DOMAIN ahead' : i < j => ahead'[i] <= ahead'[j]
      <4> SUFFICES ASSUME NEW i \in DOMAIN ahead', NEW j \in DOMAIN ahead', i < j
                   PROVE  ahead'[i] <= ahead'[j]
        OBVIOUS
      <4>1. i \in DOMAIN ahead
        BY <1>1, <3>1
      <4>2. CASE j \in DOMAIN ahead
        BY <3>1, <4>1, <4>2 DEF OrderOK, Extends
      <4>3. CASE j = Len(ahead')
        BY <2>1, <3>1, <4>1, <4>3 DEF OrderOK, Extends
      <4> QED BY <3>1, <4>2, <4>3
    <3>5. \A s \in DOMAIN remote : remote[s].kind # "merge" =>
            \A i \in DOMAIN ahead' : remote[s].n <= ahead'[i]
      BY <2>1, <3>1 DEF OrderOK, Extends
    <3> QED BY <3>2, <3>3, <3>4, <3>5 DEF OrderOK, MirroredInOrder
  <2> QED BY <1>2, <2>2, <2>3 DEF CommitMirror
<1>3. CASE Push \/ PushUnacknowledged
  <2>1. Pushed /\ ahead' = <<>> /\ wm' = wm
    BY <1>3 DEF Push, PushUnacknowledged, Pushed
  <2>2. /\ Len(remote') = Len(remote) + Len(ahead)
        /\ DOMAIN remote' = 1..Len(remote')
        /\ Extends(remote', remote)
        /\ \A s \in DOMAIN remote' \ DOMAIN remote :
             /\ s - Len(remote) \in DOMAIN ahead
             /\ remote'[s] = Mirror(ahead[s - Len(remote)])
    BY <2>1, PushedBranch DEF IInv
  <2>3. \A s \in DOMAIN remote' \ DOMAIN remote :
          /\ s - Len(remote) \in DOMAIN ahead
          /\ remote'[s].n = ahead[s - Len(remote)]
    BY <2>2 DEF Mirror
  <2>4. MirroredInOrder'
    <3>1. MirroredInOrder
      BY DEF OrderOK
    <3>2. \A s \in DOMAIN remote' \ DOMAIN remote :
            \A t \in DOMAIN remote :
              remote[t].kind # "merge" => remote[t].n <= remote'[s].n
      BY <2>3 DEF OrderOK
    <3>3. \A s, t \in DOMAIN remote' \ DOMAIN remote :
            t < s => remote'[t].n <= remote'[s].n
      <4> SUFFICES ASSUME NEW s \in DOMAIN remote' \ DOMAIN remote,
                          NEW t \in DOMAIN remote' \ DOMAIN remote, t < s
                   PROVE  remote'[t].n <= remote'[s].n
        OBVIOUS
      <4>1. t - Len(remote) < s - Len(remote)
        BY <1>1, <2>2
      <4> QED BY <2>3, <4>1 DEF OrderOK
    <3> QED BY <1>1, <2>2, <3>1, <3>2, <3>3, InOrderGrows
  <2>5. \A s \in DOMAIN remote' : remote'[s].kind # "merge" => remote'[s].n <= wm + 1
    BY <2>2, <2>3 DEF OrderOK, Extends
  <2> QED BY <2>1, <2>4, <2>5 DEF OrderOK
<1>4. CASE \E shape \in PrShapes, kept \in BOOLEAN : MergePullRequest(shape, kept)
  <2>1. Merge(Len(prs) + 1) \in BranchCommit
    BY Histories DEF IInv, Merge, BranchCommit
  <2>2. /\ remote' = Append(remote, Merge(Len(prs) + 1))
        /\ ahead' = ahead /\ wm' = wm
    BY <1>4 DEF MergePullRequest
  <2>3. /\ Len(remote') = Len(remote) + 1 /\ Extends(remote', remote)
        /\ remote'[Len(remote')] = Merge(Len(prs) + 1)
        /\ DOMAIN remote' = 1..Len(remote')
        /\ \A s \in DOMAIN remote' : s \in DOMAIN remote \/ s = Len(remote')
    BY <1>1, <2>1, <2>2, AppendExtends
  <2>4. \A s \in DOMAIN remote' \ DOMAIN remote : remote'[s].kind = "merge"
    BY <2>3 DEF Merge
  <2>5. MirroredInOrder'
    BY <1>1, <2>3, <2>4, InOrderGrows DEF OrderOK
  <2> QED BY <2>2, <2>3, <2>4, <2>5 DEF OrderOK, Extends
<1>5. CASE Reclone
  BY <1>5 DEF Reclone, OrderOK, MirroredInOrder
<1>6. CASE FullReset
  <2>1. Snapshot(Len(svnLog)) \in BranchCommit
    BY <1>1 DEF Snapshot, BranchCommit
  <2>2. /\ remote' = Append(remote, Snapshot(Len(svnLog)))
        /\ ahead' = <<>> /\ wm' = Len(svnLog)
    BY <1>6 DEF FullReset
  <2>3. /\ Len(remote') = Len(remote) + 1 /\ Extends(remote', remote)
        /\ remote'[Len(remote')] = Snapshot(Len(svnLog))
        /\ DOMAIN remote' = 1..Len(remote')
        /\ \A s \in DOMAIN remote' : s \in DOMAIN remote \/ s = Len(remote')
    BY <1>1, <2>1, <2>2, AppendExtends
  <2>4. \A s \in DOMAIN remote : remote[s].kind # "merge" => remote[s].n <= Len(svnLog)
    <3>1. \A s \in DOMAIN remote : remote[s].kind \in {"mirror", "merge", "snapshot"}
      BY Histories DEF IInv, BranchCommit
    <3>2. imported <= Len(svnLog) /\ imported \in Nat /\ DOMAIN svnLog = 1..Len(svnLog)
      BY Types DEF IInv
    <3> QED BY <1>1, <3>1, <3>2 DEF IInv, PointersOK
  <2>5. MirroredInOrder'
    <3>1. \A s \in DOMAIN remote' \ DOMAIN remote :
            s = Len(remote') /\ remote'[s].n = Len(svnLog)
      BY <2>3 DEF Snapshot
    <3> QED BY <1>1, <2>3, <2>4, <3>1, InOrderGrows DEF OrderOK
  <2>6. \A s \in DOMAIN remote' : remote'[s].kind # "merge" => remote'[s].n <= wm' + 1
    BY <1>1, <2>2, <2>3, <2>4 DEF Extends, Snapshot
  <2> QED BY <2>2, <2>5, <2>6 DEF OrderOK
<1>7. CASE SkipRevision \/ AdvanceWatermark
  <2>1. wm' >= wm
    BY <1>1, <1>7 DEF SkipRevision, AdvanceWatermark, IInv, PhaseOK
  <2> QED BY <1>7, <2>1, OrderKept DEF SkipRevision, AdvanceWatermark
<1>8. CASE UNCHANGED <<remote, ahead, wm>>
  BY <1>1, <1>8, OrderKept
<1>9. \/ CommitMirror \/ Push \/ PushUnacknowledged \/ Reclone \/ FullReset
      \/ (\E shape \in PrShapes, kept \in BOOLEAN : MergePullRequest(shape, kept))
      \/ SkipRevision \/ AdvanceWatermark \/ UNCHANGED <<remote, ahead, wm>>
  <2>1. CASE Users
    BY <2>1 DEF Users, UserSvnCommit
  <2>2. CASE Operator \/ Restart
    BY <2>2 DEF Operator, Crash, Restart
  <2>3. CASE SvnToGit
    BY <2>3 DEF SvnToGit, StartCycle, PushRejected, RecordMirror, MirrorDone,
       MirrorFails
  <2>4. CASE GitToSvn
    BY <2>4 DEF GitToSvn, CheckForMergedPrs, ListMergedPrs, PrsDone, SkipPr, BeginPr,
       ApplyToWorkingCopy, CommitToSvn, CommitUnacknowledged, Committed,
       CommitNotFound, CommitRefused, RecordReplay, RecordReplayFails, NextCommit,
       CompletePr, FailPr, FinishPr, ListingFails, PrFails, ReplayFails
  <2>5. CASE UNCHANGED vars
    BY <2>5 DEF vars
  <2> QED BY <2>1, <2>2, <2>3, <2>4, <2>5 DEF Next, Daemon
<1> QED BY <1>2, <1>3, <1>4, <1>5, <1>6, <1>7, <1>8, <1>9

\* Copies appear on the branch in the order of the revisions, whatever fails
\* and however often the clone or the database is made anew.
THEOREM AlwaysMirroredInOrder == Spec => []MirroredInOrder
<1>1. Init => OrderOK
  BY DEF Init, OrderOK, MirroredInOrder, Snapshot
<1>2. IInv /\ IInv' /\ OrderOK /\ [Next]_vars => OrderOK'
  BY OrderStep DEF IInv
<1>3. OrderOK => MirroredInOrder
  BY DEF OrderOK
<1> QED BY <1>1, <1>2, <1>3, Invariant, PTL DEF Spec

-----------------------------------------------------------------------------
(* The number of copies.                                                   *)

\* Where the copies of revision r are, or will be once the clone is pushed.
Copies(r) == Mirrors(r) \cup
    (IF Diverged THEN {} ELSE {Len(remote) + i : i \in {i \in DOMAIN ahead : ahead[i] = r}})

\* The daemon copied r without a fault: the watermark has passed it, or it
\* is in hand and the copy is made.
Copied(r) ==
    \/ r <= wm
    \/ r = rev /\ (pc \in {"record", "advance"} \/ (pc = "push" /\ ~Diverged))

\* Every copy but one is owed to a fault of its own, and a revision the
\* watermark has not passed has no other.
CopiesOK ==
    \A r \in Nat : Cardinality(Copies(r)) <= faults + (IF Copied(r) THEN 1 ELSE 0)

\* There are finitely many copies.
LEMMA CopiesFinite ==
    ASSUME TypeOK, NEW r
    PROVE  /\ IsFiniteSet(Copies(r)) /\ Cardinality(Copies(r)) \in Nat
           /\ IsFiniteSet(Mirrors(r)) /\ Cardinality(Mirrors(r)) \in Nat
           /\ Cardinality(Mirrors(r)) <= Cardinality(Copies(r))
<1>1. /\ Len(remote) \in Nat /\ DOMAIN remote = 1..Len(remote)
      /\ Len(ahead) \in Nat /\ DOMAIN ahead = 1..Len(ahead)
  BY Histories
<1>2. Copies(r) \subseteq 1 .. Len(remote) + Len(ahead)
  BY <1>1 DEF Copies, Mirrors
<1>3. IsFiniteSet(1 .. Len(remote) + Len(ahead))
  <2>1. 1 \in Int /\ Len(remote) + Len(ahead) \in Int
    BY <1>1
  <2> QED BY ONLY <2>1, FS_Interval
<1>4. IsFiniteSet(Copies(r))
  BY <1>2, <1>3, FS_Subset
<1>5. Mirrors(r) \subseteq Copies(r)
  BY DEF Copies
<1> QED BY <1>4, <1>5, FS_Subset, FS_CardinalityType

\* A step with no new copy, after which the watermark has still passed what
\* it had passed unless a fault is to blame.
LEMMA CopiesKept ==
    ASSUME TypeOK, TypeOK', CopiesOK, NEW r \in Nat,
           Copies(r)' \subseteq Copies(r),
           faults' = faults + 1 \/ (faults' = faults /\ (Copied(r) => Copied(r)'))
    PROVE  Cardinality(Copies(r)') <= faults' + (IF Copied(r)' THEN 1 ELSE 0)
<1>1. Cardinality(Copies(r)') <= Cardinality(Copies(r))
  BY CopiesFinite, FS_Subset
<1>2. Cardinality(Copies(r)') \in Nat /\ Cardinality(Copies(r)) \in Nat
  BY <1>1, CopiesFinite, FS_Subset, FS_CardinalityType
<1>3. Cardinality(Copies(r)) <= faults + (IF Copied(r) THEN 1 ELSE 0)
  BY DEF CopiesOK
<1>4. faults \in Nat /\ faults' \in Nat
  BY DEF TypeOK
<1>5. Cardinality(Copies(r)) <= faults + 1
  BY <1>2, <1>3, <1>4
<1>6. CASE faults' = faults + 1
  BY <1>1, <1>2, <1>4, <1>5, <1>6
<1>7. CASE faults' = faults /\ (Copied(r) => Copied(r)')
  BY <1>1, <1>2, <1>3, <1>4, <1>7
<1> QED BY <1>6, <1>7

\* A commit in the clone is one copy more of the revision in hand.
LEMMA CommitMirrorCopies ==
    ASSUME IInv, TypeOK', CopiesOK, CommitMirror
    PROVE  CopiesOK'
<1> SUFFICES ASSUME NEW r \in Nat
             PROVE  Cardinality(Copies(r)') <= faults' + (IF Copied(r)' THEN 1 ELSE 0)
  BY DEF CopiesOK
<1>1. /\ TypeOK /\ rev = wm + 1 /\ wm \in Nat /\ rev \in Nat /\ faults \in Nat
      /\ Len(remote) \in Nat /\ DOMAIN remote = 1..Len(remote)
      /\ Len(ahead) \in Nat /\ DOMAIN ahead = 1..Len(ahead)
      /\ ahead \in Seq(Nat)
  <2>1. TypeOK /\ rev = wm + 1 /\ ahead \in Seq(Nat) /\ rev \in Nat /\ faults \in Nat
    BY DEF IInv, CommitMirror, PhaseOK, TypeOK
  <2>2. wm \in Nat
    BY <2>1, Types
  <2> QED BY <2>1, <2>2, Histories
<1>2. /\ remote' = remote /\ base' = base /\ faults' = faults /\ wm' = wm /\ rev' = rev
      /\ pc = "mirror" /\ pc' = "push"
  BY DEF CommitMirror, servers, db, mirror, rest
<1>3. Mirrors(r)' = Mirrors(r) /\ Diverged' = Diverged
  BY <1>2 DEF Mirrors, Diverged
<1>4. CASE Diverged
  <2>1. Copies(r)' = Copies(r)
    BY <1>3, <1>4 DEF Copies
  <2>2. Copied(r) => Copied(r)'
    BY <1>2 DEF Copied
  <2> QED BY <1>1, <1>2, <2>1, <2>2, CopiesKept
<1>5. CASE ~Diverged
  <2>1. ahead' = Append(ahead, rev)
    BY <1>5 DEF CommitMirror
  <2>2. /\ Extends(ahead', ahead) /\ Len(ahead') = Len(ahead) + 1
        /\ ahead'[Len(ahead')] = rev /\ DOMAIN ahead' = 1..Len(ahead')
        /\ \A i \in DOMAIN ahead' : i \in DOMAIN ahead \/ i = Len(ahead')
    BY <1>1, <2>1, AppendExtends
  <2>3. CASE r # rev
    <3>1. {i \in DOMAIN ahead' : ahead'[i] = r} = {i \in DOMAIN ahead : ahead[i] = r}
      BY <2>2, <2>3 DEF Extends
    <3>2. Copies(r)' = Copies(r)
      BY <1>2, <1>3, <1>5, <3>1 DEF Copies
    <3>3. Copied(r) => Copied(r)'
      BY <1>2 DEF Copied
    <3> QED BY <1>1, <1>2, <3>2, <3>3, CopiesKept
  <2>4. CASE r = rev
    <3> DEFINE new == Len(remote) + Len(ahead')
    <3>1. {i \in DOMAIN ahead' : ahead'[i] = r} =
            {i \in DOMAIN ahead : ahead[i] = r} \cup {Len(ahead')}
      BY <2>2, <2>4 DEF Extends
    <3>2. Copies(r)' = Copies(r) \cup {new}
      BY <1>2, <1>3, <1>5, <3>1 DEF Copies
    <3>3. new \notin Copies(r)
      BY <1>1, <2>2 DEF Copies, Mirrors
    <3>4. Cardinality(Copies(r)') = Cardinality(Copies(r)) + 1
      BY <1>1, <3>2, <3>3, CopiesFinite, FS_AddElement
    <3>5. ~Copied(r) /\ Copied(r)'
      BY <1>1, <1>2, <1>3, <1>5, <2>4 DEF Copied
    <3>6. Cardinality(Copies(r)) <= faults
      BY <1>1, <3>5 DEF CopiesOK
    <3> HIDE DEF new
    <3> QED BY <1>1, <1>2, <3>4, <3>5, <3>6, CopiesFinite
  <2> QED BY <2>3, <2>4
<1> QED BY <1>4, <1>5

\* A push puts the commits of the clone where they were expected.
LEMMA PushCopies ==
    ASSUME IInv, TypeOK', CopiesOK, Push \/ PushUnacknowledged
    PROVE  CopiesOK'
<1> SUFFICES ASSUME NEW r \in Nat
             PROVE  Cardinality(Copies(r)') <= faults' + (IF Copied(r)' THEN 1 ELSE 0)
  BY DEF CopiesOK
<1>1. TypeOK /\ Pushed /\ ~Diverged /\ ahead' = <<>> /\ wm' = wm
  BY DEF IInv, Push, PushUnacknowledged, Pushed, db
<1>2. /\ Len(remote') = Len(remote) + Len(ahead)
      /\ DOMAIN remote' = 1..Len(remote')
      /\ Extends(remote', remote)
      /\ \A s \in DOMAIN remote' \ DOMAIN remote :
           /\ s - Len(remote) \in DOMAIN ahead
           /\ remote'[s] = Mirror(ahead[s - Len(remote)])
  BY <1>1, PushedBranch
<1>3. /\ Len(remote) \in Nat /\ DOMAIN remote = 1..Len(remote)
      /\ Len(ahead) \in Nat /\ DOMAIN ahead = 1..Len(ahead)
      /\ \A i \in DOMAIN ahead : ahead[i] \in Nat
  BY <1>1, Histories
<1>4. Copies(r)' \subseteq Copies(r)
  <2> SUFFICES ASSUME NEW s \in Copies(r)' PROVE s \in Copies(r)
    OBVIOUS
  <2>1. s \in DOMAIN remote' /\ remote'[s] = Mirror(r)
    BY <1>1 DEF Copies, Mirrors
  <2>2. CASE s \in DOMAIN remote
    BY <1>2, <2>1, <2>2 DEF Copies, Mirrors, Extends
  <2>3. CASE s \notin DOMAIN remote
    <3>1. /\ s - Len(remote) \in DOMAIN ahead
          /\ Mirror(ahead[s - Len(remote)]) = Mirror(r)
      BY <1>2, <2>1, <2>3
    <3>2. ahead[s - Len(remote)] = r
      BY <3>1 DEF Mirror
    <3>3. s = Len(remote) + (s - Len(remote))
      BY <1>2, <1>3, <2>1
    <3> QED BY <1>1, <3>1, <3>2, <3>3 DEF Copies
  <2> QED BY <2>2, <2>3
<1>5. faults' = faults + 1 \/ (faults' = faults /\ (Copied(r) => Copied(r)'))
  BY <1>1 DEF Push, PushUnacknowledged, Faulty, Copied, mirror
<1> QED BY <1>1, <1>4, <1>5, CopiesKept

\* A merge makes the clone's commits worthless, the one in hand among them.
LEMMA MergeCopies ==
    ASSUME IInv, TypeOK', CopiesOK,
           NEW shape, NEW kept, MergePullRequest(shape, kept)
    PROVE  CopiesOK'
<1> SUFFICES ASSUME NEW r \in Nat
             PROVE  Cardinality(Copies(r)') <= faults' + (IF Copied(r)' THEN 1 ELSE 0)
  BY DEF CopiesOK
<1>1. /\ TypeOK /\ wm' = wm /\ rev' = rev /\ pc' = pc /\ faults' = faults
      /\ base' = base /\ ahead' = ahead /\ faults \in Nat
  <2>1. TypeOK /\ faults \in Nat
    BY DEF IInv, TypeOK
  <2> QED BY <2>1 DEF MergePullRequest, disk, db, mirror, rest
<1>2. /\ Len(remote) \in Nat /\ DOMAIN remote = 1..Len(remote)
      /\ Len(ahead) \in Nat /\ DOMAIN ahead = 1..Len(ahead)
      /\ remote \in Seq(BranchCommit) /\ base <= Len(remote) /\ base \in Nat
  <2>1. remote \in Seq(BranchCommit)
    BY <1>1 DEF TypeOK
  <2> QED BY <1>1, <2>1, Types, Histories
<1>3. /\ Len(remote') = Len(remote) + 1 /\ Extends(remote', remote)
      /\ remote'[Len(remote')] = Merge(Len(prs) + 1)
      /\ \A s \in DOMAIN remote' : s \in DOMAIN remote \/ s = Len(remote')
  <2>1. Merge(Len(prs) + 1) \in BranchCommit
    BY <1>1, Histories DEF Merge, BranchCommit
  <2> QED BY <1>2, <2>1, AppendExtends DEF MergePullRequest
<1>4. Mirrors(r)' = Mirrors(r)
  BY <1>3 DEF Mirrors, Mirror, Merge, Extends
<1>5. Diverged'
  BY <1>1, <1>2, <1>3 DEF Diverged
<1>6. Copies(r)' = Mirrors(r)
  BY <1>4, <1>5 DEF Copies
<1>7. CASE pc = "push" /\ ~Diverged /\ r = rev
  <2> DEFINE last == Len(remote) + Len(ahead)
  <2>1. Len(ahead) \in DOMAIN ahead /\ ahead[Len(ahead)] = r
    BY <1>2, <1>7 DEF IInv, PhaseOK
  <2>2. last \in Copies(r) /\ last \notin Mirrors(r)
    BY <1>2, <1>7, <2>1 DEF Copies, Mirrors
  <2>3. Mirrors(r) \cup {last} \subseteq Copies(r)
    BY <2>2 DEF Copies
  <2>4. /\ Cardinality(Mirrors(r) \cup {last}) = Cardinality(Mirrors(r)) + 1
        /\ Cardinality(Mirrors(r) \cup {last}) <= Cardinality(Copies(r))
    BY <1>1, <2>2, <2>3, CopiesFinite, FS_AddElement, FS_Subset
  <2> HIDE DEF last
  <2>5. Cardinality(Copies(r)) <= faults + 1
    <3>1. Cardinality(Copies(r)) <= faults + (IF Copied(r) THEN 1 ELSE 0)
      BY DEF CopiesOK
    <3> QED BY <1>1, <3>1, CopiesFinite
  <2>6. Cardinality(Mirrors(r)) <= faults
    BY <1>1, <2>4, <2>5, CopiesFinite
  <2> QED BY <1>1, <1>6, <2>6, CopiesFinite
<1>8. CASE ~(pc = "push" /\ ~Diverged /\ r = rev)
  <2>1. Copied(r) => Copied(r)'
    BY <1>1, <1>8 DEF Copied
  <2>2. Copies(r)' \subseteq Copies(r)
    BY <1>6 DEF Copies
  <2> QED BY <1>1, <2>1, <2>2, CopiesKept
<1> QED BY <1>7, <1>8

\* New clones and full resets throw the commits of the clone away.
LEMMA RepairCopies ==
    ASSUME IInv, TypeOK', CopiesOK, Reclone \/ FullReset
    PROVE  CopiesOK'
<1> SUFFICES ASSUME NEW r \in Nat
             PROVE  Cardinality(Copies(r)') <= faults' + (IF Copied(r)' THEN 1 ELSE 0)
  BY DEF CopiesOK
<1>1. /\ TypeOK /\ wm' \in {wm, Len(svnLog)} /\ rev' = rev /\ faults' = faults
      /\ ahead' = <<>> /\ pc \in {"idle", "down"}
  BY DEF IInv, Reclone, FullReset, db, mirror
<1>2. wm <= wm' /\ wm \in Nat /\ wm' \in Nat
  BY <1>1, Types
<1>3. Copied(r) => Copied(r)'
  BY <1>1, <1>2 DEF Copied
<1>4. Mirrors(r)' = Mirrors(r)
  <2>1. CASE Reclone
    BY <2>1 DEF Reclone, servers, Mirrors
  <2>2. CASE FullReset
    <3>1. remote \in Seq(BranchCommit) /\ Snapshot(Len(svnLog)) \in BranchCommit
      BY <1>1, Types DEF TypeOK, Snapshot, BranchCommit
    <3>2. /\ Extends(remote', remote)
          /\ remote'[Len(remote')] = Snapshot(Len(svnLog))
          /\ \A s \in DOMAIN remote' : s \in DOMAIN remote \/ s = Len(remote')
      BY <2>2, <3>1, AppendExtends DEF FullReset
    <3> QED BY <3>2 DEF Mirrors, Mirror, Snapshot, Extends
  <2> QED BY <2>1, <2>2
<1>5. Copies(r)' \subseteq Copies(r)
  BY <1>1, <1>4 DEF Copies
<1> QED BY <1>1, <1>3, <1>5, CopiesKept

\* Every step keeps the count.
LEMMA CopiesStep ==
    ASSUME IInv, TypeOK', CopiesOK, [Next]_vars
    PROVE  CopiesOK'
<1> USE DEF servers, disk, db, mirror, replay, rest, calm
<1>1. TypeOK /\ wm \in Nat /\ rev \in Nat /\ faults \in Nat
  BY Types DEF IInv
<1>2. ASSUME UNCHANGED <<remote, ahead, base>>,
             faults' = faults + 1 \/ (faults' = faults /\ \A r \in Nat : Copied(r) => Copied(r)')
      PROVE  CopiesOK'
  <2>1. \A r \in Nat : Copies(r)' = Copies(r)
    BY <1>2 DEF Copies, Mirrors, Diverged
  <2> QED BY <1>1, <1>2, <2>1, CopiesKept DEF CopiesOK
<1>3. CASE CommitMirror \/ Push \/ PushUnacknowledged
  BY <1>3, CommitMirrorCopies, PushCopies
<1>4. CASE Reclone \/ FullReset
  BY <1>4, RepairCopies
<1>5. CASE \E shape \in PrShapes, kept \in BOOLEAN : MergePullRequest(shape, kept)
  BY <1>5, MergeCopies
<1>6. CASE SkipRevision \/ RecordMirror \/ AdvanceWatermark
  <2>1. rev = wm + 1
    BY <1>6 DEF SkipRevision, RecordMirror, AdvanceWatermark, IInv, PhaseOK
  <2>2. \A r \in Nat : Copied(r) => Copied(r)'
    BY <1>1, <1>6, <2>1 DEF SkipRevision, RecordMirror, AdvanceWatermark, Copied
  <2> QED BY <1>2, <1>6, <2>2 DEF SkipRevision, RecordMirror, AdvanceWatermark
<1>7. CASE PushRejected \/ MirrorDone \/ StartCycle
  <2>1. \A r \in Nat : Copied(r) => Copied(r)'
    BY <1>7 DEF PushRejected, MirrorDone, StartCycle, FirstRevision, Copied
  <2> QED BY <1>2, <1>7, <2>1 DEF PushRejected, MirrorDone, StartCycle, FirstRevision
<1>8. CASE MirrorFails \/ Crash
  BY <1>2, <1>8 DEF MirrorFails, Crash, Faulty
<1>9. CASE UserSvnCommit \/ Restart \/ UNCHANGED vars
  <2>1. \A r \in Nat : Copied(r) => Copied(r)'
    BY <1>9 DEF UserSvnCommit, Restart, vars, Copied, Diverged
  <2> QED BY <1>2, <1>9, <2>1 DEF UserSvnCommit, Restart, vars
<1>10. CASE GitToSvn
  <2>1. /\ pc \notin {"push", "record", "advance"}
        /\ UNCHANGED <<remote, ahead, base, wm, rev>>
        /\ faults' = faults \/ faults' = faults + 1
    BY <1>10 DEF GitToSvn, CheckForMergedPrs, ListMergedPrs, PrsDone, SkipPr, BeginPr,
       ApplyToWorkingCopy, CommitToSvn, CommitUnacknowledged, Committed,
       CommitNotFound, CommitRefused, RecordReplay, RecordReplayFails, NextCommit,
       CompletePr, FailPr, FinishPr, ListingFails, PrFails, ReplayFails,
       EndOfCycle, EndOfPr, Faulty
  <2>2. \A r \in Nat : Copied(r) => Copied(r)'
    BY <2>1 DEF Copied
  <2> QED BY <1>2, <2>1, <2>2
<1> QED BY <1>3, <1>4, <1>5, <1>6, <1>7, <1>8, <1>9, <1>10
        DEF Next, Daemon, SvnToGit, Users, Operator

\* A revision has more copies on the branch than one only if faults came
\* between its commit and its watermark: a retry after a lost answer repeats
\* it, a merge that makes the clone diverge does not.
THEOREM MirrorsCountFaults == Spec => []MirroredOncePerFault
<1>1. Init => CopiesOK
  <2> SUFFICES ASSUME Init, NEW r \in Nat
               PROVE  Cardinality(Copies(r)) <= faults + (IF Copied(r) THEN 1 ELSE 0)
    BY DEF CopiesOK
  <2>1. Copies(r) = {}
    BY DEF Init, Copies, Mirrors, Mirror, Snapshot
  <2> QED BY <2>1, FS_EmptySet DEF Init
<1>2. IInv /\ IInv' /\ CopiesOK /\ [Next]_vars => CopiesOK'
  BY CopiesStep DEF IInv
<1>3. IInv /\ CopiesOK => MirroredOncePerFault
  <2> SUFFICES ASSUME IInv, CopiesOK, NEW r \in DOMAIN svnLog
               PROVE  Cardinality(Mirrors(r)) <= 1 + faults
    BY DEF MirroredOncePerFault
  <2>1. TypeOK /\ r \in Nat /\ faults \in Nat
    BY Types DEF IInv
  <2>2. Cardinality(Copies(r)) <= faults + (IF Copied(r) THEN 1 ELSE 0)
    BY <2>1 DEF CopiesOK
  <2> QED BY <2>1, <2>2, CopiesFinite
<1> QED BY <1>1, <1>2, <1>3, Invariant, PTL DEF Spec

-----------------------------------------------------------------------------
(* The changes that enter SVN.                                             *)

\* The revisions that carry change c, the k-th commit of pull request p as
\* <<p, k>>; a change that waits in the working copy will be in one more.
Carriers(c) == {r \in DOMAIN svnLog : c \in svnLog[r].carries}
Waiting(c) == IF c \in dirty THEN 1 ELSE 0

\* Change c has still to be replayed for the first time since the log of
\* replayed requests is the one it is.
Fresh(c) ==
    \/ ~IsPrSynced(c[1])
    \/ /\ c[1] = pr /\ c[2] \in left
       /\ pc = "replay" \/ (pc \in {"commit", "map"} /\ ~InHand(c[2]))

Changes == Nat \X Nat

\* Every replay of a change but the first is owed to a reset of its own, and
\* a fresh change has no other.
CarriedOK ==
    \A c \in Changes :
        Cardinality(Carriers(c)) + Waiting(c) <= resets + (IF Fresh(c) THEN 0 ELSE 1)

\* The pull request in hand has the last row.
RowOK == pc \in {"replay", "commit", "map", "fail"} =>
    Len(prLog) # 0 /\ prLog[Len(prLog)].pr = pr

\* There are finitely many carriers.
LEMMA CarriersFinite ==
    ASSUME TypeOK, NEW c
    PROVE  /\ IsFiniteSet(Carriers(c)) /\ Cardinality(Carriers(c)) \in Nat
           /\ Waiting(c) \in {0, 1}
<1>1. Len(svnLog) \in Nat /\ DOMAIN svnLog = 1..Len(svnLog)
  BY Histories
<1>2. IsFiniteSet(1 .. Len(svnLog))
  <2>1. 1 \in Int /\ Len(svnLog) \in Int
    BY <1>1
  <2> QED BY ONLY <2>1, FS_Interval
<1>3. Carriers(c) \subseteq 1..Len(svnLog)
  BY <1>1 DEF Carriers
<1> QED BY <1>2, <1>3, FS_Subset, FS_CardinalityType DEF Waiting

\* A step that neither commits to SVN nor touches the working copy, and makes
\* no change fresh.
LEMMA CarriedKept ==
    ASSUME CarriedOK, TypeOK, UNCHANGED <<svnLog, dirty, resets>>,
           \A c \in Changes : Fresh(c)' => Fresh(c)
    PROVE  CarriedOK'
<1> SUFFICES ASSUME NEW c \in Changes
             PROVE  Cardinality(Carriers(c)') + Waiting(c)'
                      <= resets' + (IF Fresh(c)' THEN 0 ELSE 1)
  BY DEF CarriedOK
<1>1. Carriers(c)' = Carriers(c) /\ Waiting(c)' = Waiting(c)
  BY DEF Carriers, Waiting
<1>2. Cardinality(Carriers(c)) + Waiting(c) <= resets + (IF Fresh(c) THEN 0 ELSE 1)
  BY DEF CarriedOK
<1>3. Cardinality(Carriers(c)) \in Nat /\ Waiting(c) \in Nat /\ resets \in Nat
  <2>1. resets \in Nat
    BY DEF TypeOK
  <2> QED BY <2>1, CarriersFinite
<1> QED BY <1>1, <1>2, <1>3

\* A row appended to the log, or the last one rewritten.
LEMMA AppendRow ==
    ASSUME TypeOK, NEW row \in Row, prLog' = Append(prLog, row)
    PROVE  /\ Len(prLog') = Len(prLog) + 1 /\ DOMAIN prLog' = 1..Len(prLog')
           /\ \A i \in DOMAIN prLog : i \in DOMAIN prLog' /\ prLog'[i] = prLog[i]
           /\ prLog'[Len(prLog')] = row
<1>1. prLog \in Seq(Row)
  BY DEF TypeOK
<1> QED BY <1>1, AppendExtends DEF Extends

LEMMA RewriteRow ==
    ASSUME TypeOK, Len(prLog) # 0,
           NEW status \in {"completed", "failed"}, FinishPr(status)
    PROVE  /\ Len(prLog') = Len(prLog) /\ DOMAIN prLog' = DOMAIN prLog
           /\ \A i \in DOMAIN prLog : i # Len(prLog) => prLog'[i] = prLog[i]
           /\ prLog'[Len(prLog)] = [pr |-> pr, status |-> status, at |-> Len(prs)]
<1> DEFINE row == [pr |-> pr, status |-> status, at |-> Len(prs)]
<1>1. DOMAIN prLog = 1..Len(prLog) /\ Len(prLog) \in Nat
  BY LogRows
<1>2. row \in Row
  BY Histories, Types DEF Row
<1>3. prLog' = [prLog EXCEPT ![Len(prLog)] = row]
  BY DEF FinishPr
<1> HIDE DEF row
<1>4. prLog \in Seq(Row) /\ Len(prLog) \in 1..Len(prLog)
  BY <1>1 DEF TypeOK
<1>5. /\ prLog' \in Seq(Row) /\ Len(prLog') = Len(prLog)
      /\ \A j \in 1..Len(prLog) : prLog'[j] = IF j = Len(prLog) THEN row ELSE prLog[j]
  BY <1>2, <1>3, <1>4, ExceptSeq
<1>6. DOMAIN prLog' = 1..Len(prLog)
  BY <1>5, LenProperties
<1> QED BY <1>1, <1>4, <1>5, <1>6 DEF row

\* The rows of a pull request stay until a reset.
LEMMA RowsKept ==
    ASSUME TypeOK,
           \/ prLog' = prLog
           \/ \E row \in Row : prLog' = Append(prLog, row)
           \/ RowOK /\ pc \in {"replay", "fail"} /\ \E status \in {"completed", "failed"} : FinishPr(status)
    PROVE  \A p : IsPrSynced(p) => IsPrSynced(p)'
<1>1. DOMAIN prLog = 1..Len(prLog) /\ Len(prLog) \in Nat
  BY LogRows
<1>3. CASE prLog' = prLog
  BY <1>3 DEF IsPrSynced
<1>4. CASE \E row \in Row : prLog' = Append(prLog, row)
  <2>1. PICK row \in Row : prLog' = Append(prLog, row)
    BY <1>4
  <2>2. \A i \in DOMAIN prLog : i \in DOMAIN prLog' /\ prLog'[i] = prLog[i]
    BY <2>1, AppendRow
  <2> QED BY <2>2 DEF IsPrSynced
<1>5. CASE RowOK /\ pc \in {"replay", "fail"} /\ \E status \in {"completed", "failed"} : FinishPr(status)
  <2>1. PICK status \in {"completed", "failed"} : FinishPr(status)
    BY <1>5
  <2>2. /\ DOMAIN prLog' = DOMAIN prLog
        /\ \A i \in DOMAIN prLog : i # Len(prLog) => prLog'[i] = prLog[i]
        /\ Len(prLog) # 0 => prLog'[Len(prLog)] =
             [pr |-> pr, status |-> status, at |-> Len(prs)]
    BY <1>5, <2>1, RewriteRow DEF RowOK
  <2>3. prLog[Len(prLog)].pr = pr /\ prLog'[Len(prLog)].pr = pr
    BY <1>5, <2>2 DEF RowOK
  <2>4. \A i \in DOMAIN prLog : i \in DOMAIN prLog' /\ prLog'[i].pr = prLog[i].pr
    BY <2>2, <2>3
  <2> QED BY <2>4 DEF IsPrSynced
<1> QED BY <1>3, <1>4, <1>5

\* The row in hand.
LEMMA RowStep ==
    ASSUME TypeOK, RowOK, [Next]_vars
    PROVE  RowOK'
<1> USE DEF servers, disk, db, mirror, replay, rest, calm, EndOfMirror, EndOfCycle, EndOfPr
<1>1. CASE BeginPr
  <2> DEFINE row == [pr |-> pr, status |-> "pending", at |-> 0]
  <2>1. row \in Row
    BY Types DEF Row
  <2>2. Len(prLog') = Len(prLog) + 1 /\ prLog'[Len(prLog')] = row /\ pr' = pr
    BY <1>1, <2>1, AppendRow DEF BeginPr
  <2> QED BY <2>2, LogRows DEF RowOK
<1>2. CASE CompletePr \/ FailPr \/ FullReset \/ Crash \/ PrFails \/ ListingFails \/ PrsDone
  BY <1>2 DEF CompletePr, FailPr, FinishPr, FullReset, Crash, PrFails, ListingFails,
     PrsDone, RowOK
<1>3. CASE SvnToGit \/ Users \/ Reclone \/ Restart \/ UNCHANGED vars
  BY <1>3 DEF SvnToGit, Users, Reclone, Restart, vars, UserSvnCommit, MergePullRequest,
     StartCycle, FirstRevision, SkipRevision, CommitMirror, Push, PushUnacknowledged,
     Pushed, PushRejected, RecordMirror, AdvanceWatermark, MirrorDone, MirrorFails, RowOK
<1>4. CASE \/ CheckForMergedPrs \/ ListMergedPrs \/ SkipPr
           \/ (\E k \in left : ApplyToWorkingCopy(k))
           \/ (\E k \in left : CommitToSvn(k) \/ CommitUnacknowledged(k))
           \/ CommitNotFound \/ CommitRefused \/ RecordReplay
           \/ RecordReplayFails \/ ReplayFails
  BY <1>4 DEF CheckForMergedPrs, ListMergedPrs, SkipPr, ApplyToWorkingCopy, CommitToSvn,
     CommitUnacknowledged, Committed, CommitNotFound, CommitRefused, RecordReplay,
     RecordReplayFails, NextCommit, ReplayFails, RowOK
<1> QED BY <1>1, <1>2, <1>3, <1>4 DEF Next, Daemon, GitToSvn, Operator

\* Writing the files of a commit puts its change in the working copy.
LEMMA ApplyCarried ==
    ASSUME TypeOK, RowOK, CarriedOK, NEW k \in left, ApplyToWorkingCopy(k)
    PROVE  CarriedOK'
<1> USE DEF servers, db, mirror, rest
<1>1. /\ UNCHANGED <<svnLog, resets, prLog, pr, left>>
      /\ pc = "replay" /\ pc' = "commit" /\ InHand(k)
      /\ dirty' \in {dirty, dirty \cup {<<pr, k>>}}
  BY DEF ApplyToWorkingCopy
<1>2. \A p : IsPrSynced(p)' = IsPrSynced(p)
  BY <1>1 DEF IsPrSynced
<1>3. \A l : InHand(l)' = InHand(l)
  BY <1>1 DEF InHand
<1>4. \A c \in Changes : Fresh(c)' => Fresh(c)
  BY <1>1, <1>2 DEF Fresh
<1>5. IsPrSynced(pr)
  BY <1>1, LogRows DEF RowOK, IsPrSynced
<1>6. Fresh(<<pr, k>>) /\ ~Fresh(<<pr, k>>)'
  BY <1>1, <1>2, <1>3, <1>5 DEF Fresh
<1> SUFFICES ASSUME NEW c \in Changes
             PROVE  Cardinality(Carriers(c)') + Waiting(c)'
                      <= resets' + (IF Fresh(c)' THEN 0 ELSE 1)
  BY DEF CarriedOK
<1>7. Carriers(c)' = Carriers(c)
  BY <1>1 DEF Carriers
<1>8. Cardinality(Carriers(c)) + Waiting(c) <= resets + (IF Fresh(c) THEN 0 ELSE 1)
  BY DEF CarriedOK
<1>9. /\ Cardinality(Carriers(c)) \in Nat /\ Waiting(c) \in {0, 1} /\ resets \in Nat
      /\ Waiting(c)' \in {0, 1}
  <2>1. resets \in Nat
    BY DEF TypeOK
  <2> QED BY <2>1, CarriersFinite DEF Waiting
<1>10. CASE c = <<pr, k>>
  BY <1>1, <1>6, <1>7, <1>8, <1>9, <1>10
<1>11. CASE c # <<pr, k>>
  <2>1. Waiting(c)' = Waiting(c)
    BY <1>1, <1>11 DEF Waiting
  <2> QED BY <1>1, <1>4, <1>7, <1>8, <1>9, <2>1
<1> QED BY <1>10, <1>11

\* A commit to SVN carries what waited.
LEMMA CommitCarried ==
    ASSUME TypeOK, CarriedOK, NEW k \in left, CommitToSvn(k) \/ CommitUnacknowledged(k)
    PROVE  CarriedOK'
<1> SUFFICES ASSUME NEW c \in Changes
             PROVE  Cardinality(Carriers(c)') + Waiting(c)'
                      <= resets' + (IF Fresh(c)' THEN 0 ELSE 1)
  BY DEF CarriedOK
<1>1. /\ UNCHANGED <<resets, prLog, pr, left>> /\ dirty' = {}
      /\ pc = "commit" /\ pc' \in {"map", "fail"}
      /\ svnLog' = Append(svnLog, [of |-> <<pr, k>>, carries |-> dirty])
  BY DEF CommitToSvn, CommitUnacknowledged, Committed, db, calm
<1>2. Fresh(c)' => Fresh(c)
  BY <1>1 DEF Fresh, IsPrSynced, InHand
<1>3. /\ Len(svnLog') = Len(svnLog) + 1 /\ Extends(svnLog', svnLog)
      /\ svnLog'[Len(svnLog')].carries = dirty
      /\ DOMAIN svnLog' = 1..Len(svnLog')
      /\ DOMAIN svnLog = 1..Len(svnLog) /\ Len(svnLog) \in Nat
  <2>1. svnLog \in Seq(Revision) /\ [of |-> <<pr, k>>, carries |-> dirty] \in Revision
    BY Types DEF TypeOK, Revision
  <2> QED BY <1>1, <2>1, AppendExtends, Histories
<1>4. Waiting(c)' = 0
  BY <1>1 DEF Waiting
<1>5. Cardinality(Carriers(c)) + Waiting(c) <= resets + (IF Fresh(c) THEN 0 ELSE 1)
  BY DEF CarriedOK
<1>6. /\ Cardinality(Carriers(c)) \in Nat /\ resets \in Nat
      /\ IsFiniteSet(Carriers(c))
  <2>1. resets \in Nat
    BY DEF TypeOK
  <2> QED BY <2>1, CarriersFinite
<1>7. CASE c \in dirty
  <2>1. Carriers(c)' = Carriers(c) \cup {Len(svnLog) + 1}
    BY <1>3, <1>7 DEF Carriers, Extends
  <2>2. Len(svnLog) + 1 \notin Carriers(c)
    BY <1>3 DEF Carriers
  <2>3. Cardinality(Carriers(c)') = Cardinality(Carriers(c)) + 1
    BY <1>6, <2>1, <2>2, FS_AddElement
  <2>4. Waiting(c) = 1
    BY <1>7 DEF Waiting
  <2> QED BY <1>1, <1>2, <1>4, <1>5, <1>6, <2>3, <2>4
<1>8. CASE c \notin dirty
  <2>1. Carriers(c)' = Carriers(c)
    BY <1>3, <1>8 DEF Carriers, Extends
  <2>2. Waiting(c) = 0
    BY <1>8 DEF Waiting
  <2> QED BY <1>1, <1>2, <1>4, <1>5, <1>6, <2>1, <2>2
<1> QED BY <1>7, <1>8

\* A user's commit carries no change of a pull request; a reset empties the
\* working copy.
LEMMA OtherCarried ==
    ASSUME TypeOK, CarriedOK, UserSvnCommit \/ FullReset
    PROVE  CarriedOK'
<1> SUFFICES ASSUME NEW c \in Changes
             PROVE  Cardinality(Carriers(c)') + Waiting(c)'
                      <= resets' + (IF Fresh(c)' THEN 0 ELSE 1)
  BY DEF CarriedOK
<1>1. Cardinality(Carriers(c)) + Waiting(c) <= resets + (IF Fresh(c) THEN 0 ELSE 1)
  BY DEF CarriedOK
<1>2. /\ Cardinality(Carriers(c)) \in Nat /\ Waiting(c) \in {0, 1} /\ resets \in Nat
  <2>1. resets \in Nat
    BY DEF TypeOK
  <2> QED BY <2>1, CarriersFinite
<1>3. CASE UserSvnCommit
  <2>1. /\ Len(svnLog') = Len(svnLog) + 1 /\ Extends(svnLog', svnLog)
        /\ svnLog'[Len(svnLog')] = UserRevision
        /\ \A i \in DOMAIN svnLog' : i \in DOMAIN svnLog \/ i = Len(svnLog')
    <3>1. svnLog \in Seq(Revision) /\ UserRevision \in Revision
      BY DEF TypeOK, Revision, UserRevision
    <3> QED BY <1>3, <3>1, AppendExtends DEF UserSvnCommit
  <2>2. Carriers(c)' = Carriers(c)
    BY <2>1 DEF Carriers, Extends, UserRevision
  <2>3. UNCHANGED <<dirty, prLog, pr, left, pc, resets>>
    BY <1>3 DEF UserSvnCommit, disk, db, replay, rest
  <2>4. Waiting(c)' = Waiting(c) /\ (Fresh(c)' => Fresh(c))
    BY <2>3 DEF Waiting, Fresh, IsPrSynced, InHand
  <2> QED BY <1>1, <1>2, <2>2, <2>3, <2>4
<1>4. CASE FullReset
  <2>1. svnLog' = svnLog /\ dirty' = {} /\ resets' = resets + 1
    BY <1>4 DEF FullReset
  <2>2. Carriers(c)' = Carriers(c) /\ Waiting(c)' = 0
    BY <2>1 DEF Carriers, Waiting
  <2> QED BY <1>1, <1>2, <2>1, <2>2
<1> QED BY <1>3, <1>4

LEMMA CarriedStep ==
    ASSUME TypeOK, RowOK, CarriedOK, [Next]_vars
    PROVE  CarriedOK'
<1> USE DEF servers, disk, db, mirror, replay, rest, calm, EndOfMirror, EndOfCycle, EndOfPr
<1>1. CASE \E k \in left : ApplyToWorkingCopy(k)
  BY <1>1, ApplyCarried
<1>2. CASE \E k \in left : CommitToSvn(k) \/ CommitUnacknowledged(k)
  BY <1>2, CommitCarried
<1>3. CASE UserSvnCommit \/ FullReset
  BY <1>3, OtherCarried
<1>4. CASE BeginPr
  <2>1. [pr |-> pr, status |-> "pending", at |-> 0] \in Row
    BY Types DEF Row
  <2>2. \A p : IsPrSynced(p) => IsPrSynced(p)'
    BY <1>4, <2>1, RowsKept DEF BeginPr
  <2>3. \A c \in Changes : Fresh(c)' => Fresh(c)
    BY <1>4, <2>2 DEF BeginPr, Fresh
  <2> QED BY <1>4, <2>3, CarriedKept DEF BeginPr
<1>5. CASE CompletePr \/ FailPr
  <2>1. PICK status \in {"completed", "failed"} : FinishPr(status)
    BY <1>5 DEF CompletePr, FailPr
  <2>2. \A p : IsPrSynced(p) => IsPrSynced(p)'
    BY <1>5, <2>1, RowsKept DEF CompletePr, FailPr
  <2>3. \A c \in Changes : Fresh(c)' => Fresh(c)
    BY <2>1, <2>2 DEF FinishPr, Fresh
  <2> QED BY <2>1, <2>3, CarriedKept DEF FinishPr
<1>6. CASE RecordReplay \/ RecordReplayFails
  <2>1. /\ UNCHANGED <<svnLog, dirty, resets, prLog, pr>>
        /\ left' = {k \in left : ~InHand(k)} /\ pc = "map" /\ pc' = "replay"
    BY <1>6 DEF RecordReplay, RecordReplayFails, NextCommit
  <2>2. \A c \in Changes : Fresh(c)' => Fresh(c)
    BY <2>1 DEF Fresh, IsPrSynced
  <2> QED BY <2>1, <2>2, CarriedKept
<1>7. ASSUME UNCHANGED <<svnLog, dirty, resets, prLog>>,
             pc' \notin {"replay", "commit", "map"}
      PROVE  CarriedOK'
  <2>1. \A c \in Changes : Fresh(c)' => Fresh(c)
    BY <1>7 DEF Fresh, IsPrSynced
  <2> QED BY <1>7, <2>1, CarriedKept
<1>8. CASE \/ CheckForMergedPrs \/ ListMergedPrs \/ PrsDone \/ SkipPr \/ CommitNotFound
           \/ CommitRefused \/ ListingFails \/ PrFails \/ ReplayFails
  BY <1>7, <1>8 DEF CheckForMergedPrs, ListMergedPrs, PrsDone, SkipPr, CommitNotFound,
     CommitRefused, ListingFails, PrFails, ReplayFails
<1>9. CASE SvnToGit
  BY <1>7, <1>9 DEF SvnToGit, StartCycle, FirstRevision, SkipRevision, CommitMirror,
     Push, PushUnacknowledged, Pushed, PushRejected, RecordMirror, AdvanceWatermark,
     MirrorDone, MirrorFails
<1>10. CASE Crash \/ Reclone \/ Restart
  BY <1>7, <1>10 DEF Crash, Reclone, Restart
<1>11. CASE UNCHANGED <<svnLog, dirty, resets, prLog, pr, left, pc>>
  <2>1. \A c \in Changes : Fresh(c)' => Fresh(c)
    BY <1>11 DEF Fresh, IsPrSynced, InHand
  <2> QED BY <1>11, <2>1, CarriedKept
<1>12. CASE \E shape \in PrShapes, kept \in BOOLEAN : MergePullRequest(shape, kept)
  BY <1>11, <1>12 DEF MergePullRequest
<1>13. CASE UNCHANGED vars
  BY <1>11, <1>13 DEF vars
<1> QED BY <1>1, <1>2, <1>3, <1>4, <1>5, <1>6, <1>8, <1>9, <1>10, <1>12, <1>13
        DEF Next, Daemon, GitToSvn, Users, Operator

\* No change of a pull request enters SVN twice, whatever fails and however
\* often the daemon is killed: the row of pr_sync_log is inserted before the
\* first commit is replayed, and only a full reset throws it away.
THEOREM ReplaysCountResets == Spec => []ReplayedAtMostOnce
<1>1. Init => RowOK /\ CarriedOK
  <2> SUFFICES ASSUME Init PROVE RowOK /\ CarriedOK
    OBVIOUS
  <2>1. ASSUME NEW c \in Changes PROVE Carriers(c) = {} /\ Waiting(c) = 0
    BY DEF Init, Carriers, Waiting, UserRevision
  <2>2. Cardinality({}) = 0
    BY FS_EmptySet
  <2>3. CarriedOK
    <3> SUFFICES ASSUME NEW c \in Changes
                 PROVE  Cardinality(Carriers(c)) + Waiting(c)
                          <= resets + (IF Fresh(c) THEN 0 ELSE 1)
      BY DEF CarriedOK
    <3>1. Cardinality(Carriers(c)) = 0 /\ Waiting(c) = 0 /\ resets = 0
      BY <2>1, <2>2 DEF Init
    <3> QED BY <3>1
  <2> QED BY <2>3 DEF Init, RowOK
<1>2. IInv /\ RowOK /\ CarriedOK /\ [Next]_vars => (RowOK /\ CarriedOK)'
  BY RowStep, CarriedStep DEF IInv
<1>3. IInv /\ CarriedOK => ReplayedAtMostOnce
  <2> SUFFICES ASSUME IInv, CarriedOK, NEW p \in DOMAIN prs,
                      NEW k \in DOMAIN prs[p].commits
               PROVE  Cardinality(Carriers(<<p, k>>)) <= 1 + resets
    BY DEF ReplayedAtMostOnce, Carriers
  <2>1. TypeOK /\ resets \in Nat
    BY Types DEF IInv
  <2>2. <<p, k>> \in Changes
    <3>1. p \in Nat /\ prs[p] \in PullRequest
      <4>1. prs \in Seq(PullRequest)
        BY <2>1 DEF TypeOK
      <4> QED BY <4>1
    <3>2. prs[p].commits \in Seq(CommitKinds)
      BY <3>1 DEF PullRequest
    <3>3. k \in Nat
      BY <3>2
    <3> QED BY <3>1, <3>3 DEF Changes
  <2>3. Cardinality(Carriers(<<p, k>>)) + Waiting(<<p, k>>)
          <= resets + (IF Fresh(<<p, k>>) THEN 0 ELSE 1)
    BY <2>2 DEF CarriedOK
  <2> QED BY <2>1, <2>3, CarriersFinite
<1> QED BY <1>1, <1>2, <1>3, Invariant, PTL DEF Spec

-----------------------------------------------------------------------------
(* Pull requests are replayed in order, without gaps.                      *)

HasRevision(p, k) == \E r \in DOMAIN svnLog : svnLog[r].of = <<p, k>>

\* The commits of pull request p are known: it was merged.
GapFree ==
    /\ CompletedMeansReplayed
    /\ \A r \in DOMAIN svnLog : ~IsUsers(r) => svnLog[r].of[1] \in DOMAIN prs
    /\ \A i \in DOMAIN prLog : prLog[i].pr \in DOMAIN prs

\* What is no longer left of the pull request in hand has its revision.
LeftOK ==
    pc \in {"replay", "commit", "map"} =>
        /\ pr \in DOMAIN prs
        /\ left \subseteq ToReplay(pr)
        /\ \A k \in ToReplay(pr) \ left : HasRevision(pr, k)

\* Both histories only grow: revisions and commits stay what they are.
LEMMA HistoriesKept ==
    ASSUME TypeOK, [Next]_vars
    PROVE  /\ Extends(svnLog', svnLog)
           /\ Extends(prs', prs)
<1> USE DEF servers
<1>1. CASE svnLog' = svnLog /\ prs' = prs
  BY <1>1 DEF Extends
<1>2. CASE UserSvnCommit
  <2>1. svnLog \in Seq(Revision) /\ UserRevision \in Revision
    BY DEF TypeOK, Revision, UserRevision
  <2>2. Extends(svnLog', svnLog)
    BY <1>2, <2>1, AppendExtends DEF UserSvnCommit
  <2> QED BY <1>2, <2>2 DEF UserSvnCommit, Extends
<1>3. CASE \E k \in left : CommitToSvn(k) \/ CommitUnacknowledged(k)
  <2>1. PICK k \in left : Committed(k)
    BY <1>3 DEF CommitToSvn, CommitUnacknowledged
  <2>2. svnLog \in Seq(Revision) /\ [of |-> <<pr, k>>, carries |-> dirty] \in Revision
    BY Types DEF TypeOK, Revision
  <2>3. Extends(svnLog', svnLog)
    BY <2>1, <2>2, AppendExtends DEF Committed
  <2> QED BY <2>1, <2>3 DEF Committed, Extends
<1>4. CASE \E shape \in PrShapes, kept \in BOOLEAN : MergePullRequest(shape, kept)
  <2>1. PICK shape \in PrShapes, kept \in BOOLEAN : MergePullRequest(shape, kept)
    BY <1>4
  <2>2. [commits |-> shape, kept |-> kept] \in PullRequest
    BY PersonalAssumption DEF PullRequest
  <2>3. prs \in Seq(PullRequest)
    BY DEF TypeOK
  <2>4. Extends(prs', prs)
    BY <2>1, <2>2, <2>3, AppendExtends DEF MergePullRequest
  <2> QED BY <2>1, <2>4 DEF MergePullRequest, Extends
<1>5. CASE SvnToGit
  BY <1>1, <1>5 DEF SvnToGit, StartCycle, FirstRevision, SkipRevision, CommitMirror,
     Push, PushUnacknowledged, Pushed, PushRejected, RecordMirror, AdvanceWatermark,
     MirrorDone, MirrorFails
<1>6. CASE \/ CheckForMergedPrs \/ ListMergedPrs \/ PrsDone \/ SkipPr \/ BeginPr
           \/ (\E k \in left : ApplyToWorkingCopy(k))
           \/ CommitNotFound \/ CommitRefused \/ RecordReplay \/ RecordReplayFails
           \/ CompletePr \/ FailPr \/ ListingFails \/ PrFails \/ ReplayFails
  BY <1>1, <1>6 DEF CheckForMergedPrs, ListMergedPrs, PrsDone, SkipPr, BeginPr,
     ApplyToWorkingCopy, CommitNotFound, CommitRefused, RecordReplay,
     RecordReplayFails, NextCommit, CompletePr, FailPr, FinishPr, ListingFails,
     PrFails, ReplayFails
<1>7. CASE Operator \/ Restart \/ UNCHANGED vars
  BY <1>1, <1>7 DEF Operator, Crash, Reclone, FullReset, Restart, vars
<1> QED BY <1>2, <1>3, <1>4, <1>5, <1>6, <1>7 DEF Next, Daemon, GitToSvn, Users

\* What holds of commits and revisions that exist goes on holding.
LEMMA ReplaysKept ==
    ASSUME Extends(svnLog', svnLog), Extends(prs', prs)
    PROVE  /\ \A p \in DOMAIN prs : ToReplay(p)' = ToReplay(p)
           /\ \A p, k : HasRevision(p, k) => HasRevision(p, k)'
<1>1. \A p \in DOMAIN prs : ToReplay(p)' = ToReplay(p)
  BY DEF Extends, ToReplay
<1>2. \A p, k : HasRevision(p, k) => HasRevision(p, k)'
  BY DEF Extends, HasRevision
<1> QED BY <1>1, <1>2

\* The commits left of the pull request in hand.
LEMMA LeftStep ==
    ASSUME IInv, TypeOK', LeftOK, [Next]_vars
    PROVE  LeftOK'
<1> USE DEF servers, disk, db, mirror, replay, rest, calm, EndOfMirror, EndOfCycle, EndOfPr
<1>1. /\ Extends(svnLog', svnLog) /\ Extends(prs', prs)
      /\ \A p \in DOMAIN prs : ToReplay(p)' = ToReplay(p)
      /\ \A p, k : HasRevision(p, k) => HasRevision(p, k)'
  BY HistoriesKept, ReplaysKept DEF IInv
<1>2. ASSUME pc' \in {"replay", "commit", "map"} =>
               pc \in {"replay", "commit", "map"} /\ pr' = pr /\ left' = left
      PROVE  LeftOK'
  BY <1>1, <1>2 DEF LeftOK, Extends
<1>3. CASE BeginPr
  <2>1. pr \in 1..Len(prs) /\ DOMAIN prs = 1..Len(prs)
    <3>1. prUpto \in 0..Len(prs) /\ Len(prs) \in Nat /\ DOMAIN prs = 1..Len(prs)
      BY Histories DEF IInv, TypeOK
    <3> QED BY <1>3, <3>1, Types DEF BeginPr, IInv, PhaseOK
  <2> QED BY <1>1, <1>3, <2>1 DEF BeginPr, LeftOK, Extends
<1>4. CASE RecordReplay \/ RecordReplayFails
  <2>1. /\ pc = "map" /\ left' = {k \in left : ~InHand(k)} /\ pr' = pr
    BY <1>4 DEF RecordReplay, RecordReplayFails, NextCommit
  <2>2. \A k \in left : InHand(k) => HasRevision(pr, k)
    BY <2>1 DEF IInv, PhaseOK, HasRevision
  <2>3. \A k \in ToReplay(pr) \ left' : HasRevision(pr, k)
    BY <2>1, <2>2 DEF LeftOK
  <2> QED BY <1>1, <2>1, <2>3 DEF LeftOK, Extends
<1>5. CASE \/ CheckForMergedPrs \/ ListMergedPrs \/ PrsDone \/ SkipPr
           \/ CommitNotFound \/ CommitRefused
           \/ CompletePr \/ FailPr \/ ListingFails \/ PrFails \/ ReplayFails
  BY <1>2, <1>5 DEF CheckForMergedPrs, ListMergedPrs, PrsDone, SkipPr,
     CommitNotFound, CommitRefused, CompletePr, FailPr, FinishPr, ListingFails,
     PrFails, ReplayFails
<1>6. CASE \E k \in left : \/ ApplyToWorkingCopy(k)
                           \/ CommitToSvn(k) \/ CommitUnacknowledged(k)
  BY <1>2, <1>6 DEF ApplyToWorkingCopy, CommitToSvn, CommitUnacknowledged, Committed
<1>7. CASE SvnToGit
  BY <1>2, <1>7 DEF SvnToGit, StartCycle, FirstRevision, SkipRevision, CommitMirror,
     Push, PushUnacknowledged, Pushed, PushRejected, RecordMirror, AdvanceWatermark,
     MirrorDone, MirrorFails
<1>8. CASE Users \/ Operator \/ Restart \/ UNCHANGED vars
  BY <1>2, <1>8 DEF Users, UserSvnCommit, MergePullRequest, Operator, Crash, Reclone,
     FullReset, Restart, vars
<1> QED BY <1>3, <1>4, <1>5, <1>6, <1>7, <1>8 DEF Next, Daemon, GitToSvn

\* The rows and the revisions of pull requests, as long as the step adds
\* neither.
LEMMA GapFreeKept ==
    ASSUME TypeOK, GapFree, Extends(svnLog', svnLog), Extends(prs', prs),
           \A r \in DOMAIN svnLog' : r \in DOMAIN svnLog \/ svnLog'[r].of[1] = 0,
           \A i \in DOMAIN prLog' :
             \/ i \in DOMAIN prLog /\ prLog'[i] = prLog[i]
             \/ prLog'[i].pr \in DOMAIN prs /\ prLog'[i].status # "completed"
    PROVE  GapFree'
<1>1. /\ \A p \in DOMAIN prs : ToReplay(p)' = ToReplay(p)
      /\ \A p, k : HasRevision(p, k) => HasRevision(p, k)'
  BY ReplaysKept
<1>2. \A r \in DOMAIN svnLog' : svnLog'[r].of[1] # 0 =>
        r \in DOMAIN svnLog /\ svnLog'[r] = svnLog[r] /\ svnLog[r].of[1] \in DOMAIN prs
  BY DEF GapFree, Extends, IsUsers
<1>3. DOMAIN svnLog = 1..Len(svnLog) /\ Len(svnLog) \in Nat
  BY Histories
<1>4. ASSUME NEW r \in DOMAIN svnLog', NEW p, p = svnLog'[r].of[1], p # 0,
             NEW k \in ToReplay(p)', k < svnLog'[r].of[2]
      PROVE  \E q \in 1..r : svnLog'[q].of = <<p, k>>
  <2>1. r \in DOMAIN svnLog /\ svnLog'[r] = svnLog[r] /\ p \in DOMAIN prs
    BY <1>2, <1>4
  <2>2. k \in ToReplay(p)
    BY <1>1, <1>4, <2>1
  <2>3. PICK q \in 1..r : svnLog[q].of = <<p, k>>
    BY <1>4, <2>1, <2>2 DEF GapFree, CompletedMeansReplayed, IsUsers
  <2>4. q \in DOMAIN svnLog
    BY <1>3, <2>1, <2>3
  <2> QED BY <2>3, <2>4 DEF Extends
<1>5. ASSUME NEW i \in DOMAIN prLog', prLog'[i].status = "completed",
             NEW p, p = prLog'[i].pr, NEW k \in ToReplay(p)'
      PROVE  HasRevision(p, k)'
  <2>1. i \in DOMAIN prLog /\ prLog'[i] = prLog[i] /\ p \in DOMAIN prs
    BY <1>5 DEF GapFree
  <2>2. k \in ToReplay(p)
    BY <1>1, <1>5, <2>1
  <2>3. HasRevision(p, k)
    BY <1>5, <2>1, <2>2 DEF GapFree, CompletedMeansReplayed, HasRevision
  <2> QED BY <1>1, <2>3
<1>6. CompletedMeansReplayed'
  BY <1>4, <1>5 DEF CompletedMeansReplayed, IsUsers, HasRevision, ToReplay
<1>7. \A r \in DOMAIN svnLog' : ~IsUsers(r)' => svnLog'[r].of[1] \in DOMAIN prs'
  BY <1>2 DEF IsUsers, Extends
<1>8. \A i \in DOMAIN prLog' : prLog'[i].pr \in DOMAIN prs'
  BY DEF GapFree, Extends
<1> QED BY <1>6, <1>7, <1>8 DEF GapFree

\* The oldest commit that is left follows all the others.
LEMMA CommitGapFree ==
    ASSUME IInv, TypeOK', LeftOK, GapFree, [Next]_vars,
           NEW k \in left, CommitToSvn(k) \/ CommitUnacknowledged(k)
    PROVE  GapFree'
<1>1. /\ Extends(svnLog', svnLog) /\ Extends(prs', prs)
      /\ \A p \in DOMAIN prs : ToReplay(p)' = ToReplay(p)
  BY HistoriesKept, ReplaysKept DEF IInv
<1>2. /\ prs' = prs /\ prLog' = prLog /\ pc = "commit" /\ InHand(k)
      /\ svnLog' = Append(svnLog, [of |-> <<pr, k>>, carries |-> dirty])
  BY DEF CommitToSvn, CommitUnacknowledged, Committed, db
<1>3. /\ Len(svnLog') = Len(svnLog) + 1 /\ DOMAIN svnLog' = 1..Len(svnLog')
      /\ svnLog'[Len(svnLog')].of = <<pr, k>>
      /\ \A r \in DOMAIN svnLog' : r \in DOMAIN svnLog \/ r = Len(svnLog')
      /\ DOMAIN svnLog = 1..Len(svnLog) /\ Len(svnLog) \in Nat
  <2>1. TypeOK /\ svnLog \in Seq(Revision)
    BY DEF IInv, TypeOK
  <2>2. [of |-> <<pr, k>>, carries |-> dirty] \in Revision
    <3>1. pr \in Nat /\ k \in Nat /\ dirty \subseteq Nat \X Nat
      BY <2>1, Types DEF TypeOK
    <3> QED BY <3>1 DEF Revision
  <2> QED BY <1>2, <2>1, <2>2, AppendExtends, Histories
<1>4. /\ pr \in DOMAIN prs /\ left \subseteq ToReplay(pr)
      /\ \A l \in ToReplay(pr) \ left : HasRevision(pr, l)
  BY <1>2 DEF LeftOK
<1>5. \A l \in ToReplay(pr) : l < k => HasRevision(pr, l)
  <2>1. \A l \in left : l \in Nat /\ k <= l
    BY <1>2, Types DEF InHand, IInv
  <2> QED BY <1>4, <2>1, Types DEF IInv
<1>6. ASSUME NEW r \in DOMAIN svnLog', NEW p, p = svnLog'[r].of[1], p # 0,
             NEW l \in ToReplay(p)', l < svnLog'[r].of[2]
      PROVE  \E q \in 1..r : svnLog'[q].of = <<p, l>>
  <2>1. CASE r \in DOMAIN svnLog
    <3>1. svnLog'[r] = svnLog[r] /\ p \in DOMAIN prs
      BY <1>1, <1>6, <2>1 DEF Extends, GapFree, IsUsers
    <3>2. l \in ToReplay(p)
      BY <1>1, <1>6, <3>1
    <3>3. PICK q \in 1..r : svnLog[q].of = <<p, l>>
      BY <1>6, <2>1, <3>1, <3>2 DEF GapFree, CompletedMeansReplayed, IsUsers
    <3>4. q \in DOMAIN svnLog
      BY <1>3, <2>1, <3>3
    <3> QED BY <1>1, <3>3, <3>4 DEF Extends
  <2>2. CASE r = Len(svnLog')
    <3>1. p = pr /\ svnLog'[r].of[2] = k /\ l \in ToReplay(pr)
      BY <1>1, <1>3, <1>4, <1>6, <2>2
    <3>2. PICK q \in DOMAIN svnLog : svnLog[q].of = <<p, l>>
      BY <1>5, <1>6, <3>1 DEF HasRevision
    <3>3. q \in 1..r
      BY <1>3, <2>2, <3>2
    <3> QED BY <1>1, <3>2, <3>3 DEF Extends
  <2> QED BY <1>3, <2>1, <2>2
<1>7. ASSUME NEW i \in DOMAIN prLog', prLog'[i].status = "completed",
             NEW p, p = prLog'[i].pr, NEW l \in ToReplay(p)'
      PROVE  \E r \in DOMAIN svnLog' : svnLog'[r].of = <<p, l>>
  <2>1. i \in DOMAIN prLog /\ prLog'[i] = prLog[i] /\ p \in DOMAIN prs
    BY <1>2, <1>7 DEF GapFree
  <2>2. l \in ToReplay(p)
    BY <1>1, <1>7, <2>1
  <2> QED BY <1>1, <1>7, <2>1, <2>2 DEF GapFree, CompletedMeansReplayed, Extends
<1>8. CompletedMeansReplayed'
  BY <1>6, <1>7 DEF CompletedMeansReplayed, IsUsers, ToReplay
<1>9. \A r \in DOMAIN svnLog' : ~IsUsers(r)' => svnLog'[r].of[1] \in DOMAIN prs'
  BY <1>1, <1>2, <1>3, <1>4 DEF GapFree, IsUsers, Extends
<1> QED BY <1>2, <1>8, <1>9 DEF GapFree

\* A row says completed when nothing of the pull request is left.
LEMMA CompleteGapFree ==
    ASSUME IInv, RowOK, LeftOK, GapFree, CompletePr
    PROVE  GapFree'
<1>1. /\ svnLog' = svnLog /\ prs' = prs /\ pc = "replay" /\ left = {}
      /\ FinishPr("completed")
  BY DEF CompletePr, FinishPr, servers
<1>2. /\ Len(prLog) # 0 /\ prLog[Len(prLog)].pr = pr
  BY <1>1 DEF RowOK
<1>3. /\ DOMAIN prLog' = DOMAIN prLog
      /\ \A i \in DOMAIN prLog : i # Len(prLog) => prLog'[i] = prLog[i]
      /\ prLog'[Len(prLog)].pr = pr
  BY <1>1, <1>2, RewriteRow DEF IInv
<1>4. pr \in DOMAIN prs /\ \A k \in ToReplay(pr) : HasRevision(pr, k)
  BY <1>1 DEF LeftOK
<1>5. \A p : ToReplay(p)' = ToReplay(p)
  BY <1>1 DEF ToReplay
<1>6. ASSUME NEW i \in DOMAIN prLog', prLog'[i].status = "completed",
             NEW p, p = prLog'[i].pr, NEW l \in ToReplay(p)'
      PROVE  \E r \in DOMAIN svnLog' : svnLog'[r].of = <<p, l>>
  <2>1. CASE i = Len(prLog)
    BY <1>1, <1>3, <1>4, <1>5, <1>6, <2>1 DEF HasRevision
  <2>2. CASE i # Len(prLog)
    BY <1>1, <1>3, <1>5, <1>6, <2>2 DEF GapFree, CompletedMeansReplayed
  <2> QED BY <2>1, <2>2
<1>7. ASSUME NEW r \in DOMAIN svnLog', NEW p, p = svnLog'[r].of[1], p # 0,
             NEW l \in ToReplay(p)', l < svnLog'[r].of[2]
      PROVE  \E q \in 1..r : svnLog'[q].of = <<p, l>>
  BY <1>1, <1>5, <1>7 DEF GapFree, CompletedMeansReplayed, IsUsers
<1>8. CompletedMeansReplayed'
  BY <1>6, <1>7 DEF CompletedMeansReplayed, IsUsers, ToReplay
<1>9. \A i \in DOMAIN prLog' : prLog'[i].pr \in DOMAIN prs'
  BY <1>1, <1>3, <1>4 DEF GapFree
<1> QED BY <1>1, <1>8, <1>9 DEF GapFree, IsUsers

LEMMA GapFreeStep ==
    ASSUME IInv, TypeOK', RowOK, LeftOK, GapFree, [Next]_vars
    PROVE  GapFree'
<1> USE DEF servers, disk, db, mirror, replay, rest, calm, EndOfMirror, EndOfCycle, EndOfPr
<1>1. /\ TypeOK /\ Extends(svnLog', svnLog) /\ Extends(prs', prs)
  BY HistoriesKept DEF IInv
<1>2. ASSUME svnLog' = svnLog, prLog' = prLog
      PROVE  GapFree'
  BY <1>1, <1>2, GapFreeKept
<1>3. CASE \E k \in left : CommitToSvn(k) \/ CommitUnacknowledged(k)
  BY <1>3, CommitGapFree
<1>4. CASE CompletePr
  BY <1>4, CompleteGapFree
<1>5. CASE FailPr
  <2>1. Len(prLog) # 0 /\ prLog[Len(prLog)].pr = pr /\ svnLog' = svnLog
    BY <1>5 DEF FailPr, FinishPr, RowOK
  <2>2. FinishPr("failed")
    BY <1>5 DEF FailPr
  <2>3. /\ DOMAIN prLog' = DOMAIN prLog
        /\ \A i \in DOMAIN prLog : i # Len(prLog) => prLog'[i] = prLog[i]
        /\ prLog'[Len(prLog)] = [pr |-> pr, status |-> "failed", at |-> Len(prs)]
    BY <1>1, <2>1, <2>2, RewriteRow
  <2>4. Len(prLog) \in DOMAIN prLog
    BY <1>1, <2>1, LogRows
  <2>5. \A i \in DOMAIN prLog' :
          \/ i \in DOMAIN prLog /\ prLog'[i] = prLog[i]
          \/ prLog'[i].pr \in DOMAIN prs /\ prLog'[i].status # "completed"
    BY <2>1, <2>3, <2>4 DEF GapFree
  <2> QED BY <1>1, <2>1, <2>5, GapFreeKept
<1>6. CASE BeginPr
  <2> DEFINE row == [pr |-> pr, status |-> "pending", at |-> 0]
  <2>1. row \in Row
    BY <1>1, Types DEF Row
  <2>2. /\ \A i \in DOMAIN prLog : prLog'[i] = prLog[i]
        /\ prLog'[Len(prLog')] = row /\ DOMAIN prLog' = 1..Len(prLog')
        /\ Len(prLog') = Len(prLog) + 1
    BY <1>1, <1>6, <2>1, AppendRow DEF BeginPr
  <2>3. pr \in DOMAIN prs
    <3>1. prUpto \in 0..Len(prs) /\ Len(prs) \in Nat /\ DOMAIN prs = 1..Len(prs)
      BY <1>1, Histories DEF TypeOK
    <3> QED BY <1>1, <1>6, <3>1, Types DEF BeginPr, IInv, PhaseOK
  <2>4. \A i \in DOMAIN prLog' :
          \/ i \in DOMAIN prLog /\ prLog'[i] = prLog[i]
          \/ prLog'[i].pr \in DOMAIN prs /\ prLog'[i].status # "completed"
    BY <1>1, <2>2, <2>3, LogRows
  <2> QED BY <1>1, <1>6, <2>4, GapFreeKept DEF BeginPr
<1>7. CASE FullReset
  BY <1>1, <1>7, GapFreeKept DEF FullReset
<1>8. CASE UserSvnCommit
  <2>1. svnLog \in Seq(Revision) /\ UserRevision \in Revision
    BY DEF IInv, TypeOK, Revision, UserRevision
  <2>2. \A r \in DOMAIN svnLog' : r \in DOMAIN svnLog \/ svnLog'[r].of[1] = 0
    BY <1>8, <2>1, AppendExtends DEF UserSvnCommit, UserRevision
  <2> QED BY <1>1, <1>8, <2>2, GapFreeKept DEF UserSvnCommit
<1>9. CASE SvnToGit
  BY <1>2, <1>9 DEF SvnToGit, StartCycle, FirstRevision, SkipRevision, CommitMirror,
     Push, PushUnacknowledged, Pushed, PushRejected, RecordMirror, AdvanceWatermark,
     MirrorDone, MirrorFails
<1>10. CASE \/ CheckForMergedPrs \/ ListMergedPrs \/ PrsDone \/ SkipPr
            \/ (\E k \in left : ApplyToWorkingCopy(k))
            \/ CommitNotFound \/ CommitRefused \/ RecordReplay \/ RecordReplayFails
            \/ ListingFails \/ PrFails \/ ReplayFails
  BY <1>2, <1>10 DEF CheckForMergedPrs, ListMergedPrs, PrsDone, SkipPr,
     ApplyToWorkingCopy, CommitNotFound, CommitRefused, RecordReplay,
     RecordReplayFails, NextCommit, ListingFails, PrFails, ReplayFails
<1>11. CASE \/ (\E shape \in PrShapes, kept \in BOOLEAN : MergePullRequest(shape, kept))
            \/ Crash \/ Reclone \/ Restart \/ UNCHANGED vars
  BY <1>2, <1>11 DEF MergePullRequest, Crash, Reclone, Restart, vars
<1> QED BY <1>3, <1>4, <1>5, <1>6, <1>7, <1>8, <1>9, <1>10, <1>11
        DEF Next, Daemon, GitToSvn, Users, Operator

\* The commits of a pull request reach SVN in order and without gaps, and a
\* row of pr_sync_log says completed only when all of them are there, even if
\* the daemon dies between two of them or the answer of svn commit is lost.
THEOREM ReplayedWithoutGaps == Spec => []CompletedMeansReplayed
<1>1. Init => RowOK /\ LeftOK /\ GapFree
  BY DEF Init, RowOK, LeftOK, GapFree, CompletedMeansReplayed, IsUsers, UserRevision
<1>2. IInv /\ IInv' /\ RowOK /\ LeftOK /\ GapFree /\ [Next]_vars
        => (RowOK /\ LeftOK /\ GapFree)'
  BY RowStep, LeftStep, GapFreeStep DEF IInv
<1>3. GapFree => CompletedMeansReplayed
  BY DEF GapFree
<1> QED BY <1>1, <1>2, <1>3, Invariant, PTL DEF Spec

=============================================================================
