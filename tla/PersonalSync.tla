---------------------------- MODULE PersonalSync ----------------------------
(***************************************************************************)
(* Personal branch mode: a daemon that mirrors every SVN revision to one   *)
(* GitHub branch (SvnToGitSync) and replays the commits of merged pull     *)
(* requests to SVN (PrMonitor, GitToSvnSync).                              *)
(*                                                                         *)
(* A step of the daemon is one awaited command or one row written.  SVN    *)
(* users commit, pull requests are merged and the process may die between  *)
(* any two of them.  The daemon clones the branch when its clone does not  *)
(* exist and never fetches again.                                          *)
(***************************************************************************)
EXTENDS Naturals, Sequences, FiniteSets

CONSTANTS
    PrShapes,         \* the lists of commits a pull request may have
    FaultKinds,       \* the faults the environment may inject
    MaxUserRevisions, MaxPrs, MaxFaults, MaxRepairs,
    MaxStranded       \* local commits kept of a clone that cannot push

\* "work" changes a file, "noop" none that is copied, and the message of an
\* "echo" commit contains "[reposync]".
CommitKinds == {"work", "noop", "echo"}

ASSUME PersonalAssumption ==
    /\ \A shape \in PrShapes : shape \in Seq(CommitKinds) /\ shape # <<>>
    /\ FaultKinds \subseteq {"crash", "error", "lost_ack"}
    /\ MaxUserRevisions \in Nat /\ MaxPrs \in Nat
    /\ MaxFaults \in Nat /\ MaxRepairs \in Nat /\ MaxStranded \in Nat

VARIABLES
    \* The servers.
    svnLog,     \* SVN revisions, oldest first
    remote,     \* the GitHub branch, oldest first
    prs,        \* merged pull requests, by the time of the merge
    \* The daemon's disk: its clone and its SVN working copy.
    base,       \* how much of `remote` the clone has seen
    ahead,      \* revisions committed in the clone and not pushed
    present,    \* pull requests whose commits the clone holds
    dirty,      \* replayed commits whose changes wait in the working copy
    \* SQLite.
    wm,         \* watermarks row "svn_rev"
    commitMap,  \* commit_map
    prLog,      \* pr_sync_log, in insertion order
    \* The running cycle, lost in a crash.
    pc,
    rev, upto,  \* SvnToGitSync::sync: the entry in hand, the last of the log
    pr, prUpto, \* GitToSvnSync::sync: the pull request in hand, the last
    left,       \* its commits still to replay
    wcRev, out, \* the working copy's revision, the revision just committed
    \* Configuration, bounds and history.
    marker,     \* does the git_to_svn template keep the marker?
    imported,   \* the revision of the latest snapshot import
    faults, repairs, resets

servers == <<svnLog, remote, prs>>
disk    == <<base, ahead, present, dirty>>
db      == <<wm, commitMap, prLog>>
mirror  == <<rev, upto>>
replay  == <<pr, prUpto, left, wcRev, out>>
rest    == <<marker, imported, faults, repairs, resets>>
calm    == <<marker, imported, repairs, resets>>
vars    == <<svnLog, remote, prs, base, ahead, present, dirty, wm, commitMap,
             prLog, pc, rev, upto, pr, prUpto, left, wcRev, out, marker,
             imported, faults, repairs, resets>>

-----------------------------------------------------------------------------
(* A revision is a user's or the replay `of` commit k of pull request p,   *)
(* <<p, k>>; it carries the changes that were in the working copy.  A      *)
(* commit of the branch mirrors revision n, is the merge of pull request   *)
(* n, or is the snapshot of revision n.                                    *)

UserRevision == [of |-> <<0, 0>>, carries |-> {}]
Mirror(r)   == [kind |-> "mirror", n |-> r]
Merge(p)    == [kind |-> "merge", n |-> p]
Snapshot(r) == [kind |-> "snapshot", n |-> r]

IsUsers(r) == svnLog[r].of[1] = 0
Mirrors(r) == {s \in DOMAIN remote : remote[s] = Mirror(r)}

\* Variant for mutation testing: no echo suppression by message.
NoEchoCheck(r) == FALSE

\* The log message of revision r contains "[reposync]".
IsEcho(r) == marker /\ ~IsUsers(r)

IsSvnRevSynced(r) == \E row \in commitMap : row.rev = r

\* Variant: only completed rows count, so that the others are retried.
IsPrCompleted(p) ==
    \E i \in DOMAIN prLog : prLog[i].pr = p /\ prLog[i].status = "completed"

IsPrSynced(p) == \E i \in DOMAIN prLog : prLog[i].pr = p

\* The time of the last completed row, as the number of pull requests that
\* were merged by then, in a set of one element.
LastPrSyncTime ==
    LET completed == {i \in DOMAIN prLog : prLog[i].status = "completed"} IN
    IF completed = {} THEN {0}
    ELSE {prLog[i].at : i \in {i \in completed : \A j \in completed : j <= i}}

\* GitHub's answer: the pull requests merged since then.
MergedPrs == {p \in DOMAIN prs : \E since \in LastPrSyncTime : since < p}

\* The branch has moved since the clone was made: every push is rejected.
Diverged == base < Len(remote)

ToReplay(p) == {k \in DOMAIN prs[p].commits : prs[p].commits[k] # "echo"}

Faulty(kind) ==
    kind \in FaultKinds /\ faults < MaxFaults /\ faults' = faults + 1

-----------------------------------------------------------------------------
(* After `import`: one revision, its snapshot on the branch, both recorded. *)

Init ==
    /\ svnLog = <<UserRevision>> /\ remote = <<Snapshot(1)>> /\ prs = <<>>
    /\ base = 1 /\ ahead = <<>> /\ dirty = {}
    /\ present \in SUBSET (1..MaxPrs)
    /\ wm = 1 /\ commitMap = {[rev |-> 1, sha |-> <<0, 1>>]} /\ prLog = <<>>
    /\ pc = "idle"
    /\ rev = 0 /\ upto = 0
    /\ pr = 0 /\ prUpto = 0 /\ left = {} /\ wcRev = 0 /\ out = 0
    /\ marker \in BOOLEAN
    /\ imported = 1 /\ faults = 0 /\ repairs = 0 /\ resets = 0

-----------------------------------------------------------------------------
(* Users.                                                                  *)

UserSvnCommit ==
    /\ Cardinality({r \in DOMAIN svnLog : IsUsers(r)}) < MaxUserRevisions
    /\ svnLog' = Append(svnLog, UserRevision)
    /\ UNCHANGED <<remote, prs, disk, db, pc, mirror, replay, rest>>

\* Merging puts the pull request on the branch; unless it is squashed or
\* rebased and its branch deleted, a clone made later holds its commits.
MergePullRequest(shape, kept) ==
    /\ Len(prs) < MaxPrs
    /\ prs' = Append(prs, [commits |-> shape, kept |-> kept])
    /\ remote' = Append(remote, Merge(Len(prs) + 1))
    /\ UNCHANGED <<svnLog, disk, db, pc, mirror, replay, rest>>

-----------------------------------------------------------------------------
(* SVN to Git: SvnToGitSync::sync.                                         *)

\* Its return, with or without an error: the cycle goes on with phase two.
EndOfMirror == pc' = "prs" /\ rev' = 0 /\ upto' = 0

FirstRevision(head) ==
    IF wm < head THEN pc' = "mirror" /\ rev' = wm + 1 /\ upto' = head
                 ELSE EndOfMirror

StartCycleLate ==   \* variant: the newest revision is left out
    /\ pc = "idle"
    /\ FirstRevision(Len(svnLog) - 1)
    /\ UNCHANGED <<servers, disk, db, replay, rest>>

\* Read the watermark, svn info, svn log (watermark + 1 .. head).
StartCycle ==
    /\ pc = "idle"
    /\ FirstRevision(Len(svnLog))
    /\ UNCHANGED <<servers, disk, db, replay, rest>>

SkipRevision ==
    /\ pc = "mirror" /\ rev <= upto
    /\ IsEcho(rev) \/ IsSvnRevSynced(rev)
    /\ wm' = rev /\ rev' = rev + 1
    /\ UNCHANGED <<servers, disk, commitMap, prLog, pc, upto, replay, rest>>

\* Export the revision, make the clone's tree equal to it, commit.  A clone
\* that has diverged gets another such commit in every cycle; they are never
\* pushed, and those after the first MaxStranded are not kept here.
CommitMirror ==
    /\ pc = "mirror" /\ rev <= upto
    /\ ~IsEcho(rev) /\ ~IsSvnRevSynced(rev)
    /\ ahead' = IF Diverged /\ Len(ahead) >= MaxStranded
                THEN ahead ELSE Append(ahead, rev)
    /\ pc' = "push"
    /\ UNCHANGED <<servers, base, present, dirty, db, mirror, replay, rest>>

\* A fast-forward: the branch is still where the clone last saw it.
Pushed ==
    /\ pc = "push" /\ ~Diverged
    /\ remote' = remote \o [i \in DOMAIN ahead |-> Mirror(ahead[i])]
    /\ base' = Len(remote') /\ ahead' = <<>>
    /\ UNCHANGED <<svnLog, prs, present, dirty, db, replay, calm>>

Push == Pushed /\ pc' = "record" /\ UNCHANGED <<mirror, faults>>

PushUnacknowledged == Pushed /\ EndOfMirror /\ Faulty("lost_ack")

PushRejectedAfterWatermark ==   \* variant: the watermark is written first
    /\ pc = "push" /\ Diverged
    /\ wm' = rev
    /\ EndOfMirror
    /\ UNCHANGED <<servers, disk, commitMap, prLog, replay, rest>>

PushRejected ==
    /\ pc = "push" /\ Diverged
    /\ EndOfMirror
    /\ UNCHANGED <<servers, disk, db, replay, rest>>

RecordMirrorNever ==   \* variant: the rest of the loop body is skipped
    /\ pc = "record"
    /\ pc' = "mirror" /\ rev' = rev + 1
    /\ UNCHANGED <<servers, disk, db, upto, replay, rest>>

RecordMirror ==
    /\ pc = "record"
    /\ commitMap' = commitMap \cup {[rev |-> rev, sha |-> <<0, base>>]}
    /\ pc' = "advance"
    /\ UNCHANGED <<servers, disk, wm, prLog, mirror, replay, rest>>

AdvanceWatermark ==
    /\ pc = "advance"
    /\ wm' = rev /\ rev' = rev + 1
    /\ pc' = "mirror"
    /\ UNCHANGED <<servers, disk, commitMap, prLog, upto, replay, rest>>

MirrorDone ==
    /\ pc = "mirror" /\ rev > upto
    /\ EndOfMirror
    /\ UNCHANGED <<servers, disk, db, replay, rest>>

\* Every other error of a command or statement ends the phase, not the cycle.
MirrorFails ==
    /\ pc \in {"idle", "mirror", "push", "record", "advance"}
    /\ Faulty("error")
    /\ EndOfMirror
    /\ UNCHANGED <<servers, disk, db, replay, calm>>

-----------------------------------------------------------------------------
(* Git to SVN: PrMonitor, then GitToSvnSync::sync.                         *)

EndOfCycle ==
    /\ pc' = "idle"
    /\ pr' = 0 /\ prUpto' = 0 /\ left' = {} /\ wcRev' = 0 /\ out' = 0

\* sync_pr returns, with or without an error.
EndOfPr ==
    /\ pc' = "pr" /\ pr' = pr + 1
    /\ left' = {} /\ wcRev' = 0 /\ out' = 0
    /\ UNCHANGED prUpto

CheckForMergedPrs ==
    /\ pc = "prs"
    /\ IF \E p \in MergedPrs : ~IsPrSynced(p) THEN pc' = "list" ELSE pc' = "idle"
    /\ UNCHANGED <<servers, disk, db, mirror, replay, rest>>

ListMergedPrs ==
    /\ pc = "list"
    /\ \E since \in LastPrSyncTime : pr' = since + 1
    /\ prUpto' = Len(prs)
    /\ pc' = "pr"
    /\ UNCHANGED <<servers, disk, db, mirror, left, wcRev, out, rest>>

PrsDone ==
    /\ pc = "pr" /\ pr > prUpto
    /\ EndOfCycle
    /\ UNCHANGED <<servers, disk, db, mirror, rest>>

SkipPr ==
    /\ pc = "pr" /\ pr <= prUpto /\ IsPrSynced(pr)
    /\ pr' = pr + 1
    /\ UNCHANGED <<servers, disk, db, pc, mirror, prUpto, left, wcRev, out, rest>>

\* Fetch the commits, insert a pending row, drop the echo commits.
BeginPr ==
    /\ pc = "pr" /\ pr <= prUpto /\ ~IsPrSynced(pr)
    /\ prLog' = Append(prLog, [pr |-> pr, status |-> "pending", at |-> 0])
    /\ left' = ToReplay(pr)
    /\ pc' = "replay"
    /\ UNCHANGED <<servers, disk, wm, commitMap, mirror, pr, prUpto, wcRev,
                   out, rest>>

\* The commit in hand: the oldest of those left.
InHand(k) == k \in left /\ \A l \in left : k <= l

\* svn update, then write the files the commit changes, svn add and rm.
ApplyToWorkingCopy(k) ==
    /\ pc = "replay" /\ InHand(k) /\ pr \in present
    /\ wcRev' = Len(svnLog)
    /\ dirty' = IF prs[pr].commits[k] = "work" THEN dirty \cup {<<pr, k>>}
                                               ELSE dirty
    /\ pc' = "commit"
    /\ UNCHANGED <<servers, base, ahead, present, db, mirror, pr, prUpto, left,
                   out, rest>>

\* get_changed_files: the clone has no such commit.
CommitNotFound ==
    /\ pc = "replay" /\ left # {} /\ pr \notin present
    /\ pc' = "fail"
    /\ UNCHANGED <<servers, disk, db, mirror, replay, rest>>

\* svn commit sends whatever changes the working copy holds.
Committed(k) ==
    /\ pc = "commit" /\ InHand(k) /\ dirty # {}
    /\ svnLog' = Append(svnLog, [of |-> <<pr, k>>, carries |-> dirty])
    /\ out' = Len(svnLog') /\ dirty' = {}
    /\ UNCHANGED <<remote, prs, base, ahead, present, db, mirror, pr, prUpto,
                   left, wcRev, calm>>

CommitToSvn(k) == Committed(k) /\ pc' = "map" /\ UNCHANGED faults

CommitUnacknowledged(k) == Committed(k) /\ pc' = "fail" /\ Faulty("lost_ack")

\* Nothing to commit prints no revision number; a file changed since the
\* update is out of date.
CommitRefused ==
    /\ pc = "commit" /\ (dirty = {} \/ wcRev < Len(svnLog))
    /\ pc' = "fail"
    /\ UNCHANGED <<servers, disk, db, mirror, replay, rest>>

NextCommit ==
    /\ left' = {k \in left : ~InHand(k)} /\ wcRev' = 0 /\ out' = 0
    /\ pc' = "replay"
    /\ UNCHANGED <<servers, disk, wm, prLog, mirror, pr, prUpto, calm>>

RecordHead ==   \* variant: svn info instead of the revision just committed
    /\ pc = "map"
    /\ \E k \in left : InHand(k) /\ commitMap' =
         commitMap \cup {[rev |-> Len(svnLog), sha |-> <<pr, k>>]}
    /\ NextCommit /\ UNCHANGED faults

RecordReplay ==
    /\ pc = "map"
    /\ \E k \in left : InHand(k) /\ commitMap' =
         commitMap \cup {[rev |-> out, sha |-> <<pr, k>>]}
    /\ NextCommit /\ UNCHANGED faults

RecordReplayFails ==
    /\ pc = "map" /\ NextCommit /\ UNCHANGED commitMap
    /\ Faulty("error")

\* complete_pr_sync or fail_pr_sync on the row of the pull request in hand.
FinishPr(status) ==
    /\ prLog' = [prLog EXCEPT ![Len(prLog)] =
                    [pr |-> pr, status |-> status, at |-> Len(prs)]]
    /\ EndOfPr
    /\ UNCHANGED <<servers, disk, wm, commitMap, mirror, rest>>

CompletePr == pc = "replay" /\ left = {} /\ FinishPr("completed")

FailPrGoesOn ==   \* variant: the failed commit is skipped, not the rest
    /\ pc = "fail" /\ NextCommit /\ UNCHANGED <<commitMap, faults>>

FailPr == pc = "fail" /\ FinishPr("failed")

-----------------------------------------------------------------------------
(* Errors of the second phase.                                             *)

\* Listing or the database lookup fails: the phase is over.
ListingFails ==
    /\ pc \in {"prs", "list", "pr"}
    /\ Faulty("error")
    /\ EndOfCycle
    /\ UNCHANGED <<servers, disk, db, mirror, calm>>

\* Fetching commits, inserting or finishing the row fails: the next one.
PrFails ==
    /\ \/ pc = "pr" /\ pr <= prUpto /\ ~IsPrSynced(pr)
       \/ pc = "replay" /\ left = {}
       \/ pc = "fail"
    /\ Faulty("error")
    /\ EndOfPr
    /\ UNCHANGED <<servers, disk, db, mirror, calm>>

\* update, reading the commit, status, add, rm or commit fails.
ReplayFails ==
    /\ pc \in {"replay", "commit"} /\ left # {}
    /\ Faulty("error")
    /\ pc' = "fail"
    /\ UNCHANGED <<servers, disk, db, mirror, replay, calm>>

-----------------------------------------------------------------------------
(* The process and its operator.                                           *)

Crash ==
    /\ pc \notin {"idle", "down"}
    /\ Faulty("crash")
    /\ pc' = "down"
    /\ rev' = 0 /\ upto' = 0
    /\ pr' = 0 /\ prUpto' = 0 /\ left' = {} /\ wcRev' = 0 /\ out' = 0
    /\ UNCHANGED <<servers, disk, db, calm>>

Restart ==
    /\ pc = "down" /\ pc' = "idle"
    /\ UNCHANGED <<servers, disk, db, mirror, replay, rest>>

\* What a new clone holds: merged pull requests whose commits GitHub still
\* has, and some whose branch was pushed but that are merged later.
Cloned ==
    \E early \in SUBSET (Len(prs) + 1 .. MaxPrs) :
        present' = {p \in DOMAIN prs : prs[p].kept} \cup early

\* The operator deletes the clone; the daemon makes a new one as it starts.
Reclone ==
    /\ pc \in {"idle", "down"} /\ repairs < MaxRepairs
    /\ repairs' = repairs + 1
    /\ base' = Len(remote) /\ ahead' = <<>> /\ Cloned
    /\ pc' = "idle"
    /\ UNCHANGED <<servers, dirty, db, mirror, replay, marker, imported, faults, resets>>

ResetWithoutWatermark ==   \* variant: the import forgets the watermark
    /\ pc \in {"idle", "down"} /\ repairs < MaxRepairs
    /\ repairs' = repairs + 1 /\ resets' = resets + 1
    /\ remote' = Append(remote, Snapshot(Len(svnLog)))
    /\ base' = Len(remote') /\ ahead' = <<>> /\ Cloned /\ dirty' = {}
    /\ wm' = 0 /\ imported' = Len(svnLog) /\ prLog' = <<>>
    /\ commitMap' = {[rev |-> Len(svnLog), sha |-> <<0, Len(remote')>>]}
    /\ pc' = "idle"
    /\ UNCHANGED <<svnLog, prs, mirror, replay, marker, faults>>

\* The documented full reset: database, clone and working copy are deleted
\* and the head of SVN is imported as a snapshot.
FullReset ==
    /\ pc \in {"idle", "down"} /\ repairs < MaxRepairs
    /\ repairs' = repairs + 1 /\ resets' = resets + 1
    /\ remote' = Append(remote, Snapshot(Len(svnLog)))
    /\ base' = Len(remote') /\ ahead' = <<>> /\ Cloned /\ dirty' = {}
    /\ wm' = Len(svnLog) /\ imported' = Len(svnLog) /\ prLog' = <<>>
    /\ commitMap' = {[rev |-> Len(svnLog), sha |-> <<0, Len(remote')>>]}
    /\ pc' = "idle"
    /\ UNCHANGED <<svnLog, prs, mirror, replay, marker, faults>>

-----------------------------------------------------------------------------
Users == \/ UserSvnCommit
         \/ \E shape \in PrShapes, kept \in BOOLEAN : MergePullRequest(shape, kept)

Operator == Crash \/ Reclone \/ FullReset

SvnToGit == \/ StartCycle \/ SkipRevision \/ CommitMirror
            \/ Push \/ PushUnacknowledged \/ PushRejected
            \/ RecordMirror \/ AdvanceWatermark \/ MirrorDone \/ MirrorFails

GitToSvn == \/ CheckForMergedPrs \/ ListMergedPrs \/ PrsDone \/ SkipPr \/ BeginPr
            \/ \E k \in left : \/ ApplyToWorkingCopy(k)
                               \/ CommitToSvn(k) \/ CommitUnacknowledged(k)
            \/ CommitNotFound \/ CommitRefused
            \/ RecordReplay \/ RecordReplayFails
            \/ CompletePr \/ FailPr
            \/ ListingFails \/ PrFails \/ ReplayFails

Daemon == SvnToGit \/ GitToSvn \/ Restart

Next == Users \/ Operator \/ Daemon

Spec == Init /\ [][Next]_vars

\* The polling loop runs cycle after cycle, every command has a timeout, and
\* a dead daemon is started again.
FairSpec == Spec /\ WF_vars(Daemon)

-----------------------------------------------------------------------------
(* Properties.                                                             *)

Revision == [of : Nat \X Nat, carries : SUBSET (Nat \X Nat)]
PullRequest == [commits : Seq(CommitKinds), kept : BOOLEAN]
BranchCommit == [kind : {"mirror", "merge", "snapshot"}, n : Nat]
Row == [pr : Nat, status : {"pending", "completed", "failed"}, at : Nat]

\* Every variable has the type the code gives it; watermark, clone and loop
\* bounds never run ahead of the histories they point into.
TypeOK ==
    /\ svnLog \in Seq(Revision) /\ remote \in Seq(BranchCommit)
    /\ prs \in Seq(PullRequest)
    /\ base \in 0..Len(remote) /\ ahead \in Seq(Nat)
    /\ present \subseteq Nat /\ dirty \subseteq Nat \X Nat
    /\ wm \in 0..Len(svnLog)
    /\ commitMap \subseteq [rev : Nat, sha : Nat \X Nat]
    /\ prLog \in Seq(Row)
    /\ pc \in {"idle", "mirror", "push", "record", "advance", "prs", "list",
               "pr", "replay", "commit", "map", "fail", "down"}
    /\ rev \in Nat /\ upto \in 0..Len(svnLog)
    /\ pr \in Nat /\ prUpto \in 0..Len(prs) /\ left \subseteq Nat
    /\ wcRev \in 0..Len(svnLog) /\ out \in 0..Len(svnLog)
    /\ marker \in BOOLEAN /\ imported \in 0..Len(svnLog)
    /\ faults \in Nat /\ repairs \in Nat /\ resets \in Nat

\* The watermark never covers a user's revision that is neither on the
\* branch nor in the imported snapshot, whatever fails and whoever pushes.
WatermarkCoversMirror ==
    \A r \in imported + 1 .. wm : IsUsers(r) => Mirrors(r) # {}

\* Copies appear on the branch in the order of the revisions: retries, new
\* clones and resets may repeat the latest one but never go back.
MirroredInOrder ==
    \A i, j \in DOMAIN remote :
        i < j /\ remote[i].kind # "merge" /\ remote[j].kind # "merge"
          => remote[i].n <= remote[j].n

\* A revision is mirrored again only if a fault came between its commit and
\* its watermark.
MirroredOncePerFault ==
    \A r \in DOMAIN svnLog : Cardinality(Mirrors(r)) <= 1 + faults

\* No change of a pull request enters SVN twice, not even after a crash or a
\* lost answer, unless the log of replayed requests is thrown away.
ReplayedAtMostOnce ==
    \A p \in DOMAIN prs : \A k \in DOMAIN prs[p].commits :
        Cardinality({r \in DOMAIN svnLog : <<p, k>> \in svnLog[r].carries})
          <= 1 + resets

\* The commits of a pull request reach SVN in order and without gaps, and all
\* of them if its row says completed.
CompletedMeansReplayed ==
    /\ \A r \in DOMAIN svnLog : ~IsUsers(r) =>
         \A k \in ToReplay(svnLog[r].of[1]) : k < svnLog[r].of[2] =>
             \E q \in 1..r : svnLog[q].of = <<svnLog[r].of[1], k>>
    /\ \A i \in DOMAIN prLog : prLog[i].status = "completed" =>
         \A k \in ToReplay(prLog[i].pr) :
             \E r \in DOMAIN svnLog : svnLog[r].of = <<prLog[i].pr, k>>

\* What the daemon wrote to SVN does not come back as a mirrored commit; a
\* template without the marker leaves this to commit_map, as long as the row
\* could be written.
NoEcho == marker \/ faults + resets = 0 =>
    \A r \in DOMAIN svnLog : Mirrors(r) # {} => IsUsers(r)

\* A commit_map row names two commits of which one is the copy of the other.
CommitMapTruthful ==
    \A row \in commitMap :
        IF row.sha[1] = 0
        THEN remote[row.sha[2]] \in {Mirror(row.rev), Snapshot(row.rev)}
        ELSE svnLog[row.rev].of = row.sha

\* Unless it diverges, the branch catches up with SVN.
EventuallyMirrored == <>[](Diverged \/ wm = Len(svnLog))
=============================================================================
