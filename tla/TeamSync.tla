------------------------------ MODULE TeamSync ------------------------------
(***************************************************************************)
(* The team-mode sync engine: one SVN repository, one GitHub branch, the   *)
(* daemon's local clone, its SQLite watermarks and the cycle that copies   *)
(* commits in both directions.                                             *)
(*                                                                         *)
(* A step of the engine is one call the code awaits or one row it writes,  *)
(* so users may commit, and the process may die, between any two of them.  *)
(* Both histories are linear and append-only, so a revision number and a   *)
(* SHA are both positions: `remote[s]` is the commit whose SHA is s.       *)
(***************************************************************************)
EXTENDS Integers, Sequences, FiniteSets

CONSTANTS
    Files,            \* paths both repositories can hold
    Contents,         \* what a path can contain
    Absent,           \* the path does not exist
    NoCommit,         \* the local clone has nothing unpushed
    MarkerChoices,    \* may a user's message contain "[reposync]"?
    BlankChoices,     \* may a user's SVN log message be empty?
    UsersDuringCycle, \* do users commit while a cycle runs?
    FaultKinds,       \* the faults the environment may inject
    GitFetchCap,      \* get_commits_since returns at most this many commits
    MaxSvnCommits, MaxGitCommits,   \* bounds on what users commit
    MaxFaults, MaxResets, MaxResolves

AllFaultKinds ==
    {"crash", "command_error", "lost_ack", "cat_error", "db_error"}

ASSUME TeamSyncAssumption ==
    /\ Absent \notin Contents
    /\ MarkerChoices \subseteq BOOLEAN
    /\ BlankChoices \subseteq BOOLEAN
    /\ UsersDuringCycle \in BOOLEAN
    /\ FaultKinds \subseteq AllFaultKinds
    /\ GitFetchCap \in Nat \ {0}
    /\ MaxSvnCommits \in Nat /\ MaxGitCommits \in Nat
    /\ MaxFaults \in Nat /\ MaxResets \in Nat /\ MaxResolves \in Nat

VARIABLES
    \* The two servers.
    svnLog,     \* SVN revisions, oldest first
    remote,     \* commits of the GitHub branch, oldest first
    \* The daemon's clone: a prefix of `remote` and at most one commit on top.
    base, unpushed,
    \* SQLite, surviving a crash.
    wmRev, wmSha,   \* repositories.last_svn_rev / last_git_sha
    kvRev, kvSha,   \* kv_state last_svn_rev_<id> / last_git_sha_<id>
    records,        \* sync_records, in insertion order
    conflicts,      \* files with an unresolved conflict row
    syncState,      \* kv_state sync_state
    \* The running cycle, lost in a crash.
    pc, svnTodo, gitTodo, cur, out, wcRev,
    \* History and bounds.
    skipped,        \* Git commits found to change nothing in SVN
    fetched,        \* SVN revisions a cycle has ever fetched
    faults, resets, resolves

servers == <<svnLog, remote>>
clone   == <<base, unpushed>>
row     == <<wmRev, wmSha>>
kv      == <<kvRev, kvSha>>
db      == <<wmRev, wmSha, kvRev, kvSha, records, conflicts, syncState>>
memory  == <<pc, svnTodo, gitTodo, cur, out, wcRev>>
history == <<skipped, fetched>>
bounds  == <<faults, resets, resolves>>
vars    == <<svnLog, remote, base, unpushed, wmRev, wmSha, kvRev, kvSha,
             records, conflicts, syncState, pc, svnTodo, gitTodo, cur, out,
             wcRev, skipped, fetched, faults, resets, resolves>>

-----------------------------------------------------------------------------
(* Repository contents.                                                    *)

Tree == [Files -> Contents \cup {Absent}]
EmptyTree == [f \in Files |-> Absent]

\* origin is 0 for a user's commit, else the position in the other history
\* this commit was synced from.  The code cannot see it: it sees `marked`.
Commit == [tree : Tree, origin : Nat, marked : BOOLEAN, blank : BOOLEAN]

\* The clone either has an unpushed commit or it has none.
ASSUME NoCommitAssumption == NoCommit \notin Commit

TreeAt(log, i) == IF i = 0 THEN EmptyTree ELSE log[i].tree

\* The paths commit i changed: `svn log -v`, or git's diff against its parent.
Delta(log, i) == {f \in Files : log[i].tree[f] # TreeAt(log, i - 1)[f]}

\* `tree` with the files of commit i that are in `which` set to its contents.
Overlay(tree, log, i, which) ==
    [f \in Files |-> IF f \in which THEN log[i].tree[f] ELSE tree[f]]

MaxOf(S) == {x \in S : \A y \in S : y <= x}

\* Variant for mutation testing: the marker is not looked for.
IsEchoNever(commit) == FALSE

IsEcho(commit) == commit.marked

LocalTree == IF unpushed = NoCommit THEN TreeAt(remote, base) ELSE unpushed.tree

Directions == {"svn_to_git", "git_to_svn"}
Record == [dir : Directions, rev : Nat, sha : Nat]

Phases == {"idle", "fetch_svn", "fetch_git", "detect",
           "svn_to_git", "push", "s2g_record", "s2g_kv", "s2g_row",
           "git_to_svn", "svn_commit", "g2s_record", "g2s_kv", "g2s_row",
           "skip_kv", "skip_row"}

SyncStates == {"idle", "detecting", "conflict_found", "applying", "error"}

\* The SHA of a local commit that no remote history contains.
UnknownSha == -1

-----------------------------------------------------------------------------
(* A new pair of repositories (nothing synced yet), or one whose history   *)
(* the import has already copied and recorded in the repositories row.     *)

InitLogs(seeded) ==
    /\ svnLog = <<[tree |-> EmptyTree, origin |-> 0,
                   marked |-> FALSE, blank |-> FALSE]>>
    /\ remote = <<[tree |-> EmptyTree, origin |-> IF seeded THEN 1 ELSE 0,
                   marked |-> seeded, blank |-> FALSE]>>
    /\ wmRev = (IF seeded THEN 1 ELSE 0)
    /\ wmSha = (IF seeded THEN 1 ELSE 0)

Init ==
    /\ \E seeded \in BOOLEAN : InitLogs(seeded)
    /\ base = 1 /\ unpushed = NoCommit
    /\ kvRev = 0 /\ kvSha = 0
    /\ records = <<>>
    /\ conflicts = {}
    /\ syncState = "idle"
    /\ pc = "idle"
    /\ svnTodo = {} /\ gitTodo = {} /\ cur = 0 /\ out = 0 /\ wcRev = 0
    /\ skipped = {} /\ fetched = {}
    /\ faults = 0 /\ resets = 0 /\ resolves = 0

-----------------------------------------------------------------------------
(* Users.                                                                  *)

UserCommits(log) == {i \in DOMAIN log : log[i].origin = 0}

UserMayCommit(log, max) ==
    /\ Cardinality(UserCommits(log) \ {1}) < max   \* the first one is in Init
    /\ pc = "idle" \/ UsersDuringCycle

\* A user's commit on top of a history: one file set, changed or removed.
UserEdit(log, f, c, m, b) ==
    Append(log, [tree |-> [TreeAt(log, Len(log)) EXCEPT ![f] = c],
                 origin |-> 0, marked |-> m, blank |-> b])

UserSvnCommit ==
    /\ UserMayCommit(svnLog, MaxSvnCommits)
    /\ \E f \in Files, c \in Contents \cup {Absent},
          m \in MarkerChoices, b \in BlankChoices :
         /\ TreeAt(svnLog, Len(svnLog))[f] # c
         /\ svnLog' = UserEdit(svnLog, f, c, m, b)
    /\ UNCHANGED <<remote, clone, db, memory, history, bounds>>

UserGitPush ==
    /\ UserMayCommit(remote, MaxGitCommits)
    /\ \E f \in Files, c \in Contents \cup {Absent}, m \in MarkerChoices :
         /\ TreeAt(remote, Len(remote))[f] # c
         /\ remote' = UserEdit(remote, f, c, m, FALSE)
    /\ UNCHANGED <<svnLog, clone, db, memory, history, bounds>>

\* Resolving a conflict only updates its row; nothing reads the resolution.
ResolveConflict ==
    /\ resolves < MaxResolves
    /\ \E f \in conflicts : conflicts' = conflicts \ {f}
    /\ resolves' = resolves + 1
    /\ UNCHANGED <<servers, clone, row, kv, records, syncState, memory,
                   history, faults, resets>>
-----------------------------------------------------------------------------
(* Watermarks.                                                             *)

\* The commits whose subject line shows the marker.  The marker is written
\* two lines below the original message, so `%s` shows it only when that
\* message is empty.
ShowsMarker(commit) ==
    /\ commit.origin \in DOMAIN svnLog
    /\ svnLog[commit.origin].blank

DetectedRevs ==
    {remote[i].origin : i \in {j \in 1..base : ShowsMarker(remote[j])}}
        \cup (IF unpushed # NoCommit /\ ShowsMarker(unpushed)
              THEN {unpushed.origin} ELSE {})

DetectedRev == MaxOf(DetectedRevs \cup {0})

LocalHead == IF unpushed = NoCommit THEN base ELSE UnknownSha

RecordedRev == MaxOf({records[i].rev : i \in DOMAIN records} \cup {0})

\* The revision a cycle fetches from: row, then kv_state, then sync_records.
StoredRev ==
    IF wmRev > 0 THEN {wmRev} ELSE IF kvRev > 0 THEN {kvRev} ELSE RecordedRev

\* The SHA a cycle fetches from, by the same chain.
SinceSha ==
    IF wmSha # 0 THEN wmSha
    ELSE IF kvSha # 0 THEN kvSha
    ELSE IF records # <<>> THEN records[Len(records)].sha
    ELSE 0

-----------------------------------------------------------------------------
(* Crash, restart and reset.                                               *)

ForgetCycle ==
    /\ pc' = "idle"
    /\ svnTodo' = {} /\ gitTodo' = {} /\ cur' = 0 /\ out' = 0 /\ wcRev' = 0

\* main() rebuilds an empty repositories row from kv_state or from git log.
RecoverRow(rowRev, rowSha, keyRev, keySha) ==
    IF rowRev # 0 THEN wmRev' = rowRev /\ wmSha' = rowSha
    ELSE IF keyRev > 0 THEN wmRev' = keyRev /\ wmSha' = keySha
    ELSE \E d \in DetectedRev :
            /\ wmRev' = d
            /\ wmSha' = IF d > 0 THEN LocalHead ELSE rowSha

\* The process dies and is started again.
Crash ==
    /\ "crash" \in FaultKinds /\ faults < MaxFaults
    /\ faults' = faults + 1
    /\ ForgetCycle
    /\ RecoverRow(wmRev, wmSha, kvRev, kvSha)
    /\ UNCHANGED <<servers, clone, kv, records, conflicts, syncState,
                   history, resets, resolves>>

\* The daemon is started on a new database but an existing clone; the
\* repository is added to it before the start or through the web API after it.
FreshDb ==
    /\ pc = "idle" /\ resets < MaxResets
    /\ resets' = resets + 1
    /\ kvRev' = 0 /\ kvSha' = 0 /\ records' = <<>> /\ conflicts' = {}
    /\ syncState' = "idle"
    /\ RecoverRow(0, 0, 0, 0) \/ (wmRev' = 0 /\ wmSha' = 0)
    /\ UNCHANGED <<servers, clone, memory, history, faults, resolves>>

-----------------------------------------------------------------------------
(* The cycle: start, fetch, detect.                                        *)

Goto(phase) == pc' = phase

\* Both change lists are replayed oldest first.
\* Variant for mutation testing: the list is not reversed.
IsOldestReversed(i, todo) == \A j \in todo : j <= i

IsOldest(i, todo) == \A j \in todo : i <= j

\* Any `?` in do_sync_cycle: the cycle ends with sync_state "error".
Abort ==
    /\ ForgetCycle
    /\ syncState' = "error"

CanFail(kind) == kind \in FaultKinds /\ faults < MaxFaults

\* An svn, git or network command fails without effect on either server.
CommandError ==
    /\ pc \in {"fetch_svn", "fetch_git", "svn_to_git", "push",
               "git_to_svn", "svn_commit"}
    /\ CanFail("command_error") /\ faults' = faults + 1
    /\ Abort
    /\ UNCHANGED <<servers, clone, row, kv, records, conflicts, history,
                   resets, resolves>>

StartCycle ==
    /\ pc = "idle"
    /\ Goto("fetch_svn")
    /\ syncState' = "detecting"
    /\ UNCHANGED <<servers, clone, row, kv, records, conflicts, svnTodo,
                   gitTodo, cur, out, wcRev, history, bounds>>

\* Variant for mutation testing: the first revision after the watermark is missed.
NewRevisionsOffByOne(last) ==
    {r \in (last + 2)..Len(svnLog) : ~IsEcho(svnLog[r])}

\* The revisions after the watermark, up to the HEAD seen by `svn info`.
NewRevisions(last) == {r \in (last + 1)..Len(svnLog) : ~IsEcho(svnLog[r])}

FetchSvn ==
    /\ pc = "fetch_svn"
    /\ \E stored \in StoredRev, d \in DetectedRev :
         LET last == IF stored = 0 THEN d ELSE stored IN
         /\ svnTodo' = NewRevisions(last)
         /\ fetched' = fetched \cup NewRevisions(last)
         /\ IF stored = 0 /\ d > 0
            THEN kvRev' = d /\ wmRev' = d /\ wmSha' = 0
            ELSE UNCHANGED <<kvRev, wmRev, wmSha>>
    /\ Goto("fetch_git")
    /\ UNCHANGED <<servers, clone, kvSha, records, conflicts, syncState,
                   gitTodo, cur, out, wcRev, skipped, bounds>>

\* Variant for mutation testing: the walk stops one commit early.
CommitsSinceOffByOne(since) ==
    LET first == IF since \in 1..Len(remote) THEN since + 2 ELSE 1 IN
    {s \in first..Len(remote) : s > Len(remote) - GitFetchCap}

\* pull() moves the local branch to the fetched head, dropping anything
\* unpushed; get_commits_since walks back from it to the watermark, or to
\* the cap when the watermark is not in the history.
CommitsSince(since) ==
    LET first == IF since \in 1..Len(remote) THEN since + 1 ELSE 1 IN
    {s \in first..Len(remote) : s > Len(remote) - GitFetchCap}

\* The branch is set to what was fetched and checked out by force: the clone's
\* own commits are no longer on it.
Pulled == base' = Len(remote) /\ unpushed' = NoCommit

FetchGit ==
    /\ pc = "fetch_git"
    /\ Pulled
    /\ gitTodo' = {s \in CommitsSince(SinceSha) : ~IsEcho(remote[s])}
    /\ Goto("detect")
    /\ UNCHANGED <<servers, db, svnTodo, cur, out, wcRev, history, bounds>>

\* Only the newest Git change of a path is compared with each SVN change of
\* it; two deletions agree.
LastGitChange(f) == MaxOf({s \in gitTodo : f \in Delta(remote, s)})

\* Variant for mutation testing: a deletion on either side is taken for agreement.
DetectedConflictsBothEdit ==
    {f \in Files : \E r \in svnTodo, s \in LastGitChange(f) :
        /\ f \in Delta(svnLog, r)
        /\ svnLog[r].tree[f] # Absent /\ remote[s].tree[f] # Absent}

DetectedConflicts ==
    {f \in Files : \E r \in svnTodo, s \in LastGitChange(f) :
        /\ f \in Delta(svnLog, r)
        /\ ~(svnLog[r].tree[f] = Absent /\ remote[s].tree[f] = Absent)}

\* The change sets carry no file contents, so try_auto_merge never succeeds
\* and every conflict is queued.  Both change lists are still applied.
DetectConflicts ==
    /\ pc = "detect"
    /\ \/ conflicts' = conflicts \cup DetectedConflicts /\ UNCHANGED faults
       \/ /\ DetectedConflicts # {} /\ CanFail("db_error")
          /\ faults' = faults + 1 /\ UNCHANGED conflicts
    /\ syncState' = "applying"
    /\ Goto("svn_to_git")
    /\ UNCHANGED <<servers, clone, row, kv, records, svnTodo, gitTodo, cur,
                   out, wcRev, history, resets, resolves>>

-----------------------------------------------------------------------------
(* SVN -> Git.                                                             *)

\* The files `git apply` cannot patch, so that they are fetched with
\* `svn cat`: a failed cat is only logged.
CatFiles(r) ==
    LET touched == Delta(svnLog, r) IN
    IF \A f \in touched : LocalTree[f] = TreeAt(svnLog, r - 1)[f] THEN {}
    ELSE {f \in touched : svnLog[r].tree[f] # Absent}

\* Apply the oldest fetched revision to the clone and commit it there.
ApplyRevision ==
    /\ pc = "svn_to_git"
    /\ \E r \in svnTodo :
         /\ IsOldest(r, svnTodo)
         /\ \E missed \in SUBSET CatFiles(r) :
              /\ missed # {} => CanFail("cat_error")
              /\ faults' = IF missed = {} THEN faults ELSE faults + 1
              /\ unpushed' =
                   [tree |-> Overlay(LocalTree, svnLog, r,
                                     Delta(svnLog, r) \ missed),
                    origin |-> r, marked |-> TRUE, blank |-> svnLog[r].blank]
         /\ cur' = r /\ svnTodo' = svnTodo \ {r}
    /\ Goto("push")
    /\ UNCHANGED <<servers, base, db, gitTodo, out, wcRev, history, resets,
                   resolves>>

\* Variant for mutation testing: the push is forced.
PushAcceptedForced ==
    remote' = Append(SubSeq(remote, 1, base), unpushed)

\* A push is fast-forward only.
PushAccepted ==
    /\ base = Len(remote)
    /\ remote' = Append(remote, unpushed)

Push ==
    /\ pc = "push"
    /\ PushAccepted
    /\ base' = Len(remote') /\ unpushed' = NoCommit
    /\ out' = Len(remote')
    /\ Goto("s2g_record")
    /\ UNCHANGED <<svnLog, db, svnTodo, gitTodo, cur, wcRev, history, bounds>>

PushRejected ==
    /\ pc = "push"
    /\ base # Len(remote)
    /\ Abort
    /\ UNCHANGED <<servers, clone, row, kv, records, conflicts, history,
                   bounds>>

\* The server took the commit, but the client saw the connection fail.
PushUnacknowledged ==
    /\ pc = "push"
    /\ CanFail("lost_ack") /\ faults' = faults + 1
    /\ PushAccepted
    /\ Abort
    /\ UNCHANGED <<svnLog, clone, row, kv, records, conflicts, history,
                   resets, resolves>>

\* insert_sync_record is the only write of the bookkeeping whose failure
\* ends the cycle; the watermark writes after it are `let _ =`.
WriteRecord(from, to, dir, rev, sha) ==
    /\ pc = from
    /\ \/ /\ records' = Append(records, [dir |-> dir, rev |-> rev, sha |-> sha])
          /\ Goto(to)
          /\ UNCHANGED <<syncState, svnTodo, gitTodo, cur, out, wcRev, faults>>
       \/ /\ CanFail("db_error") /\ faults' = faults + 1
          /\ Abort /\ UNCHANGED records
    /\ UNCHANGED <<servers, clone, row, kv, conflicts, history, resets,
                   resolves>>

WriteIgnoringErrors(write, ignored) ==
    \/ write /\ UNCHANGED faults
    \/ CanFail("db_error") /\ faults' = faults + 1 /\ UNCHANGED ignored

RecordRevision ==
    WriteRecord("s2g_record", "s2g_kv", "svn_to_git", cur, out)

SaveRevisionKey ==
    /\ pc = "s2g_kv"
    /\ WriteIgnoringErrors(kvRev' = cur, kvRev)
    /\ Goto("s2g_row")
    /\ UNCHANGED <<servers, clone, row, kvSha, records, conflicts, syncState,
                   svnTodo, gitTodo, cur, out, wcRev, history, resets, resolves>>

\* Variant for mutation testing: the row keeps the old revision.
SaveRevisionRowStale ==
    /\ pc = "s2g_row"
    /\ WriteIgnoringErrors(wmRev' = wmRev /\ wmSha' = out, row)
    /\ Goto("svn_to_git") /\ cur' = 0 /\ out' = 0
    /\ UNCHANGED <<servers, clone, kv, records, conflicts, syncState, svnTodo,
                   gitTodo, wcRev, history, resets, resolves>>

SaveRevisionRow ==
    /\ pc = "s2g_row"
    /\ WriteIgnoringErrors(wmRev' = cur /\ wmSha' = out, row)
    /\ Goto("svn_to_git") /\ cur' = 0 /\ out' = 0
    /\ UNCHANGED <<servers, clone, kv, records, conflicts, syncState, svnTodo,
                   gitTodo, wcRev, history, resets, resolves>>

RevisionsApplied ==
    /\ pc = "svn_to_git" /\ svnTodo = {}
    /\ Goto("git_to_svn")
    /\ UNCHANGED <<servers, clone, db, svnTodo, gitTodo, cur, out, wcRev,
                   history, bounds>>

-----------------------------------------------------------------------------
(* Git -> SVN.                                                             *)

\* The files of commit s whose contents differ from SVN revision rev: what
\* `svn status` reports once they are copied into a working copy at rev.
PendingFiles(s, rev) ==
    {f \in Delta(remote, s) : remote[s].tree[f] # TreeAt(svnLog, rev)[f]}

\* Bring the working copy to HEAD, copy the oldest fetched commit's files
\* into it and look whether anything changed.
PrepareWorkingCopy ==
    /\ pc = "git_to_svn"
    /\ \E s \in gitTodo :
         /\ IsOldest(s, gitTodo)
         /\ cur' = s /\ gitTodo' = gitTodo \ {s}
         /\ IF PendingFiles(s, Len(svnLog)) = {}
            THEN Goto("skip_kv") /\ skipped' = skipped \cup {s}
            ELSE Goto("svn_commit") /\ UNCHANGED skipped
    /\ wcRev' = Len(svnLog)
    /\ UNCHANGED <<servers, clone, db, svnTodo, out, fetched, bounds>>

\* Nothing to commit: move the Git watermark only.
SkipKey ==
    /\ pc = "skip_kv"
    /\ WriteIgnoringErrors(kvSha' = cur, kvSha)
    /\ Goto("skip_row")
    /\ UNCHANGED <<servers, clone, row, kvRev, records, conflicts, syncState,
                   svnTodo, gitTodo, cur, out, wcRev, history, resets, resolves>>

\* Variant for mutation testing: the watermark stays when there is nothing to commit.
SkipRowStale ==
    /\ pc = "skip_row"
    /\ WriteIgnoringErrors(UNCHANGED row, row)
    /\ Goto("git_to_svn") /\ cur' = 0 /\ wcRev' = 0
    /\ UNCHANGED <<servers, clone, kv, records, conflicts, syncState, svnTodo,
                   gitTodo, out, history, resets, resolves>>

SkipRow ==
    /\ pc = "skip_row"
    /\ WriteIgnoringErrors(wmRev' = wmRev /\ wmSha' = cur, row)
    /\ Goto("git_to_svn") /\ cur' = 0 /\ wcRev' = 0
    /\ UNCHANGED <<servers, clone, kv, records, conflicts, syncState, svnTodo,
                   gitTodo, out, history, resets, resolves>>

\* SVN refuses a commit of a file that changed after the working copy's
\* revision, and merges in the other files of HEAD.
OutOfDate ==
    \E f \in PendingFiles(cur, wcRev), r \in (wcRev + 1)..Len(svnLog) :
        f \in Delta(svnLog, r)

SvnCommitAccepted ==
    /\ ~OutOfDate
    /\ svnLog' = Append(svnLog,
         [tree |-> Overlay(TreeAt(svnLog, Len(svnLog)), remote, cur,
                           PendingFiles(cur, wcRev)),
          origin |-> cur, marked |-> TRUE, blank |-> FALSE])

CommitToSvn ==
    /\ pc = "svn_commit"
    /\ SvnCommitAccepted
    /\ out' = Len(svnLog')
    /\ Goto("g2s_record")
    /\ UNCHANGED <<remote, clone, db, svnTodo, gitTodo, cur, wcRev, history,
                   bounds>>

SvnCommitRefused ==
    /\ pc = "svn_commit"
    /\ OutOfDate
    /\ Abort
    /\ UNCHANGED <<servers, clone, row, kv, records, conflicts, history,
                   bounds>>

SvnCommitUnacknowledged ==
    /\ pc = "svn_commit"
    /\ CanFail("lost_ack") /\ faults' = faults + 1
    /\ SvnCommitAccepted
    /\ Abort
    /\ UNCHANGED <<remote, clone, row, kv, records, conflicts, history,
                   resets, resolves>>

\* Variant for mutation testing: the two positions are swapped.
RecordCommitSwapped ==
    WriteRecord("g2s_record", "g2s_kv", "git_to_svn", cur, out)

RecordCommit ==
    WriteRecord("g2s_record", "g2s_kv", "git_to_svn", out, cur)

SaveCommitKey ==
    /\ pc = "g2s_kv"
    /\ WriteIgnoringErrors(kvSha' = cur, kvSha)
    /\ Goto("g2s_row")
    /\ UNCHANGED <<servers, clone, row, kvRev, records, conflicts, syncState,
                   svnTodo, gitTodo, cur, out, wcRev, history, resets, resolves>>

\* The row gets the engine's own new revision as the SVN watermark.
SaveCommitRow ==
    /\ pc = "g2s_row"
    /\ WriteIgnoringErrors(wmRev' = out /\ wmSha' = cur, row)
    /\ Goto("git_to_svn") /\ cur' = 0 /\ out' = 0 /\ wcRev' = 0
    /\ UNCHANGED <<servers, clone, kv, records, conflicts, syncState, svnTodo,
                   gitTodo, history, resets, resolves>>

FinishCycle ==
    /\ pc = "git_to_svn" /\ gitTodo = {}
    /\ ForgetCycle
    /\ syncState' = "idle"
    /\ UNCHANGED <<servers, clone, row, kv, records, conflicts, history,
                   bounds>>

-----------------------------------------------------------------------------
Users == UserSvnCommit \/ UserGitPush \/ ResolveConflict

Environment == Crash \/ FreshDb \/ CommandError
                 \/ PushUnacknowledged \/ SvnCommitUnacknowledged

SvnToGit == \/ ApplyRevision \/ Push \/ PushRejected \/ RecordRevision
            \/ SaveRevisionKey \/ SaveRevisionRow \/ RevisionsApplied

GitToSvn == \/ PrepareWorkingCopy \/ SkipKey \/ SkipRow \/ CommitToSvn
            \/ SvnCommitRefused \/ RecordCommit \/ SaveCommitKey
            \/ SaveCommitRow \/ FinishCycle

Engine == \/ StartCycle \/ FetchSvn \/ FetchGit \/ DetectConflicts
          \/ SvnToGit \/ GitToSvn

Next == Users \/ Environment \/ Engine

Spec == Init /\ [][Next]_vars

\* The scheduler's interval timer starts a cycle again and again, and a
\* running cycle waits for nothing but commands with a timeout.
FairSpec == Spec /\ WF_vars(Engine)

-----------------------------------------------------------------------------
(* Properties.                                                             *)

\* Every variable has the type the code gives it, and every position stored
\* or remembered names a commit that exists.
Sha == {UnknownSha} \cup 0..Len(remote)
TypeOK ==
    /\ svnLog \in Seq(Commit) /\ remote \in Seq(Commit)
    /\ base \in 0..Len(remote) /\ unpushed \in Commit \cup {NoCommit}
    /\ wmRev \in 0..Len(svnLog) /\ wmSha \in Sha
    /\ kvRev \in 0..Len(svnLog) /\ kvSha \in Sha
    /\ records \in Seq(Record)
    /\ conflicts \subseteq Files
    /\ syncState \in SyncStates
    /\ pc \in Phases
    /\ svnTodo \subseteq 1..Len(svnLog) /\ gitTodo \subseteq 1..Len(remote)
    /\ cur \in Nat /\ out \in Nat /\ wcRev \in 0..Len(svnLog)
    /\ skipped \subseteq 1..Len(remote) /\ fetched \subseteq 1..Len(svnLog)
    /\ faults \in Nat /\ resets \in Nat /\ resolves \in Nat

Copies(log, i) == {j \in DOMAIN log : log[j].origin = i}

\* No ping-pong: what the engine copies was written by a user on the other
\* side, never by the engine itself, whatever crashes and failures there are.
NoPingPong ==
    /\ \A s \in DOMAIN remote : remote[s].origin # 0 =>
         svnLog[remote[s].origin].origin = 0
    /\ \A r \in DOMAIN svnLog : svnLog[r].origin # 0 =>
         remote[svnLog[r].origin].origin = 0

\* A sync record is only written after both commits it names exist, one as
\* the copy of the other.
RecordsTruthful ==
    \A i \in DOMAIN records :
        LET rec == records[i] IN
        /\ rec.rev \in DOMAIN svnLog /\ rec.sha \in DOMAIN remote
        /\ IF rec.dir = "svn_to_git" THEN remote[rec.sha].origin = rec.rev
                                     ELSE svnLog[rec.rev].origin = rec.sha

\* A commit is copied again only if a fault came between the copy and the
\* watermark, or the database was lost: otherwise exactly once.
CopiedOncePerFault ==
    /\ \A r \in DOMAIN svnLog :
         Cardinality(Copies(remote, r)) <= 1 + faults + resets
    /\ \A s \in DOMAIN remote :
         Cardinality(Copies(svnLog, s)) <= 1 + faults + resets

\* The SVN watermark between cycles: every user revision at or below it has
\* a copy in Git.
NoSvnRevisionLost ==
    pc = "idle" => \A r \in UserCommits(svnLog) : \A stored \in StoredRev :
        r <= stored => Copies(remote, r) # {}

\* The Git watermark between cycles: every user commit up to it has a copy
\* in SVN, or changed nothing there.
NoGitCommitLost ==
    pc = "idle" => \A s \in UserCommits(remote) :
        s <= SinceSha => Copies(svnLog, s) # {} \/ s \in skipped

\* No SVN log message is empty.
MessagesShown == \A r \in DOMAIN svnLog : ~svnLog[r].blank

\* A revision that some cycle fetched is never passed over, even if that
\* cycle died, failed or was overtaken by users.  (An empty log message makes
\* the marker of a commit not pushed yet look like a watermark to a new
\* database.)
FetchedRevisionsReachGit ==
    pc = "idle" /\ MessagesShown =>
        \A r \in fetched : \A stored \in StoredRev :
            r <= stored => Copies(remote, r) # {}

NothingToSync ==
    /\ pc = "idle" /\ syncState = "idle"
    /\ \A stored \in StoredRev : NewRevisions(stored) = {}
    /\ {s \in CommitsSince(SinceSha) : ~IsEcho(remote[s])} = {}

\* When a cycle ends with nothing left to fetch, both repositories hold the
\* same files, except those waiting in the conflict queue (which a new
\* database forgets).
ConvergedOrQueued ==
    NothingToSync /\ resets = 0 =>
        \A f \in Files \ conflicts :
            TreeAt(svnLog, Len(svnLog))[f] = TreeAt(remote, Len(remote))[f]

Origins(log) == [i \in DOMAIN log |-> log[i].origin]

Promise == INSTANCE Replication WITH svn <- Origins(svnLog), git <- Origins(remote)

\* Whatever fails, the two histories only grow, by users' commits and by
\* copies of users' commits: nothing published is rewritten or copied back.
ImplementsReplication == Promise!Spec

\* As long as the bookkeeping writes succeed, crashes and lost connections
\* never reorder the copies: a commit may at most be copied twice in a row.
ImplementsOrderedReplication == Promise!OrderedSpec

\* Once users stop, the engine runs out of work and stays out of work.
EventuallyNothingToSync == <>[](pc = "idle" => NothingToSync)
=============================================================================
