---------------------------- MODULE PersonalFiles ----------------------------
(***************************************************************************)
(* The files of personal branch mode: what the import and the mirror copy  *)
(* from SVN exports into the clone (SvnToGitSync, InitialImport), and what *)
(* the replay of merged pull requests writes into the SVN working copy     *)
(* (GitToSvnSync), under the file policy and with Git LFS.                 *)
(*                                                                         *)
(* A tree maps paths to files.  The order of cycles and rows, and what     *)
(* becomes of them after faults, is PersonalSync's; here a step is one     *)
(* pass over a tree or one file of a replayed commit.                      *)
(***************************************************************************)
EXTENDS Naturals, Sequences, FiniteSets

CONSTANTS
    Paths,
    DotPaths,           \* names in the root that start with a dot
    Ignored,            \* paths that match an ignore pattern
    LfsPaths,           \* paths that match an LFS pattern
    Blobs, Size,        \* contents and their sizes; a pointer's is 0
    MaxSize, LfsThreshold,      \* 0: no limit, no threshold
    UserEdits,          \* the <<path, file>> that SVN users set
    PrEdits,            \* the sets of them that pull requests set
    Initial,            \* the tree of revision 1
    MaxUserRevisions, MaxPrs, MaxFaults, MaxRepairs

\* A file is a content, or the LFS pointer to one.
Plain(b)   == [blob |-> b, pointer |-> FALSE]
Pointer(b) == [blob |-> b, pointer |-> TRUE]
Missing    == [blob |-> "none", pointer |-> FALSE]

Files == [blob : Blobs, pointer : BOOLEAN]
Trees == [Paths -> Files \cup {Missing}]
Empty == [p \in Paths |-> Missing]

ASSUME PersonalFilesAssumption ==
    /\ DotPaths \subseteq Paths /\ Ignored \subseteq Paths /\ LfsPaths \subseteq Paths
    /\ "none" \notin Blobs /\ Size \in [Blobs -> Nat]
    /\ MaxSize \in Nat /\ LfsThreshold \in Nat
    /\ UserEdits \subseteq Paths \X (Files \cup {Missing})
    /\ \A edits \in PrEdits : edits \subseteq Paths \X (Files \cup {Missing})
    /\ Initial \in Trees
    /\ MaxUserRevisions \in Nat /\ MaxPrs \in Nat /\ MaxFaults \in Nat
    /\ MaxRepairs \in Nat

VARIABLES
    svn,        \* revisions: a tree, and the pull request replayed (0: a user)
    branch,     \* the GitHub branch: commits, oldest first
    prs,        \* merged pull requests: the files they set
    \* The clone.
    cloned, base, ahead,    \* its commits: of the branch, and its own
    work, attrs,            \* its working tree; paths .gitattributes tracks
    held,                   \* pull requests whose commits it holds
    \* The SVN working copy.
    wcRev, disk, scheduled, conflicted,
    \* SQLite: the watermark, the revisions in commit_map, pr_sync_log.
    wm, synced, prLog,
    \* The command or cycle that runs.
    pc, rev, upto, pr, todo,
    \* Bounds and history: revisions the import could not export.
    faults, repairs, unexported

servers == <<svn, branch, prs>>
clone   == <<cloned, base, ahead, work, attrs, held>>
wc      == <<wcRev, disk, scheduled, conflicted>>
db      == <<wm, synced, prLog>>
cycle   == <<rev, upto>>
replay  == <<pr, todo>>
rest    == <<faults, repairs, unexported>>
vars    == <<svn, branch, prs, cloned, base, ahead, work, attrs, held, wcRev,
             disk, scheduled, conflicted, wm, synced, prLog, pc, rev, upto,
             pr, todo, faults, repairs, unexported>>

Youngest == svn[Len(svn)].tree
Tree(r) == IF r = 0 THEN Empty ELSE svn[r].tree

-----------------------------------------------------------------------------
(* FilePolicy.                                                             *)

SizeOf(file) == IF file.pointer THEN 0 ELSE Size[file.blob]

Policy(path, file) ==
    IF path \in Ignored THEN "ignored"
    ELSE IF MaxSize > 0 /\ SizeOf(file) > MaxSize THEN "oversize"
    ELSE IF path \in LfsPaths \/ (LfsThreshold > 0 /\ SizeOf(file) > LfsThreshold)
         THEN "lfs"
    ELSE "allow"

Blocked(path, file) == Policy(path, file) \in {"ignored", "oversize"}

Faulty == faults < MaxFaults /\ faults' = faults + 1

-----------------------------------------------------------------------------
(* Users.  A pull request builds on the branch as it is when it is merged. *)
(* Its author's git stores a path that .gitattributes tracks as an LFS     *)
(* pointer.                                                                *)

UserSvnCommit(path, file) ==
    /\ Cardinality({r \in DOMAIN svn : svn[r].of = 0}) < MaxUserRevisions
    /\ Youngest[path] # file
    /\ svn' = Append(svn, [tree |-> [Youngest EXCEPT ![path] = file], of |-> 0])
    /\ UNCHANGED <<branch, prs, clone, wc, db, pc, cycle, replay, rest>>

Cleaned(path, file) ==
    IF file # Missing /\ path \in branch[Len(branch)].attrs
    THEN Pointer(file.blob) ELSE file

MergePullRequest(edits) ==
    /\ branch # <<>> /\ Len(prs) < MaxPrs
    /\ LET last    == branch[Len(branch)]
           changes == {<<e[1], Cleaned(e[1], e[2])>> : e \in edits}
           changed == {e[1] : e \in edits}
           Set(p)  == IF p \in changed THEN (CHOOSE e \in changes : e[1] = p)[2]
                                       ELSE last.tree[p] IN
       /\ \A p \in changed : Set(p) # last.tree[p]
       /\ prs' = Append(prs, [p \in changed |-> Set(p)])
       /\ branch' = Append(branch,
              [kind |-> "merge", n |-> Len(prs) + 1, attrs |-> last.attrs,
               tree |-> [p \in Paths |-> Set(p)]])
    /\ UNCHANGED <<svn, clone, wc, db, pc, cycle, replay, rest>>

-----------------------------------------------------------------------------
(* The clone.                                                              *)

\* build_engine and cmd_import clone the branch when there is no clone;
\* without a branch the import starts an empty repository.
OpenClone ==
    /\ pc = "idle" /\ ~cloned
    /\ cloned' = TRUE /\ base' = Len(branch) /\ ahead' = <<>>
    /\ work' = IF branch = <<>> THEN Empty ELSE branch[Len(branch)].tree
    /\ attrs' = IF branch = <<>> THEN {} ELSE branch[Len(branch)].attrs
    /\ held' = DOMAIN prs
    /\ UNCHANGED <<servers, wc, db, pc, cycle, replay, rest>>

\* The operator stops the daemon and deletes the clone.
RemoveClone ==
    /\ pc = "idle" /\ cloned /\ repairs < MaxRepairs
    /\ cloned' = FALSE /\ repairs' = repairs + 1
    /\ base' = 0 /\ ahead' = <<>> /\ work' = Empty /\ attrs' = {} /\ held' = {}
    /\ UNCHANGED <<servers, wc, db, pc, cycle, replay, faults, unexported>>

Diverged == base < Len(branch)

\* GitClient::commit: libgit2 stages the tree as it is, no LFS filter runs.
\* A clone that has diverged commits a revision again in every cycle; they are
\* never pushed, and one of them is kept here.
Commit(kind, r) ==
    LET again == {i \in DOMAIN ahead : Diverged /\ ahead[i].kind = kind /\ ahead[i].n = r}
        c     == [kind |-> kind, n |-> r, tree |-> work, attrs |-> attrs] IN
    ahead' = IF again = {} THEN Append(ahead, c)
             ELSE [i \in DOMAIN ahead |-> IF i \in again THEN c ELSE ahead[i]]

\* git push, a fast-forward or nothing.
Push ==
    /\ ~Diverged
    /\ branch' = branch \o ahead
    /\ base' = Len(branch') /\ ahead' = <<>>
    /\ UNCHANGED <<svn, prs, cloned, work, attrs, held>>

\* copy_tree_with_policy: what the export has, but for dotfiles in the root,
\* is written over the clone's files unless the policy blocks it.
Copyable(r) ==
    {p \in Paths \ DotPaths : Tree(r)[p] # Missing /\ ~Blocked(p, Tree(r)[p])}

CopyTreeWithPolicy(r) ==
    /\ work' = [p \in Paths |-> IF p \in Copyable(r) THEN Tree(r)[p] ELSE work[p]]
    /\ attrs' = attrs \cup {p \in Copyable(r) : Policy(p, Tree(r)[p]) = "lfs"}

RemoveNothing(r) == work' = work   \* variant: no stale file is removed

RemoveStaleFiles(r) ==
    work' = [p \in Paths |-> IF p \notin DotPaths /\ Tree(r)[p] = Missing
                             THEN Missing ELSE work[p]]

-----------------------------------------------------------------------------
(* InitialImport, run by hand while the daemon is down.  A failing LFS      *)
(* preflight, or a repository that is missing and may not be created, ends  *)
(* it before it has changed anything.                                       *)

BeginImport(mode) ==
    /\ pc = "idle" /\ cloned
    /\ IF wm = 0 THEN UNCHANGED repairs
                 ELSE repairs < MaxRepairs /\ repairs' = repairs + 1
    /\ upto' = Len(svn) /\ unexported' = {}
    /\ rev' = IF mode = "snapshot" THEN Len(svn) ELSE 1
    /\ pc' = mode
    /\ UNCHANGED <<servers, clone, wc, db, replay, faults>>

\* Export and copy.  Neither import removes stale files.
SnapshotCopy ==
    /\ pc = "snapshot"
    /\ CopyTreeWithPolicy(rev) /\ pc' = "snapshot commit"
    /\ UNCHANGED <<servers, cloned, base, ahead, held, wc, db, cycle, replay, rest>>

FullCopy ==
    /\ pc = "full" /\ rev <= upto
    /\ CopyTreeWithPolicy(rev) /\ pc' = "full commit"
    /\ UNCHANGED <<servers, cloned, base, ahead, held, wc, db, cycle, replay, rest>>

\* import_full goes on when it cannot export a revision.
FullSkip ==
    /\ pc = "full" /\ rev <= upto
    /\ Faulty
    /\ unexported' = unexported \cup {rev} /\ rev' = rev + 1
    /\ UNCHANGED <<servers, clone, wc, db, pc, upto, replay, repairs>>

SnapshotCommit ==
    /\ pc = "snapshot commit"
    /\ Commit("import", rev) /\ pc' = "snapshot push"
    /\ UNCHANGED <<servers, cloned, base, work, attrs, held, wc, db, cycle,
                   replay, rest>>

SnapshotPush ==
    /\ pc = "snapshot push"
    /\ Push /\ pc' = "snapshot record"
    /\ UNCHANGED <<wc, db, cycle, replay, rest>>

SnapshotRecord ==
    /\ pc = "snapshot record"
    /\ synced' = synced \cup {rev} /\ wm' = rev
    /\ pc' = "idle"
    /\ UNCHANGED <<servers, clone, wc, prLog, cycle, replay, rest>>

\* The row of a revision is written before the push, which comes at the end.
FullCommit ==
    /\ pc = "full commit"
    /\ Commit("import", rev) /\ synced' = synced \cup {rev}
    /\ pc' = "full" /\ rev' = rev + 1
    /\ UNCHANGED <<servers, cloned, base, work, attrs, held, wc, wm, prLog,
                   upto, replay, rest>>

FullPush ==
    /\ pc = "full" /\ rev > upto
    /\ IF 1..upto \subseteq unexported THEN UNCHANGED <<servers, clone>> ELSE Push
    /\ pc' = "full record"
    /\ UNCHANGED <<wc, db, cycle, replay, rest>>

\* The watermark is the last revision of the log, exported or not.
FullRecord ==
    /\ pc = "full record"
    /\ wm' = upto /\ pc' = "idle"
    /\ UNCHANGED <<servers, clone, wc, synced, prLog, cycle, replay, rest>>

-----------------------------------------------------------------------------
(* SvnToGitSync::sync.                                                     *)

StartCycle ==
    /\ pc = "idle" /\ cloned
    /\ pc' = IF wm < Len(svn) THEN "mirror" ELSE "prs"
    /\ rev' = wm + 1 /\ upto' = Len(svn)
    /\ UNCHANGED <<servers, clone, wc, db, replay, rest>>

SkipRevision ==
    /\ pc = "mirror" /\ rev <= upto
    /\ svn[rev].of # 0 \/ rev \in synced
    /\ wm' = rev /\ rev' = rev + 1
    /\ UNCHANGED <<servers, clone, wc, synced, prLog, pc, upto, replay, rest>>

MirrorCopy ==
    /\ pc = "mirror" /\ rev <= upto
    /\ svn[rev].of = 0 /\ rev \notin synced
    /\ CopyTreeWithPolicy(rev) /\ pc' = "stale"
    /\ UNCHANGED <<servers, cloned, base, ahead, held, wc, db, cycle, replay, rest>>

MirrorRemoveStale ==
    /\ pc = "stale"
    /\ RemoveStaleFiles(rev) /\ pc' = "commit"
    /\ UNCHANGED <<servers, cloned, base, ahead, attrs, held, wc, db, cycle,
                   replay, rest>>

MirrorCommit ==
    /\ pc = "commit"
    /\ Commit("mirror", rev) /\ pc' = "push"
    /\ UNCHANGED <<servers, cloned, base, work, attrs, held, wc, db, cycle,
                   replay, rest>>

MirrorPush ==
    /\ pc = "push"
    /\ Push /\ pc' = "record"
    /\ UNCHANGED <<wc, db, cycle, replay, rest>>

MirrorRecord ==
    /\ pc = "record"
    /\ synced' = synced \cup {rev} /\ wm' = rev /\ rev' = rev + 1
    /\ pc' = "mirror"
    /\ UNCHANGED <<servers, clone, wc, prLog, upto, replay, rest>>

MirrorDone ==
    /\ pc = "mirror" /\ rev > upto
    /\ pc' = "prs"
    /\ UNCHANGED <<servers, clone, wc, db, cycle, replay, rest>>

\* A push into a branch that has moved ends the import, or the first phase.
PushRejected ==
    /\ \/ pc \in {"push", "snapshot push"}
       \/ pc = "full" /\ rev > upto /\ ~ 1..upto \subseteq unexported
    /\ Diverged
    /\ pc' = IF pc = "push" THEN "prs" ELSE "idle"
    /\ UNCHANGED <<servers, clone, wc, db, cycle, replay, rest>>

-----------------------------------------------------------------------------
(* GitToSvnSync::sync.  The requests here have one commit each.            *)

\* The files the commit of a pull request changes, and what it makes of one.
ChangedFiles(p) == DOMAIN prs[p]
ContentAt(p, path) == prs[p][path]

\* git lfs smudge, and content that is no pointer.
Resolved(file) == Plain(file.blob)

\* The oldest request without a row.  Every row counts as synced.
TakePr ==
    /\ pc = "prs"
    /\ IF DOMAIN prs \subseteq prLog
       THEN pc' = "idle" /\ UNCHANGED <<prLog, pr>>
       ELSE LET next == CHOOSE p \in DOMAIN prs \ prLog :
                            \A q \in DOMAIN prs \ prLog : p <= q IN
            /\ prLog' = prLog \cup {next} /\ pr' = next
            /\ pc' = "update"
    /\ UNCHANGED <<servers, clone, wc, wm, synced, cycle, todo, rest>>

Base(p) == Tree(wcRev)[p]

\* The file has not been touched since the last update, or it is gone.
Pristine(p) == p \notin scheduled /\ disk[p] \in {Base(p), Missing}

\* svn update (or the first checkout): incoming files replace untouched ones
\* and clash with local changes, unless both sides made the same one.
Clash(p) ==
    /\ Youngest[p] # Base(p) /\ ~Pristine(p)
    /\ p \in scheduled \/ Base(p) = Missing \/ disk[p] # Youngest[p]

Update ==
    /\ pc = "update"
    /\ disk' = [p \in Paths |-> IF Pristine(p) THEN Youngest[p] ELSE disk[p]]
    /\ conflicted' = conflicted \cup {p \in Paths : Clash(p)}
    /\ wcRev' = Len(svn)
    /\ todo' = ChangedFiles(pr) /\ pc' = "apply"
    /\ UNCHANGED <<servers, clone, scheduled, db, cycle, pr, rest>>

WriteWholeTree(p) ==   \* variant: the tree of the commit, not what it changes
    LET c == CHOOSE i \in DOMAIN branch : branch[i].kind = "merge" /\ branch[i].n = pr IN
    /\ disk' = branch[c].tree /\ todo' = {}

\* The outcome for one changed file: removed, blocked by the policy, which
\* sees the size of a pointer and not of the file, or written.
Write(p) ==
    LET file == ContentAt(pr, p) IN
    /\ disk' = IF file = Missing THEN [disk EXCEPT ![p] = Missing]
               ELSE IF Blocked(p, file) THEN disk
               ELSE [disk EXCEPT ![p] = Resolved(file)]
    /\ todo' = todo \ {p}

\* get_changed_files: the clone has no such commit.
CommitNotFound ==
    /\ pc = "apply" /\ pr \notin held
    /\ pc' = "prs" /\ todo' = {}
    /\ UNCHANGED <<servers, clone, wc, db, cycle, pr, rest>>

ApplyFile(p) ==
    /\ pc = "apply" /\ pr \in held /\ p \in todo
    /\ Write(p)
    /\ UNCHANGED <<servers, clone, wcRev, scheduled, conflicted, db, pc, cycle,
                   pr, rest>>

\* git lfs smudge fails: the file is skipped.
SkipPointer(p) ==
    /\ pc = "apply" /\ pr \in held /\ p \in todo
    /\ ContentAt(pr, p).pointer /\ ~Blocked(p, ContentAt(pr, p))
    /\ disk' = disk /\ todo' = todo \ {p} /\ Faulty
    /\ UNCHANGED <<servers, clone, wcRev, scheduled, conflicted, db, pc, cycle,
                   pr, repairs, unexported>>

\* parse_svn_status: what is not versioned, and what is missing.
ToAdd    == {p \in Paths : Base(p) = Missing /\ disk[p] # Missing}
ToDelete == {p \in Paths : Base(p) # Missing /\ disk[p] = Missing}

\* svn status, then svn add and svn rm.  Removing what was only added leaves
\* nothing scheduled.
Stage ==
    /\ pc = "apply" /\ pr \in held /\ todo = {}
    /\ scheduled' =
         {p \in scheduled : Base(p) # Missing \/ disk[p] # Missing}
           \cup ToAdd \cup ToDelete
    /\ pc' = "send"
    /\ UNCHANGED <<servers, clone, wcRev, disk, conflicted, db, cycle, replay, rest>>

\* What svn commit sends: a file scheduled for deletion goes, even if it has
\* been written again.
Sent(p) == IF p \in scheduled /\ Base(p) # Missing THEN Missing ELSE disk[p]
Local   == {p \in Paths : Sent(p) # Base(p)}

OutOfDate(p) ==
    \E r \in wcRev + 1 .. Len(svn) : svn[r].tree[p] # Tree(r - 1)[p]

CommitToSvn ==
    /\ pc = "send"
    /\ Local # {} /\ conflicted = {} /\ \A p \in Local : ~OutOfDate(p)
    /\ LET tree == [p \in Paths |-> IF p \in Local THEN Sent(p) ELSE Youngest[p]] IN
       /\ svn' = Append(svn, [tree |-> tree, of |-> pr])
       /\ disk' = [p \in Paths |-> IF p \in Local THEN disk[p] ELSE tree[p]]
    /\ wcRev' = Len(svn') /\ scheduled' = {}
    /\ pc' = "prs"
    /\ UNCHANGED <<branch, prs, clone, conflicted, db, cycle, replay, rest>>

\* Nothing to send prints no revision number.
CommitRefused ==
    /\ pc = "send"
    /\ Local = {} \/ conflicted # {} \/ \E p \in Local : OutOfDate(p)
    /\ pc' = "prs"
    /\ UNCHANGED <<servers, clone, wc, db, cycle, replay, rest>>

-----------------------------------------------------------------------------
(* A command fails, which ends the import, the first phase or the request  *)
(* in hand, or the process dies.                                           *)

StepFails ==
    /\ pc # "idle" /\ Faulty
    /\ \/ pc' = "idle"
       \/ /\ pc \in {"mirror", "stale", "commit", "push", "record", "update",
                     "apply", "send"}
          /\ pc' = "prs"
    /\ todo' = {}
    /\ UNCHANGED <<servers, clone, wc, db, cycle, pr, repairs, unexported>>

-----------------------------------------------------------------------------
Init ==
    /\ svn = <<[tree |-> Initial, of |-> 0]>> /\ branch = <<>> /\ prs = <<>>
    /\ cloned = FALSE /\ base = 0 /\ ahead = <<>> /\ work = Empty
    /\ attrs = {} /\ held = {}
    /\ wcRev = 0 /\ disk = Empty /\ scheduled = {} /\ conflicted = {}
    /\ wm = 0 /\ synced = {} /\ prLog = {}
    /\ pc = "idle" /\ rev = 0 /\ upto = 0 /\ pr = 0 /\ todo = {}
    /\ faults = 0 /\ repairs = 0 /\ unexported = {}

Users ==
    \/ \E e \in UserEdits : UserSvnCommit(e[1], e[2])
    \/ \E edits \in PrEdits : MergePullRequest(edits)

Import ==
    \/ \E mode \in {"snapshot", "full"} : BeginImport(mode)
    \/ SnapshotCopy \/ SnapshotCommit \/ SnapshotPush \/ SnapshotRecord
    \/ FullCopy \/ FullSkip \/ FullCommit \/ FullPush \/ FullRecord

Mirror ==
    \/ StartCycle \/ SkipRevision \/ MirrorCopy \/ MirrorRemoveStale
    \/ MirrorCommit \/ MirrorPush \/ MirrorRecord \/ MirrorDone \/ PushRejected

Replay ==
    \/ TakePr \/ Update \/ CommitNotFound \/ Stage \/ CommitToSvn \/ CommitRefused
    \/ \E p \in Paths : ApplyFile(p) \/ SkipPointer(p)

Next == Users \/ OpenClone \/ RemoveClone \/ Import \/ Mirror \/ Replay \/ StepFails

Spec == Init /\ [][Next]_vars

-----------------------------------------------------------------------------
(* Properties.                                                             *)

Copies == {i \in DOMAIN branch : branch[i].kind \in {"mirror", "import"}}

\* A mirrored commit is its revision, whatever was in the clone before (the
\* leftovers of an import, of a cycle that failed, of a pull request): every
\* file the policy lets through, none that the revision does not have, and
\* .gitattributes for the files LFS should track.
MirrorsAreExact ==
    \A i \in Copies : \A p \in Paths \ DotPaths :
        LET file == svn[branch[i].n].tree[p] IN
        /\ p \in Copyable(branch[i].n) =>
             /\ branch[i].tree[p] = file
             /\ Policy(p, file) = "lfs" => p \in branch[i].attrs
        /\ file = Missing /\ branch[i].kind = "mirror" => branch[i].tree[p] = Missing

Forbidden(path, file) ==
    path \in DotPaths \cup Ignored \/ (MaxSize > 0 /\ SizeOf(file) > MaxSize)

\* No ignored or oversize file, and no dotfile of the root, gets from SVN to
\* GitHub, by import or by mirror: where a copy has one, a pull request put
\* it there.
OnlyAllowedFilesReachGit ==
    \A i \in Copies : \A p \in Paths :
        LET file == branch[i].tree[p] IN
        file # Missing /\ Forbidden(p, file) =>
          \E q \in DOMAIN prs : p \in DOMAIN prs[q] /\ prs[q][p] = file

\* From SVN to Git: mirrored commits are exact, and only allowed files come.
CopiesAreFaithful == MirrorsAreExact /\ OnlyAllowedFilesReachGit

\* The text of an LFS pointer never gets into SVN, also when smudging fails.
NoPointerInSvn ==
    \A r \in DOMAIN svn : \A p \in Paths : ~svn[r].tree[p].pointer

\* A replay changes no file but those of pull requests taken up so far: what
\* else SVN users did since the branch was mirrored stays as it is.
ReplayWritesOnlyItsFiles ==
    \A r \in DOMAIN svn : svn[r].of # 0 =>
        \A p \in Paths : svn[r].tree[p] # svn[r - 1].tree[p] =>
            \E q \in 1..svn[r].of :
                /\ p \in DOMAIN prs[q]
                /\ svn[r].tree[p] \in {Missing, Plain(prs[q][p].blob)}

\* From Git to SVN: a replay writes files and no pointers, and only the files
\* that pull requests set.
ReplaysAreFaithful == NoPointerInSvn /\ ReplayWritesOnlyItsFiles
=============================================================================
