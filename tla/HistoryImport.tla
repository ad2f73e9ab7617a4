---------------------------- MODULE HistoryImport ----------------------------
(***************************************************************************)
(* The full history import: every SVN revision replayed as a Git commit in *)
(* the local clone, pushed in batches, with the file policy, LFS and the   *)
(* identity of each author on the way; and the two callers that open the   *)
(* clone, wipe it first or not, and record how the import ended.           *)
(*                                                                         *)
(* A tree maps files to contents.  A commit keeps what the properties tell *)
(* apart: the revision it replays (0 for any other commit), its tree, the  *)
(* files stored as LFS pointers, the .gitattributes patterns (a pattern    *)
(* stands for one file), the author's identity, and two history fields.    *)
(* Cancelling, and the scheduler around an import, are TeamDaemon's.       *)
(***************************************************************************)
EXTENDS Naturals, Sequences, FiniteSets, SequencesExt

CONSTANTS
    Files, Contents, Absent,
    Histories,      \* SVN histories: sequences of [tree, author]
    Size,           \* size of each content
    Ignored,        \* files that match an ignore pattern
    LfsPaths,       \* files that match an LFS pattern
    MaxSize, LfsThreshold,      \* 0: no limit, no threshold
    InFile, InLdap,             \* authors of the mapping file, of LDAP
    HasLdap, HasDomain,         \* LDAP, an email domain, are configured
    BatchSize,      \* PUSH_BATCH_SIZE
    Attempts,       \* max_retries of the final push
    FaultKinds, MaxFaults, MaxPushes, MaxRuns

Trees == [Files -> Contents \cup {Absent}]
EmptyTree == [f \in Files |-> Absent]

AllFaultKinds ==
    {"crash", "clone", "connect", "export", "stale", "copy", "ldap",
     "commit", "push", "ack"}

ASSUME HistoryImportAssumption ==
    /\ Absent \notin Contents
    /\ \A h \in Histories : h \in Seq([tree : Trees, author : STRING])
    /\ Size \in [Contents -> Nat]
    /\ Ignored \subseteq Files /\ LfsPaths \subseteq Files
    /\ MaxSize \in Nat /\ LfsThreshold \in Nat
    /\ HasLdap \in BOOLEAN /\ HasDomain \in BOOLEAN
    /\ BatchSize \in Nat \ {0} /\ Attempts \in Nat \ {0}
    /\ FaultKinds \subseteq AllFaultKinds
    /\ MaxFaults \in Nat /\ MaxPushes \in Nat /\ MaxRuns \in Nat

VARIABLES
    svn,                            \* the history, fixed
    remote,                         \* the Git remote
    cloned, local, worktree, attrs, \* the clone and its .gitattributes
    pc, idx, since, attempt, cli,   \* run_full_import
    lfs, cached,                    \* git-lfs works; the mapper's LDAP cache
    phase, errors, pushed,          \* ImportProgress
    saved,                          \* its persisted row
    watermark,                      \* watermarks.svn_rev, 0 when unset
    \* history: commits before this run, revisions the working tree lacks,
    \* contents that came by a diff or waited for a commit that failed,
    \* failures that no error records
    base, missed, unfiltered, unreported,
    faults, pushes, runs            \* bounds

clone    == <<cloned, local, worktree, attrs>>
run      == <<idx, since, attempt, cli, lfs, cached, base>>
progress == <<phase, errors, pushed>>
ghosts   == <<missed, unfiltered, unreported>>
bounds   == <<faults, pushes, runs>>
vars     == <<svn, remote, cloned, local, worktree, attrs, pc, idx, since,
              attempt, cli, lfs, cached, base, phase, errors, pushed, saved,
              watermark, missed, unfiltered, unreported, faults, pushes, runs>>

-----------------------------------------------------------------------------
(* File policy.                                                            *)

Decision(f, c) ==
    CASE f \in Ignored -> "ignored"
      [] f \notin Ignored /\ MaxSize > 0 /\ Size[c] > MaxSize -> "oversize"
      [] OTHER -> IF f \in LfsPaths \/ (LfsThreshold > 0
                                        /\ Size[c] > LfsThreshold)
                  THEN "lfs" ELSE "allow"

LfsEnabled == LfsThreshold > 0 \/ LfsPaths # {}

Blocked(f, c) == c # Absent /\ Decision(f, c) \in {"ignored", "oversize"}

\* The files of a tree that copy_tree_with_policy has tracked by LFS.
Large(t) == {f \in Files : t[f] # Absent /\ Decision(f, t[f]) = "lfs"}

-----------------------------------------------------------------------------
(* Identity: mapping file and cache, then LDAP, then user@domain; when the *)
(* mapper fails the import itself falls back to user@svn.                  *)

Learns(a) == IF a \notin InFile /\ HasLdap /\ a \in InLdap
             THEN cached \cup {a} ELSE cached

Identity(a, ldapUp) ==
    CASE a \in InFile -> "file"
      [] a \in cached \ InFile -> "ldap"
      [] OTHER -> IF HasLdap /\ ~ldapUp THEN "svn"
                  ELSE IF HasLdap /\ a \in InLdap THEN "ldap"
                  ELSE IF HasDomain THEN "domain" ELSE "svn"

-----------------------------------------------------------------------------
Idle == [phase |-> "idle", clean |-> TRUE]

Init ==
    /\ svn \in Histories
    /\ remote = <<>>
    /\ cloned = FALSE /\ local = <<>> /\ worktree = EmptyTree /\ attrs = {}
    /\ pc = "off" /\ idx = 0 /\ since = 0 /\ attempt = 0 /\ cli = FALSE
    /\ lfs = FALSE /\ cached = {} /\ base = 0
    /\ phase = "idle" /\ errors = {} /\ pushed = 0
    /\ saved = Idle /\ watermark = 0
    /\ missed = {} /\ unfiltered = {} /\ unreported = FALSE
    /\ faults = 0 /\ pushes = 0 /\ runs = 0

Fault(kind) ==
    /\ kind \in FaultKinds /\ faults < MaxFaults
    /\ faults' = faults + 1 /\ UNCHANGED <<pushes, runs>>

Blank == [rev |-> 0, tree |-> EmptyTree, pointers |-> {}, attrs |-> {},
          author |-> "", identity |-> "svn", missed |-> {}, lfs |-> FALSE]

HeadOf(commits) == IF commits = <<>> THEN Blank ELSE Last(commits)

-----------------------------------------------------------------------------
(* Opening the clone.                                                      *)

NewProgress ==
    /\ phase' = "importing" /\ errors' = {} /\ pushed' = 0
    /\ runs < MaxRuns /\ runs' = runs + 1
    /\ pc' = "connect"
    /\ base' = Len(local')
    /\ UNCHANGED pushes

Open(commits) ==
    /\ cloned' = TRUE /\ local' = commits
    /\ worktree' = HeadOf(commits).tree /\ attrs' = HeadOf(commits).attrs

\* An existing clone is used as it is; else the remote is cloned, and when
\* that fails an empty repository is made.
Begin ==
    /\ pc = "off"
    /\ \/ cloned /\ UNCHANGED <<clone, faults>>
       \/ ~cloned /\ Open(remote) /\ UNCHANGED faults
       \/ /\ ~cloned /\ Open(<<>>)
          /\ "clone" \in FaultKinds /\ faults < MaxFaults
          /\ faults' = faults + 1
    /\ NewProgress
    /\ UNCHANGED <<svn, remote, idx, since, attempt, cli, lfs, cached, saved,
                   watermark, ghosts>>

\* reset=true: a new repository with one empty commit, forced out; whether
\* the push worked is not looked at.
BeginWithReset ==
    /\ pc = "off"
    /\ Open(<<Blank>>)
    /\ \/ remote' = <<Blank>> /\ UNCHANGED <<unreported, faults>>
       \/ /\ "push" \in FaultKinds /\ faults < MaxFaults
          /\ faults' = faults + 1 /\ unreported' = TRUE /\ UNCHANGED remote
    /\ NewProgress
    /\ unfiltered' = {}
    /\ UNCHANGED <<svn, idx, since, attempt, cli, lfs, cached, saved,
                   watermark, missed>>

-----------------------------------------------------------------------------
(* The beginning of run_full_import: LFS preflight, svn info, svn log.     *)

Clean == errors = {}

Connect ==
    /\ pc = "connect"
    /\ lfs' \in {FALSE, LfsEnabled}
    /\ saved' = [phase |-> phase, clean |-> Clean]
    /\ cached' = {} /\ idx' = 1 /\ since' = 0 /\ attempt' = 1
    /\ missed' = {}
    /\ pc' = "tree"
    /\ UNCHANGED <<svn, remote, clone, cli, base, progress, watermark,
                   unfiltered, unreported, bounds>>

ConnectFails ==
    /\ pc = "connect"
    /\ Fault("connect")
    /\ phase' = "failed" /\ errors' = {0}
    /\ saved' = [phase |-> "failed", clean |-> FALSE]
    /\ pc' = "off"
    /\ UNCHANGED <<svn, remote, clone, run, pushed, watermark, ghosts>>

-----------------------------------------------------------------------------
(* The tree of a revision.                                                 *)

More == idx <= Len(svn)

Tree(r) == svn[r].tree

Changed(r) == {f \in Files : Tree(r)[f] # Tree(r - 1)[f]}

NextRevision == idx' = idx + 1 /\ pc' = "tree"

\* `git apply` takes the diff when every file it names is as the diff expects.
ApplyDiff ==
    /\ pc = "tree" /\ More /\ idx > 1 /\ Changed(idx) # {}
    /\ \A f \in Changed(idx) : worktree[f] = Tree(idx - 1)[f]
    /\ worktree' = [f \in Files |->
           IF f \in Changed(idx) THEN Tree(idx)[f] ELSE worktree[f]]
    /\ unfiltered' = unfiltered \cup {<<f, Tree(idx)[f]>> : f \in Changed(idx)}
    /\ cli' = FALSE
    /\ pc' = "commit"
    /\ UNCHANGED <<svn, remote, cloned, local, attrs, idx, since, attempt,
                   lfs, cached, base, progress, saved, watermark, missed,
                   unreported, bounds>>

\* Neither temporary directory nor export: the revision is an error.
ExportFails ==
    /\ pc = "tree" /\ More
    /\ Fault("export")
    /\ errors' = errors \cup {idx}
    /\ missed' = missed \cup {idx}
    /\ NextRevision
    /\ UNCHANGED <<svn, remote, clone, since, attempt, cli, lfs, cached, base,
                   phase, pushed, saved, watermark, unfiltered, unreported>>

Stale == {f \in Files : worktree[f] # Absent /\ Tree(idx)[f] = Absent}

Wanted == {f \in Files : Tree(idx)[f] # Absent /\ ~Blocked(f, Tree(idx)[f])}

\* Variant for mutation testing: files gone from SVN stay in the clone.
CopiedOnto(removed, copied) ==
    [f \in Files |-> IF f \in copied THEN Tree(idx)[f] ELSE worktree[f]]

Copied(removed, copied) ==
    [f \in Files |-> IF f \in removed THEN Absent
                     ELSE IF f \in copied THEN Tree(idx)[f] ELSE worktree[f]]

\* The tree is exported, stale files are removed, the rest is copied.  That
\* a stale file could not be removed is only a warning.
Export ==
    /\ pc = "tree" /\ More
    /\ \/ /\ worktree' = Copied(Stale, Wanted)
          /\ missed' = {} /\ UNCHANGED faults
       \/ /\ Stale # {} /\ "stale" \in FaultKinds /\ faults < MaxFaults
          /\ faults' = faults + 1
          /\ worktree' = Copied({}, Wanted)
          /\ missed' = missed \cup {idx}
    /\ attrs' = attrs \cup Large(Tree(idx))
    /\ cli' = (lfs /\ Large(Tree(idx)) # {})
    /\ pc' = "commit"
    /\ UNCHANGED <<svn, remote, cloned, local, idx, since, attempt, lfs,
                   cached, base, progress, saved, watermark, unfiltered,
                   unreported, pushes, runs>>

\* The copy fails half-way: the revision is an error, its files stay.
CopyFails ==
    /\ pc = "tree" /\ More
    /\ Fault("copy")
    /\ \E some \in SUBSET Wanted :
          /\ worktree' = Copied(Stale, some)
          /\ attrs' = attrs \cup (Large(Tree(idx)) \cap some)
    /\ errors' = errors \cup {idx}
    /\ missed' = missed \cup {idx}
    /\ NextRevision
    /\ UNCHANGED <<svn, remote, cloned, local, since, attempt, cli, lfs,
                   cached, base, phase, pushed, saved, watermark, unfiltered,
                   unreported>>

-----------------------------------------------------------------------------
(* The commit.  `git add` makes pointers of the tracked files; libgit2     *)
(* adds what changed as it is.                                             *)

Parent == HeadOf(local)

Pointers ==
    IF cli THEN {f \in attrs : worktree[f] # Absent}
    ELSE {f \in Parent.pointers : worktree[f] = Parent.tree[f]}

CommitOf(a, identity) ==
    [rev |-> idx, tree |-> worktree, pointers |-> Pointers, attrs |-> attrs,
     author |-> a, identity |-> identity, missed |-> missed, lfs |-> lfs]

SameTree == worktree = Parent.tree /\ Pointers = Parent.pointers
            /\ attrs = Parent.attrs

NeedsLdap(a) == HasLdap /\ a \notin InFile \cup cached

Commit ==
    LET a == svn[idx].author IN
    /\ pc = "commit" /\ ~(cli /\ SameTree)
    /\ \/ /\ local' = Append(local, CommitOf(a, Identity(a, TRUE)))
          /\ cached' = Learns(a) /\ UNCHANGED faults
       \/ /\ NeedsLdap(a) /\ "ldap" \in FaultKinds /\ faults < MaxFaults
          /\ faults' = faults + 1
          /\ local' = Append(local, CommitOf(a, Identity(a, FALSE)))
          /\ UNCHANGED cached
    /\ since' = since + 1
    /\ IF since' >= BatchSize THEN pc' = "push" /\ idx' = idx
                              ELSE NextRevision
    /\ UNCHANGED <<svn, remote, cloned, worktree, attrs, attempt, cli, lfs,
                   base, progress, saved, watermark, ghosts, pushes, runs>>

\* "[skip] no changes to commit": the tree is the parent's, or the commit
\* failed for any other reason.  It is logged and no error.
Skip ==
    /\ pc = "commit"
    /\ \/ cli /\ SameTree /\ UNCHANGED <<unreported, unfiltered, faults>>
       \/ /\ "commit" \in FaultKinds /\ faults < MaxFaults
          /\ faults' = faults + 1 /\ unreported' = TRUE
          /\ unfiltered' = unfiltered \cup
                              {<<f, worktree[f]>> : f \in Large(worktree)}
    /\ NextRevision
    /\ UNCHANGED <<svn, remote, clone, since, attempt, cli, lfs, cached, base,
                   progress, saved, watermark, missed, pushes, runs>>

-----------------------------------------------------------------------------
(* Pushing.  Until one push is known to have worked, pushes are forced.    *)

\* Variant for mutation testing: every push is forced.
ForceAlways == TRUE

Forced == pushed = 0

Accepted == Forced \/ IsPrefix(remote, local)

PushWorks ==
    /\ Accepted
    /\ remote' = local /\ pushed' = pushed + 1 /\ unreported' = FALSE
    /\ UNCHANGED bounds

\* Rejected, failed on the way, or failed only after the remote had taken it.
PushFails ==
    /\ \/ ~Accepted /\ UNCHANGED <<remote, bounds>>
       \/ Fault("push") /\ UNCHANGED remote
       \/ Accepted /\ Fault("ack") /\ remote' = local
    /\ UNCHANGED pushed

\* The batch counts as pushed either way: it is "retried at the end" only if
\* a commit follows.
BatchPush ==
    /\ pc = "push"
    /\ \/ PushWorks /\ saved' = [phase |-> phase, clean |-> Clean]
       \/ PushFails /\ unreported' = TRUE /\ UNCHANGED saved
    /\ since' = 0
    /\ NextRevision
    /\ UNCHANGED <<svn, clone, attempt, cli, lfs, cached, base, phase, errors,
                   watermark, missed, unfiltered>>

\* Variant for mutation testing: giving up is only logged.
SilentlyGivenUp == errors

NextAttempt == attempt + 1

GivenUp == errors \cup {0}

FinalPush ==
    /\ pc = "tree" /\ ~More /\ since > 0
    /\ \/ /\ PushWorks
          /\ pc' = "mark" /\ UNCHANGED <<attempt, errors>>
       \/ /\ PushFails /\ UNCHANGED unreported
          /\ IF attempt = Attempts
             THEN pc' = "mark" /\ errors' = GivenUp /\ UNCHANGED attempt
             ELSE pc' = "tree" /\ attempt' = NextAttempt /\ UNCHANGED errors
    /\ UNCHANGED <<svn, clone, idx, since, cli, lfs, cached, base, phase,
                   saved, watermark, missed, unfiltered>>

-----------------------------------------------------------------------------
(* The end: persist, set the watermarks, Completed.                        *)

NothingLeft ==
    /\ pc = "tree" /\ ~More /\ since = 0
    /\ pc' = "mark"
    /\ UNCHANGED <<svn, remote, clone, run, progress, saved, watermark,
                   ghosts, bounds>>

Complete ==
    /\ pc = "mark"
    /\ watermark' = IF svn = <<>> THEN watermark ELSE Len(svn)
    /\ phase' = "completed"
    /\ saved' = [phase |-> "completed", clean |-> Clean]
    /\ pc' = "off"
    /\ UNCHANGED <<svn, remote, clone, run, errors, pushed, ghosts, bounds>>

-----------------------------------------------------------------------------
(* The daemon dies and is started again; someone pushes to the remote.     *)

Crash ==
    /\ pc # "off"
    /\ Fault("crash")
    /\ pc' = "off"
    /\ phase' = "idle" /\ errors' = {} /\ pushed' = 0
    /\ UNCHANGED <<svn, remote, clone, run, saved, watermark, ghosts>>

DeveloperPushes ==
    /\ pushes < MaxPushes /\ pushes' = pushes + 1
    /\ remote' = Append(remote, [HeadOf(remote) EXCEPT !.rev = 0,
                                                       !.missed = {}])
    /\ UNCHANGED <<svn, clone, pc, run, progress, saved, watermark, ghosts,
                   faults, runs>>

Step ==
    \/ Connect \/ ApplyDiff \/ Export \/ Commit \/ Skip \/ BatchPush
    \/ FinalPush \/ NothingLeft \/ Complete

Next ==
    \/ Begin \/ BeginWithReset \/ Step
    \/ ConnectFails \/ ExportFails \/ CopyFails
    \/ Crash \/ DeveloperPushes

Spec == Init /\ [][Next]_vars

-----------------------------------------------------------------------------
(* Properties.                                                             *)

ThisRun == (base + 1)..Len(local)

\* A commit has SVN's tree of its revision, but for the files the policy
\* blocks, whichever of diffs and exports brought the clone there; unless a
\* revision was left out since the last whole export.
TreesAreExact ==
    \A i \in ThisRun : local[i].missed = {} =>
        \A f \in Files :
            LET c == Tree(local[i].rev)[f] IN
            Blocked(f, c) \/ local[i].tree[f] = c

\* Git takes a content that the policy blocks only by way of a diff, which no
\* policy sees.  It takes a large file of the revision as it is, while LFS
\* works, only so or when the commit that was to store it failed.  (A file
\* whose new content is blocked keeps an old one, of which no commit may have
\* made a pointer.)
PolicyBypassedOnlyByDiffs ==
    \A i \in ThisRun, f \in Files :
        LET c == local[i].tree[f] IN
        c # Absent /\ <<f, c>> \notin unfiltered =>
            /\ ~Blocked(f, c)
            /\ (local[i].missed = {} /\ c = Tree(local[i].rev)[f]
                   /\ local[i].lfs /\ Decision(f, c) = "lfs")
               => f \in local[i].pointers

AuthorsAreStable ==
    \A i, j \in ThisRun :
        i < j /\ local[i].author = local[j].author
              /\ local[i].identity = "ldap"
        => local[j].identity = "ldap"

\* What a commit of an import holds: SVN's tree of its revision, whichever of
\* diffs and exports brought the clone there; of that nothing the policy blocks
\* and large files as pointers only, except by way of a diff; and an author
\* who keeps the identity LDAP gave, though LDAP may fail later.
CommitsAreFaithful ==
    TreesAreExact /\ PolicyBypassedOnlyByDiffs /\ AuthorsAreStable

\* What /api/setup/import/status answers.
Status == IF phase = "idle" THEN saved ELSE [phase |-> phase, clean |-> Clean]

\* An import that is shown as completed without errors, and has committed
\* anything, has pushed all there is in the clone, even after crashes and
\* imports that failed before; unless the last batch's push, a commit or a
\* reset's push failed unrecorded.  (One that commits nothing pushes nothing,
\* not even what an import before it left behind.)
CompletedMeansPushed ==
    Status.phase = "completed" /\ Status.clean /\ ThisRun # {} /\ ~unreported
        => IsPrefix(local, remote)

\* Once a push has worked, the import discards nothing of the remote, though
\* others push to it meanwhile.
NothingOverwritten ==
    [][pushed > 0 /\ pc # "off" => IsPrefix(remote, remote')]_vars
=============================================================================
