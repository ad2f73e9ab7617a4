# A TLA+ model of RepoSync (GitSvnSync)

RepoSync keeps SVN repositories and GitHub branches in step. Paths below are
relative to the root of the repository. The specifications in this directory
are translated from the Rust sources under `crates/`; documentation is quoted
only where it promises something the code can be held to.

## 1. The system

| Component | Where | State it keeps | Operations | Module |
|---|---|---|---|---|
| Team sync engine | `core/src/sync_engine.rs` | locals of a running cycle | fetch both sides, detect conflicts, apply SVN to Git, apply Git to SVN | `TeamSync`, `Replication` |
| Scheduler, start-up, shutdown | `daemon/src/scheduler.rs`, `main.rs`, `signals.rs` | `running_repos`, `sync_handles`, webhook channel | timer pass, webhook, cycle, recovery, joins with deadlines | `TeamDaemon` |
| History import | `core/src/import.rs`, `web/src/api/repos.rs`, `setup.rs` | `ImportProgress` behind an RwLock, its persisted row | start, cancel, reset; replay of the SVN log with batched pushes | `TeamDaemon` (control), `HistoryImport` (content) |
| Conflict detector, queue | `core/src/conflict/`, `web/src/api/conflicts.rs`, `cli/src/personal/conflicts.rs` | `conflicts` rows | detect, queue, resolve, defer | `Conflicts` |
| Conflict merger | `core/src/conflict/merger.rs` | none | three-way merge | `ThreeWayMerge` |
| Secrets | `core/src/config.rs`, `crypto.rs`, `web/src/api/repos.rs` | `kv_state` keys, `encrypted_secrets`, the clone's remote URL | seal, copy per repository, save, reload | `Credentials` |
| Identity mapper | `core/src/identity/` | two caches and an LDAP resolver with a lock each | SVN user to address and back | `IdentityMapping` |
| Live updates | `web/src/ws.rs` | a broadcast channel | subscribe, forward, warn | `LiveUpdates` |
| Schema | `core/src/db/schema.rs` | `user_version`, tables, columns | ten migrations | `Schema` |
| Personal branch mode | `personal/src/` | watermark, `commit_map`, `pr_sync_log`, clone, working copy | mirror SVN to Git, replay merged pull requests to SVN | `PersonalSync` (order), `PersonalFiles` (contents) |
| GitHub listing | `core/src/git/github.rs`, `personal/src/pr_monitor.rs` | none | list merged pull requests page by page | `PrListing` |
| Personal daemon control | `personal/src/main.rs`, `daemon.rs`, `signals.rs`, `cli/src/personal/` | PID file, clone directory | start, stop, status, sync, import | `PersonalControl` |
| Git and SVN clients, database | `core/src/git`, `svn`, `db` | clones, working copies, SQLite | one command or statement per call | in the modules of their callers |
| Web UI, notifications, authentication, personal configuration, scripts | `web-ui`, `core/src/notify`, `web/src/api/auth.rs`, `users.rs`, ... | | | not modelled (section 7) |

How they interact. The scheduler's timer or a webhook creates a `SyncEngine`
for a due repository and spawns one cycle. The engine talks to both servers
through command-line clients, to the database through single statements, and
to nobody else; users commit to both servers at any time without asking the
daemon. The web API changes rows the engine reads (conflicts, watermarks,
credentials) and starts imports, which use the same clone and the same
watermark columns; import and scheduler exclude each other only through the
phase of the import's progress. Personal branch mode is a separate program with
a separate database; the two modes are not composed because nothing in the code
connects them.

`PROJECT.json` lists every component with its status, and the hazards with the
lines where they bite.

## 2. Modules

`Replication` is the abstract specification of the engine. `MC...` modules and
`.cfg` files give TLC its instances. `TeamSyncProofs`, `TeamDaemonProofs`,
`HistoryImportProofs`, `PersonalSyncProofs`, `PersonalFilesProofs` and
`PersonalControlProofs` extend the modules they are named after,
`ConflictsProofs` extends `Conflicts` and `ThreeWayMerge`, and
`OperationsProofs` extends `Credentials`, `IdentityMapping`, `LiveUpdates`,
`Schema` and `PrListing`, as `MCOperations` does. A step of an action is one
awaited call or one statement, unless said otherwise.

### TeamSync and Replication

State: `svnLog`, `remote` (the SVN repository and the GitHub branch; a revision
or SHA is a position); `base`, `unpushed` (the daemon's clone: a prefix of the
branch, perhaps one local commit on top); `wmRev`, `wmSha`
(`repositories.last_svn_rev`, `last_git_sha`); `kvRev`, `kvSha` (`kv_state`);
`records`, `conflicts`, `syncState`; `pc`, `svnTodo`, `gitTodo`, `cur`, `out`,
`wcRev` (where `do_sync_cycle` is, and its locals); `skipped`, `fetched`
(history). `origin` of a commit is history too: every guard sees only `marked`,
whether the message contains `[reposync]`.

Actions: `StartCycle`, `FetchSvn`, `FetchGit`, `DetectConflicts`; per revision
`ApplyRevision`, `Push`, `RecordRevision`, `SaveRevisionKey`, `SaveRevisionRow`;
per Git commit `PrepareWorkingCopy`, `SkipKey`, `SkipRow`, or `CommitToSvn`,
`RecordCommit`, `SaveCommitKey`, `SaveCommitRow`; `FinishCycle`. Failures:
`CommandError`, `PushRejected`, `SvnCommitRefused`, `PushUnacknowledged`,
`SvnCommitUnacknowledged` (the server took it, the client saw an error), a failed
`svn cat`, a failed row write. `Crash` and `FreshDb` include the recovery
`main()` runs at start.

Abstracted: a file's contents are one value, so two edits of a file overlap;
histories are linear and a user's commit changes one file; `commit_map` is empty,
team mode never writes it; the global keys `last_git_hash` are merged with the
per-repository ones; the scan of the git log looks at all commits (the code: 200).
One engine runs at a time, which `TeamDaemon` establishes. `Replication` knows
two growing histories of user commits and copies of user commits, once with
copies in any order and once in order.

### TeamDaemon

State: `daemon`, `graceful`, `awaited` (the process and its shutdown); `pc`,
`looking`, `left`, `queue`, `senders` (the scheduler's loop, the webhook channel
of bounded capacity and the senders it blocks); `running`, `cycles`, `from`,
`tracked` (`running_repos`, live cycles, the watermark each started from, the ids
in `sync_handles`); `rows`, `enabled`, `position`, `globalPos` (the
`repositories` rows and the `watermarks` table); `phase`, `cancelled`, `task`,
`request` (imports per slot, import tasks, requests under way).

Actions: `Tick`, `TakeWebhook`, `LookAt`, `SpawnCycle`, `TrackCycle`, `PassEnds`,
`OpenFails`; `CycleEnds`, `CyclePanics`; `Webhook`; requests `AskImport`,
`BeginImport`, `WipeRepository`, `SpawnImport`, `StartFails`, `Cancel`,
`AskReset`, `ResetPolls`, `ResetConnects`, `ResetClears`, `ResetFails`,
`UpdateRepo`, `DeleteRepo`, `ApplyConfig`, `WriteRow`, `CreateBranchPair`,
`StartFromNow`; import tasks `ImportConnects`, `ImportFails`,
`ImportNoticesCancel`, `ImportMarks`, `ImportEnds`; `Signal`, `JoinScheduler`,
`Exit`, `Crash`, `Restart`.

A watermark is abstracted to whose position it is: the repository's own, another
import's, the head at the creation of a branch pair, or none. A cycle is a task
that takes time and ends by moving the watermark.

### HistoryImport

State: the SVN history (fixed); the remote; the clone with its commits, working
tree and `.gitattributes`; the loop (`pc`, `idx`, `since` the last push,
`attempt`); the mapper's LDAP cache; progress in memory and its persisted row; the
watermark; and history variables for what a revision left out. Steps: clone or
initialise, per revision diff or export, policy and LFS, identity, commit, batch
push; the final push with its retries; the end of the import. Ten kinds of
faults, somebody else's push, a second import with or without a reset. Files have
sizes, not text; a pattern stands for one file.

### Conflicts and ThreeWayMerge

`Conflicts`: the files each side has, the changes no cycle has taken, the cycle
(`todo`: positions in the SVN list whose conflicts are still to be inserted), the
table and the library calls in progress. `SvnUser` and `GitUser` add, edit, delete,
replace and rename; the engine runs `StartCycle`, `QueueConflict` or
`LoseConflict` (the ignored error of `insert_conflict`), `StartApplying`, `Apply`
or its failures; `WebResolve`, `CliResolve`, `WebDefer`, `LibraryDefer` are one
statement, the library's resolution is three (`LibraryCheck`, `LibraryUpdate`,
`LibraryStore`, or `LibraryAbort`).

`ThreeWayMerge`: the fast paths, both attempts to apply a patch, and the marker
loop line by line. The patch library is external; for files within its context of
three lines a patch applies exactly where the base occurs.

### Credentials

State: the per-repository and the global keys, the sealed secret, start-up
(`boot`, `uncopied`), a handler's second statement (`saving`), the password of a
running cycle and what the clone's remote URL embeds. Start-up seals the plaintext
and copies it to every repository, deaths cut it anywhere; `SaveCredentials`,
`ApplyConfig`, `FinishSaving`, `AddRepository`; `StartCycle` (the scheduler's chain
of keys), `RunCycle` (the engine's), `RepoImport` (the import's). One value stands
for SVN password and Git token, which follow the same code.

### IdentityMapping, LiveUpdates, Schema

`IdentityMapping`: concurrent lookups in both directions, `Connect`, `LdapFails`,
`FoundByUid`, `FoundByMail`, `Insert` and `InsertReverse` (two locks, one after the
other), and a directory people edit. `LiveUpdates`: a channel that keeps the last
messages, a receiver per client subscribed before the client is let in, `Forward`,
`Lagged`, `Leave`. `Schema`: every statement of the ten migrations, several
processes with one file, a cut between any two statements, and what SQLite
refuses.

### PersonalSync and PersonalFiles

`PersonalSync` is about order and bookkeeping. State: both histories and the
merged pull requests; the clone (`base`, `ahead`, `present`); what the working copy
has uncommitted (`dirty`); watermark, `commitMap`, `prLog`; the locals of the two
phases. Mirror: `StartCycle`, `SkipRevision` or `CommitMirror`, `Push` or
`PushRejected`, `RecordMirror`, `AdvanceWatermark`, `MirrorDone`. Replay:
`CheckForMergedPrs`, `ListMergedPrs`, `SkipPr` or `BeginPr`, `ApplyToWorkingCopy`,
`CommitToSvn`, `RecordReplay`, `CompletePr`, or the failures that lead to `FailPr`.
The operator: `Restart`, `Reclone`, `FullReset` (the snapshot import is one step
here). A commit changes a copied file, none, or carries the marker; GitHub's
listing is taken at its word, since it is `PrListing`'s subject.

`PersonalFiles` is about contents: trees with dotfiles, ignored, large and
oversize files and LFS pointers; the clone's working tree and `.gitattributes`; the
working copy with scheduled and conflicted files. Snapshot and full import, mirror
(`MirrorCopy`, `MirrorRemoveStale`, `MirrorCommit`, `MirrorPush`, `MirrorRecord`),
replay file by file (`ApplyFile`, `SkipPointer`, `Stage`, `CommitToSvn`).

### PersonalControl and PrListing

`PersonalControl`: processes under PIDs that are given away again; for every
command the steps in the order of its source (`StepsOf`); check, sweep, truncate,
write and remove of the PID file; the clone that is absent, empty, half made,
whole, or an import's own repository; the signal handlers that are registered
beside the loop; kills. `PrListing`: people close, merge, comment and reopen
between two pages; a page is the closed pull requests of certain ranks, by update
time or by number, at the moment it is asked for; retries, the page limit; and
working the list off, oldest merge first. An item of the list is a pull request on
a page, so that one which moved from a page to the next is listed twice, as in the
code.

## 3. Runs

| Run | Shows |
|---|---|
| `quiet` | users commit between cycles, nothing fails, the database may be lost: `NoSvnRevisionLost`, `NoGitCommitLost`, `ConvergedOrQueued` |
| `faults` | users at any moment, one fault of any kind, a lost database, a resolved conflict: `NoPingPong`, `RecordsTruthful`, `CopiedOncePerFault`, `FetchedRevisionsReachGit`, `ImplementsReplication` |
| `progress` | two faults: `ImplementsOrderedReplication`, and under fairness `EventuallyNothingToSync` |
| `daemon` | two repositories, two requests of any kind, one fault: `OneCyclePerRepository`, `OneImportPerSlot`, `CleanExit`, `WatermarkKept` |
| `daemon_progress` | under fairness: `SyncedAgainAndAgain`, `ImportsEnd`, `ShutdownEnds` |
| `import` | two imports, two faults of ten kinds, a stranger's push: `CommitsAreFaithful`, `CompletedMeansPushed`, `NothingOverwritten` |
| `conflicts` | three changes, two cycles, two decisions, one fault: `CollisionsReported`, `DecisionsAreWhole`; all merges of three files of up to three lines: `MergeCorrect` |
| `operations` | `OneIdentityPerUser`, `NothingLostSilently`, `CyclesUseTheLastSaved`, `VersionMeansApplied`, `FailsOnlyIfTorn`, `FileNamesTheDaemon`, `ListedUnlessMoved` |
| `personal` | two pull requests, two SVN revisions, one fault, one repair: `WatermarkCoversMirror`, `ReplayedAtMostOnce`, `CompletedMeansReplayed`, `NoEcho`, `CommitMapTruthful`, `MirroredInOrder`, `MirroredOncePerFault`, and under fairness `EventuallyMirrored` |
| `personal_files` | three revisions, two pull requests, one fault, one repair: `CopiesAreFaithful`, `ReplaysAreFaithful` |
| `concurrent_loses_svn` | a violation of `NoSvnRevisionLost` |
| `import_cancel` | a violation of `CancelledImportStops` |

The two violations are findings (`PROJECT.json`):

1. After committing a Git commit to SVN the row's SVN watermark becomes the new
   revision (`sync_engine.rs:822`). A user's revision that arrived since
   `svn info` is below it and is never fetched.
2. The import task tests `cancel_requested` through a read guard and then asks
   for the write guard while the read guard is alive (`import.rs:532`): it waits
   for itself, and everyone who wants the progress waits behind it.

**Mutants.** Every property of a passing run has a variant of one definition that
breaks it (`PROJECT.json`, `mutants`; in the modules "Variant for mutation
testing"): a dropped check, a stale or reversed write, an off-by-one, an error
logged instead of returned.

**Bounds.** *Engine*: two user commits a side beyond the first give a change list
of two, a commit on each side of a watermark, and one before and one during a
cycle. `quiet` has two files and two contents, so that changes can be disjoint,
equal or in conflict; the others one of each, their properties relate positions.
`GitFetchCap = 9` is never reached. *Daemon*: one repository and one a branch pair may add, plus the wizard's slot, are enough for
two imports and for two repositories that exchange positions; two task slots for
the overlap of a cancelled import with the next; one request at a time (see
`OneImportPerSlot` below); a channel of one and one blocked sender. *Import*:
seven histories of none to three revisions pushed by twos, so that a batch ends in
the middle, the last one is short, or there is none; small, large and oversize
contents, between which a file grows and shrinks. *Personal*: the pull
requests <<work, echo, work>> and <<noop>>: an echo between two commits, a commit
after which another follows, and one that changes nothing. *Conflicts*: two paths
for a rename, two cycles for a duplicate row. *Merger*: three lines are a conflict
with common context before or after it; longer files repeat the loop.
*Operations*: the bounds are in `MCOperations.cfg`; the components share no
variable, so each is explored while the others rest (`MCNext`).
Symmetry is used in the runs of safety properties `quiet` (files, contents) and
`operations` (secrets, lookups), over values no definition orders or names.

**Fairness.** `TeamSync`: weak fairness of the engine as a whole; the interval timer
starts a cycle again and again and a cycle waits only for commands that end or
fail. `TeamDaemon`: every task of the tokio runtime that can run eventually runs
(weak fairness of scheduler, cycles, import tasks, requests and the shutdown
sequence), and `select!` picks among ready branches at random (strong fairness of
`TakeWebhook`); nothing is assumed of requests, signals or faults. `PersonalSync`:
weak fairness of `Daemon`, including `Restart`, since the polling loop goes on and
a dead daemon is started again. The other modules check safety only. Faults are
bounded: with unboundedly many crashes nothing is promised.

## 4. Proofs

Every safety invariant and every action property of a passing run, and both
refinements, are theorems. All constants are arbitrary: any repositories, files,
users, PIDs, page sizes, numbers of commits, faults and requests. Assumptions are
the named `ASSUME`s on constants of each module (ranges, and that sentinels such as
`None` are no ordinary values); TLC evaluates them in every run. Where a theorem
has a hypothesis of its own it is the restriction under which the run checks the
property, and is given below.

**TeamSyncProofs.** The code never sees what is a copy, only the marker, so `IInv`
adds to the types `CopiesOK` (a copy, also an unpushed one, carries the marker and
its original does not), `TodoOK` (the lists hold unmarked commits) and `PhaseOK`
(what `cur`, `out` and `unpushed` are in each phase). On it rest `TypeCorrect`,
`RecordsAlwaysTruthful`, `NeverPingPong` and `EngineImplementsReplication`, for
which `OriginsAppend` shows that an appended commit is an appended origin, and
`RefinementStep` that four actions publish a copy, two a user's commit, and the
others leave both histories alone. The rest is built in layers, each using the
ones before it:

| Theorem | Hypothesis | Invariant |
|---|---|---|
| `CopiesCountFaults` | none | `OnceInv`: a commit with more copies than the faults pay for lies under the watermark a new cycle would start from, or is the one being recorded; what is still to be applied lies above it, in order |
| `FetchedAreNotLost` | none (the property excepts empty messages) | `FetchedSafe`: a revision once fetched has its copy, or is above the watermark and will be fetched again, or is in the hands of the running cycle |
| `UserRevisionsAreNotLost` | users commit between cycles and write no marker; messages are not empty, or nothing fails | `UsersSafe`: the same for every user's revision; if nothing fails, they reach the branch in order |
| `UserCommitsAreNotLost` | in addition nothing fails, and the branch is within reach of `get_commits_since` | `CommitsSafe`: the same for the branch, whose watermark also runs ahead to the engine's own commits |
| `EngineKeepsTheOrder` (`ImplementsOrderedReplication`) | `BookkeepingKept`: no empty message, no failed row write, no lost database | `OrderInv`: nothing newer than what is still to be fetched has been copied, and a cycle holds all of it or what came after |
| `NothingLeftMeansConverged` | as for `UserCommitsAreNotLost`, and nobody resolves a conflict | `CalmInv`: a cycle's lists are complete (`TodoWhole`), and for every file not in the queue the side with changes not yet copied holds the newest of them, where both have such changes they agree, and where neither has both sides are equal (`FilesFollow`) |

`NoSvnRevisionLost` without its first hypothesis is what finding 1 refutes.

**TeamDaemonProofs.** `TypeCorrect`, `CyclesExclude`, `MarksAreTrue`,
`ExitIsClean`, `WatermarksAreKept`, `ImportsExclude`. Types need what the
scheduler has in hand and which slot a request names (`TypeInv`). That cycles
exclude each other needs where a repository may be between check, insertion and
handle (`CycleInv` with `CyclesOK`, `HandlesOK`); the clean exit follows from the
handles. `ImportsExclude` assumes that there is one request at a time and needs
that a live task's slot is importing and that a request past its check finds
nobody on its slot (`ImportInv`).

**HistoryImportProofs.** `TypeCorrect`, `RevisionsAreFaithful`,
`ImportOverwritesNothing`, `CompletedIsPushed`. `FaithInv` follows a file from the
revision to the commit: the clone's files are those of the revision shown unless
one was missed (`TreeOK`), a blocked content came by a diff (`PolicyOK`), a large
file is about to be stored or is a pointer in the commit checked out (`LargeOK`),
and whom LDAP named is in the mapper's cache (`AuthorOK`). `PushOK` says at which
points of the loop the remote has all of the clone: where the counter of the batch
is zero and once the import is over; only a finished import is saved as completed.

**PersonalSyncProofs.** `TypeCorrect`, `WatermarkAlwaysCovered`,
`CommitMapAlwaysTruthful`, `NeverEchoed`, `AlwaysMirroredInOrder`: `PhaseOK` says
what the locals are, `MapOK` what a row names, `EchoOK` that every revision of the
daemon has its row except the one about to be recorded, `OrderOK` that copies in
the clone are not older than those on the branch. `MirrorsCountFaults` and
`ReplaysCountResets` are counting arguments over sets of unknown size: every copy of
a revision but one is paid for by a fault (`CopiesOK`), every replay of a commit but
one by a reset, where what waits in the working copy is counted as well
(`CarriedOK`). `ReplayedWithoutGaps` needs that what is no longer left of the pull
request in hand has its revision (`LeftOK`) and that histories only grow.

**PersonalFilesProofs.** `TypeCorrect`, `CopiesFromSvn`: `FilesOK` says that the
clone's working tree holds no forbidden file but those of pull requests, and before
each commit what the revision demands. `ReplaysTouchOnlyTheirs`: a file of the
working copy that differs from its base or is scheduled was written by a pull
request taken up, in whatever cycle (`WcOK`), and revisions belong to pull requests
taken up (`OfTaken`). `ReplaysFromGit` assumes that SVN users commit no LFS pointers
of their own (`UsersCommitContents`), as the run does: then smudged or not, none
gets there by a replay.

**PersonalControlProofs.** `TypeCorrect`, `FileAlwaysNamesTheDaemon`,
`DaemonAlwaysHasARepository`. As long as commands ran one after another there is
one command (`OneCommand`), so what it found out stays true: after the check no
daemon runs, and stop's target is the only one (`CommandOK`); a clone being made
is used by nobody (`CloneOK`).

**ConflictsProofs.** *Queue*: `TypeCorrect`, `CollisionsAreReported`,
`QueueStaysALog`, `DecisionsStayWhole`. A library call holds a decision it may make
(`CallersOK`); the newest change of a file tells whether the side still has it
(`LogOK`, which is why the comparison must look at the last change); a collision is
queued, lost or still in `todo` (`QueueOK`). *Merger*: `MergeTypeCorrect`,
`MergesAreCorrect`, for files of any length. The loop's invariant is that the lines
outside the blocks' other halves, read in order, are the side's file up to the
loop's line (`BothRead` with `Reads`), and that every block ends before the next
begins. `Kept`, which reads a side back, chooses the position with so many positions
before it; that it exists and is the one meant is shown by counting positions
(`KeptStarts`) and by a smallest counterexample where an induction would be used
(`MinExists`, from well-foundedness).

**OperationsProofs.**
* Secrets: `CredTypeCorrect`, `KeysStay`, `LastSavedUsed`, `SecretsAreKept`,
  `TokensAreLeft`. Where the global key comes from (`GlobalOK`), what a save has
  written before its second statement (`SavingOK`), that the last saved value is
  the repository's own key (`LatestOK`).
* Identity: `IdentityTypeCorrect`, `OneIdentity`, `AddressesFindOwners`,
  `CacheReadsBothWays`. For a user nobody edited there is one answer at any time
  (`AnswersOK`); an address keeps its first owners (`OwnersOK`); the reverse entry
  follows the entry (`BothWays`).
* Live updates: `NothingIsLost`. As long as nothing is withheld from a client, what it
  was shown and warned about tells it where its receiver is (`CountOK`).
* Schema: `VersionsAreTrue`, `FailuresMeanTorn`. Every process, also one that
  migrates with a version read long ago, has what the statements before its own
  make (`AppliedOK`); the rebuilt table is there under one of its names, and one
  process at most is past the column that guards the rebuild (`RebuildOK`); without
  a race one process migrates, from the stored version (`AloneOK`); without race
  and cut no column is there too early (`FreshOK`). The migrations are the real
  ones: the lemmas on them evaluate all their statements.
* Listing: `PrTypeCorrect`, `MergedAreListed`. A pull request untouched since the
  listing began and not yet got stands behind all pages got (`BehindOK`): whatever
  people do but reopening one puts others before it and takes none away from there,
  which is a comparison of the cardinalities that ranks are.

`MarkedMeansRunning`, `QueueIsALog`, `KeysStayInTheFamily`, `SecretsSurvive`,
`CyclesLeaveAToken`, `AddressesLeadToTheirOwners`, `CachedBothWays`,
`DaemonHasARepository`, `ReplayWritesOnlyItsFiles` (a part of
`ReplaysAreFaithful`, here without its assumption) and the type invariants are
proved and in no run of their own.

**Only model-checked**: the liveness properties `EventuallyNothingToSync`,
`EventuallyMirrored`, `SyncedAgainAndAgain`, `ImportsEnd` and `ShutdownEnds`, since
TLAPS has neither fairness nor `ENABLED`. The two findings are counterexamples TLC
gives.

## 5. Where the properties step around what the code does

The wording of the properties excludes the following, which a reader of the code
should know. Each was met while modelling; they are not runs.

**Engine.** The row becomes (r, SHA of the copy of r) after a push
(`sync_engine.rs:538`), past Git commits fetched but not applied: a crash there
loses them (hence `NoGitCommitLost` only in `quiet`). Conflicts are queued, then
both lists are applied as if there were none (`:320`). A failed `svn cat` leaves a
file out of a commit that is recorded as applied (`:435`). A user's message that
quotes the marker is taken for an echo; a walk of more than 1000 commits drops the
oldest (`git/client.rs:454`); on a new database the subject lines scanned do not
show the marker, so everything is copied again (`CopiedOncePerFault` counts
resets); unless a log message is empty, when git takes the marker for the
subject line and a commit not pushed yet looks like a watermark
(`FetchedRevisionsReachGit` excepts empty messages, `faults` and `progress` have
none); with two failed row writes copies may be out of order (`progress` has no
such fault). The configured layout is put into the URL while `svn log -v` paths
keep it (`:948`). A row's `last_sync_at` is read in a format SQLite does not write,
so a repository is always due (`scheduler.rs:286`).

**Daemon and imports.** `OneImportPerSlot` is about requests one at a time: two
that race pass the check together (`repos.rs:469`, `setup.rs:648`). A start that
fails after the phase was set leaves it set (`setup.rs:656-664`; `ImportsEnd` and
`SyncedAgainAndAgain` except it), so does a cancellation (finding 2); a panicked
cycle keeps its repository marked (`scheduler.rs:542`). A per-repository import does
not stop a cycle already running, and a reset wipes the clone under it. Updates
and deletions of a repository write back a row read earlier (`repos.rs:371`);
imports that end together exchange positions through the `watermarks` table
(`WatermarkKept` names these). A webhook during an import is taken and dropped. The
shutdown does not await imports, and a signal in the middle of a pass is missed, so
the scheduler is cut off after ten seconds (`main.rs:542`).

**Import contents.** Diffs bypass policy and LFS (`PolicyBypassedOnlyByDiffs`);
where a file's new content is blocked the clone keeps the old one, which may be
committed although no commit has made a pointer of it; a
failed batch push resets the counter, so the final push may not happen
(`import.rs:841`; `CompletedMeansPushed` has `unreported`); a revision that cannot be
exported is skipped and the watermark is the last revision all the same (`:979`); a
clone that fails ends in a forced first push (`:740`); an import without reset
replays the history again; one that commits nothing pushes nothing (`:881`), not
even what an earlier import has left in the clone.

**Conflicts and merger.** `base_content` is never set, so no conflict is ever merged
automatically; a failed cycle inserts its rows again; web and command line decide
whatever the status; a resolution is never applied. Two files that differ by a tail
merge without a marker though a conflict is reported; a trailing newline is lost.

**Secrets.** The sealed secret of the wizard is read by no scheduler or import; a
rotated token is not written into a remote that has one; an import accepts an empty
global key. Between a branch pair and its parent the global key may carry a
sibling's secret (`KeysStayInTheFamily` is about families).

**Identity, live updates, schema.** An LDAP error fails the cycle; the resolver is
held over the network without a timeout; of two cached users with one address either
may win. A warning whose send fails is ignored and the loop goes on with a client
that is gone. A cut between an `ADD COLUMN` and the version makes every later start
fail, and two migrators can lower the version (`FailsOnlyIfTorn` names the two,
for the cut only the column it has left).

**Personal mode.** A failed push leaves its commit and the next cycle pushes it
twice (`MirroredOncePerFault` counts faults). Once a pull request is merged every
push is rejected until somebody deletes the clone (`Diverged`). A row left pending
counts as synced; a pull request merged while another is replayed lies before the
time the next listing starts from (`CompletedMeansReplayed` is about completed
rows). What a failed replay left is committed with the next one. Commits pushed
after the clone was made are not found in it (`git_to_svn.rs:477`). A replay
overwrites an SVN user's concurrent edit of the same file; a mirror reverts files of
merged pull requests not replayed yet. People who comment, close or reopen while
pages are fetched hide a pull request (`ListedUnlessMoved` excepts it), and so does
the eleventh page. Two starts at once, a stop that removes a new daemon's file, and
a file cut off while it is written are what `overlapped` and "torn" stand for:
`FileNamesTheDaemon` is about commands run one after another.

## 6. Reading the history variables

`skipped`, `fetched`, `origin` (`TeamSync`); `panicked`, `stuck` (`TeamDaemon`);
`base`, `missed`, `unfiltered`, `unreported` (`HistoryImport`); `missed`
(`Conflicts`); `savedFor`, `latest` (`Credentials`); `known`, `changed`
(`IdentityMapping`); `told` (`LiveUpdates`); `raced` (`Schema`); `of`, `imported`
(`PersonalSync`); `unexported` (`PersonalFiles`); `overlapped` (`PersonalControl`);
`wanted`, `moved`, `reopened`, `truncated` (`PrListing`) record what happened; no
guard of the code's own steps reads them. Variables named `changes`, `cycles`,
`faults`, `requests`, `moves` and the like count against the `Max...` constants.

## 7. Not modelled

* Web UI, notifications, audit and history pages: output that nothing reads back.
* Authentication, users and sessions of the web API: access control, which guards
  the requests modelled elsewhere and holds no synchronisation state.
* Configuration syntax, the personal set-up wizard and `doctor`: parsing and
  read-only checks.
* The parsing of XML, diffs, mapping files and pointers, glob matching, the cipher:
  data formats whose results the modules choose or abstract to sets.
* `reposync sync now` of the command line (`cli/src/main.rs:538-594`): a team cycle
  in a process of its own beside the daemon, which neither's lock excludes; it would
  break `OneCyclePerRepository` by construction.
* Counters, timestamps and audit rows of the engine; the layouts other than trunk.
