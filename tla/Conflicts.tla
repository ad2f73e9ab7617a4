----------------------------- MODULE Conflicts -----------------------------
(***************************************************************************)
(* Conflicts of the team engine: what users do to files on both sides, the *)
(* changes a cycle fetches, the comparison that finds conflicts, the queue *)
(* in the conflicts table, and the web, command-line and library callers   *)
(* that decide what is in it.                                              *)
(*                                                                         *)
(* A file is here or not; contents are ThreeWayMerge's subject, and which  *)
(* commits a cycle copies TeamSync's.  Users act between cycles.           *)
(***************************************************************************)
EXTENDS Naturals, Sequences

CONSTANTS
    Paths,
    Callers,        \* users of the library's ConflictResolver
    None,
    AutoMerge,      \* the configuration's sync.auto_merge
    MaxChanges,     \* changes the users of both sides make
    MaxRows, MaxCycles, MaxDecisions, MaxFaults

ASSUME ConflictsAssumption ==
    /\ None \notin Callers \cup {"api", "cli", "deferred", "content", "edit_delete"}
    /\ None \notin {"accept_svn", "accept_git", "accept_merged", "custom"}
    /\ AutoMerge \in BOOLEAN
    /\ MaxChanges \in Nat /\ MaxRows \in Nat
    /\ MaxCycles \in Nat /\ MaxDecisions \in Nat /\ MaxFaults \in Nat

VARIABLES
    svnTree, gitTree,   \* the files each side has
    svnLog, gitLog,     \* the changes no cycle has taken yet, oldest first
    pc,                 \* the cycle: "idle", "queue" or "apply"
    todo,               \* SVN changes whose conflicts it has still to persist
    rows,               \* the conflicts table, in order of insertion
    first,              \* rows older than this cycle
    missed,             \* paths whose row this cycle could not insert
    caller,             \* the library calls in progress
    changes, cycles, decisions, faults  \* bounds

sides == <<svnTree, gitTree, svnLog, gitLog, changes>>
engine == <<pc, todo, first, missed, cycles>>
deciding == <<caller, decisions>>
vars == <<sides, engine, rows, deciding, faults>>

Idle == [at |-> "idle", row |-> 0, resolution |-> None]

Init ==
    /\ svnTree \in SUBSET Paths /\ gitTree = svnTree
    /\ svnLog = <<>> /\ gitLog = <<>>
    /\ pc = "idle" /\ todo = {} /\ rows = <<>> /\ first = 0 /\ missed = {}
    /\ caller = [c \in Callers |-> Idle]
    /\ changes = 0 /\ cycles = 0 /\ decisions = 0 /\ faults = 0

Fails == faults < MaxFaults /\ faults' = faults + 1

-----------------------------------------------------------------------------
(* Users.  Neither log follows renames: svn log lists a copy as an         *)
(* addition and a replaced file with the letter R, and the diff of a Git   *)
(* commit is made without rename detection.                                *)

Change(action, p) == [action |-> action, path |-> p]

Edits(tree) ==
    [tree : {tree}, log : {<<Change("M", p)>> : p \in tree}]

Additions(tree) ==
    {[tree |-> tree \cup {p}, log |-> <<Change("A", p)>>] : p \in Paths \ tree}

Deletions(tree) ==
    {[tree |-> tree \ {p}, log |-> <<Change("D", p)>>] : p \in tree}

Renames(tree) ==
    {[tree |-> (tree \ {p}) \cup {q},
      log  |-> <<Change("D", p), Change("A", q)>>] :
        p \in tree, q \in Paths \ tree}

Replacements(tree) ==
    [tree : {tree}, log : {<<Change("R", p)>> : p \in tree}]

Commits(tree) ==
    Edits(tree) \cup Additions(tree) \cup Deletions(tree) \cup Renames(tree)

Makes(log) ==
    changes + Len(log) <= MaxChanges /\ changes' = changes + Len(log)

SvnUser ==
    /\ pc = "idle"
    /\ \E c \in Commits(svnTree) \cup Replacements(svnTree) :
        /\ Makes(c.log)
        /\ svnTree' = c.tree /\ svnLog' = svnLog \o c.log
    /\ UNCHANGED <<gitTree, gitLog, engine, rows, deciding, faults>>

GitUser ==
    /\ pc = "idle"
    /\ \E c \in Commits(gitTree) :
        /\ Makes(c.log)
        /\ gitTree' = c.tree /\ gitLog' = gitLog \o c.log
    /\ UNCHANGED <<svnTree, svnLog, engine, rows, deciding, faults>>

-----------------------------------------------------------------------------
(* The comparison of the two change lists.                                 *)

\* An action letter the engine does not know is a modification.
Kind(change) ==
    CASE change.action = "A" -> "added"
      [] change.action = "D" -> "deleted"
      [] OTHER -> "modified"

Touched(log) == {log[k].path : k \in 1..Len(log)}

\* Variant for mutation testing: the table of Git changes keeps the oldest.
FirstChange(log, p) ==
    LET k == CHOOSE k \in 1..Len(log) :
                /\ log[k].path = p
                /\ \A l \in 1..(k - 1) : log[l].path # p
    IN log[k]

\* The table of Git changes keeps the newest change of a path.
LastChange(log, p) ==
    LET k == CHOOSE k \in 1..Len(log) :
                /\ log[k].path = p
                /\ \A l \in (k + 1)..Len(log) : log[l].path # p
    IN log[k]

\* The arms for binary files, renames and properties are left out: the engine
\* marks no change as one of these.
ClassifyConflict(svn, git) ==
    LET deleted == {s \in {"svn", "git"} :
                      Kind(IF s = "svn" THEN svn ELSE git) = "deleted"}
    IN CASE deleted = {"svn", "git"} -> None
         [] deleted = {} -> "content"
         [] OTHER -> "edit_delete"

ConflictsWith(git, change) ==
    /\ change.path \in Touched(git)
    /\ ClassifyConflict(change, LastChange(git, change.path)) # None

\* One conflict for every SVN change that meets a Git change of its path, by
\* the change's place in the list.
Detect(svn, git) == {k \in 1..Len(svn) : ConflictsWith(git, svn[k])}

\* The engine's changes carry no contents and no conflict has a base.
ConflictOf(change) == [path |-> change.path, base |-> None]

\* Without all three versions nothing is merged.
TryAutoMerge(conflict) == conflict.base # None

NeedsUser(conflict) == ~(AutoMerge /\ TryAutoMerge(conflict))

-----------------------------------------------------------------------------
(* The engine's cycle.                                                     *)

\* Conflicts the engine merges are only counted; the others wait for a row.
StartCycle ==
    /\ pc = "idle" /\ cycles < MaxCycles
    /\ cycles' = cycles + 1
    /\ pc' = "queue"
    /\ todo' = {k \in Detect(svnLog, gitLog) : NeedsUser(ConflictOf(svnLog[k]))}
    /\ first' = Len(rows) /\ missed' = {}
    /\ UNCHANGED <<sides, rows, deciding, faults>>

\* A row gets the default type whatever the conflict's kind is.
NewRow(p) ==
    [path |-> p, type |-> "content", status |-> "detected",
     resolution |-> None, by |-> None, merged |-> None]

\* The conflicts are persisted in the order of the SVN changes.
Queueing(k) == pc = "queue" /\ k \in todo /\ \A l \in todo : k <= l

WithRow(p) == Append(rows, NewRow(p))

QueueConflict(k) ==
    /\ Queueing(k) /\ Len(rows) < MaxRows
    /\ rows' = WithRow(svnLog[k].path)
    /\ todo' = todo \ {k}
    /\ UNCHANGED <<sides, pc, first, missed, cycles, deciding, faults>>

\* A failed insertion is ignored.  Rows beyond the bound are not modelled.
LoseConflict(k) ==
    /\ Queueing(k)
    /\ IF Len(rows) < MaxRows THEN Fails ELSE UNCHANGED faults
    /\ todo' = todo \ {k}
    /\ missed' = missed \cup {svnLog[k].path}
    /\ UNCHANGED <<sides, pc, first, cycles, rows, deciding>>

StartApplying ==
    /\ pc = "queue" /\ todo = {}
    /\ pc' = "apply"
    /\ UNCHANGED <<sides, todo, first, missed, cycles, rows, deciding, faults>>

\* The files a side has after the other side's changes were copied to it.
Copied(tree, log) ==
    {p \in Paths : IF p \in Touched(log)
                   THEN Kind(LastChange(log, p)) # "deleted"
                   ELSE p \in tree}

\* Both change lists are applied, conflicts included.
Apply ==
    /\ pc = "apply"
    /\ gitTree' = Copied(gitTree, svnLog) /\ svnTree' = Copied(svnTree, gitLog)
    /\ svnLog' = <<>> /\ gitLog' = <<>>
    /\ pc' = "idle"
    /\ UNCHANGED <<changes, todo, first, missed, cycles, rows, deciding, faults>>

\* The first copy fails: the next cycle compares the same changes again.
ApplyNothing ==
    /\ pc = "apply" /\ Fails
    /\ pc' = "idle"
    /\ UNCHANGED <<sides, todo, first, missed, cycles, rows, deciding>>

\* The copies to Git succeed and the first copy to SVN fails.  If there was
\* one to Git, the Git watermark is past the commits not yet copied.
ApplyHalf ==
    /\ pc = "apply" /\ svnLog # <<>> /\ Fails
    /\ gitTree' = Copied(gitTree, svnLog)
    /\ svnLog' = <<>> /\ gitLog' = <<>>
    /\ pc' = "idle"
    /\ UNCHANGED <<svnTree, changes, todo, first, missed, cycles, rows, deciding>>

Engine ==
    \/ StartCycle
    \/ \E k \in todo : QueueConflict(k) \/ LoseConflict(k)
    \/ StartApplying \/ Apply \/ ApplyNothing \/ ApplyHalf

-----------------------------------------------------------------------------
(* Deciding.  The web interface and both command lines write the row       *)
(* without looking at its status; the library looks first.                 *)

Decides == decisions < MaxDecisions /\ decisions' = decisions + 1

\* One UPDATE of the status, the resolution and who decided.
Decided(n, status, resolution, by) ==
    [rows EXCEPT ![n].status = status, ![n].resolution = resolution,
                 ![n].by = by]

\* Variant for mutation testing: deferring writes the status alone.
DeferredStatusOnly(n, by) == [rows EXCEPT ![n].status = "deferred"]

Deferred(n, by) == Decided(n, "deferred", "deferred", by)

WebResolve ==
    /\ Decides
    /\ \E n \in 1..Len(rows), r \in {"accept_svn", "accept_git", "custom"} :
        rows' = Decided(n, "resolved", r, "api")
    /\ UNCHANGED <<sides, engine, caller, faults>>

CliResolve ==
    /\ Decides
    /\ \E n \in 1..Len(rows), r \in {"accept_svn", "accept_git"} :
        rows' = Decided(n, "resolved", r, "cli")
    /\ UNCHANGED <<sides, engine, caller, faults>>

WebDefer ==
    /\ Decides
    /\ \E n \in 1..Len(rows) : rows' = Deferred(n, "api")
    /\ UNCHANGED <<sides, engine, caller, faults>>

LibraryDefer ==
    /\ Decides
    /\ \E n \in 1..Len(rows), c \in Callers :
        caller[c].at = "idle" /\ rows' = Deferred(n, c)
    /\ UNCHANGED <<sides, engine, caller, faults>>

LibraryCheck(c) ==
    /\ Decides /\ caller[c].at = "idle"
    /\ \E n \in 1..Len(rows), r \in {"accept_svn", "accept_git", "accept_merged"} :
        /\ rows[n].status # "resolved"
        /\ caller' = [caller EXCEPT ![c] =
                        [at |-> "checked", row |-> n, resolution |-> r]]
    /\ UNCHANGED <<sides, engine, rows, faults>>

LibraryUpdate(c) ==
    /\ caller[c].at = "checked"
    /\ rows' = Decided(caller[c].row, "resolved", caller[c].resolution, c)
    /\ caller' = [caller EXCEPT ![c] =
                    IF @.resolution = "accept_merged"
                    THEN [@ EXCEPT !.at = "updated"] ELSE Idle]
    /\ UNCHANGED <<sides, engine, decisions, faults>>

\* Merged content follows in a statement of its own.
LibraryStore(c) ==
    /\ caller[c].at = "updated"
    /\ rows' = [rows EXCEPT ![caller[c].row].merged = c]
    /\ caller' = [caller EXCEPT ![c] = Idle]
    /\ UNCHANGED <<sides, engine, decisions, faults>>

\* A statement fails or the caller's process ends.
LibraryAbort(c) ==
    /\ caller[c].at # "idle" /\ Fails
    /\ caller' = [caller EXCEPT ![c] = Idle]
    /\ UNCHANGED <<sides, engine, rows, decisions>>

Deciders ==
    \/ WebResolve \/ CliResolve \/ WebDefer \/ LibraryDefer
    \/ \E c \in Callers : \/ LibraryCheck(c) \/ LibraryUpdate(c)
                          \/ LibraryStore(c) \/ LibraryAbort(c)

Next == SvnUser \/ GitUser \/ Engine \/ Deciders

Spec == Init /\ [][Next]_vars

-----------------------------------------------------------------------------
Accepts == {"accept_svn", "accept_git", "accept_merged", "custom"}
Deciding == Callers \cup {"api", "cli"}
Actions == {"A", "D", "M", "R"}

\* Every variable stays in its range.
TypeOK ==
    /\ svnTree \subseteq Paths /\ gitTree \subseteq Paths
    /\ svnLog \in Seq([action : Actions, path : Paths])
    /\ gitLog \in Seq([action : Actions, path : Paths])
    /\ pc \in {"idle", "queue", "apply"}
    /\ todo \subseteq 1..Len(svnLog)
    /\ rows \in Seq([path : Paths, type : {"content"},
                     status : {"detected", "resolved", "deferred"},
                     resolution : Accepts \cup {"deferred", None},
                     by : Deciding \cup {None},
                     merged : Callers \cup {None}])
    /\ first \in 0..Len(rows) /\ missed \subseteq Paths
    /\ caller \in [Callers -> [at : {"idle", "checked", "updated"},
                               row : 0..Len(rows),
                               resolution : Accepts \cup {None}]]
    /\ changes \in 0..MaxChanges /\ cycles \in 0..MaxCycles
    /\ decisions \in 0..MaxDecisions /\ faults \in 0..MaxFaults

\* A file both sides changed and at least one still has.
Collides(p) ==
    /\ p \in Touched(svnLog) /\ p \in Touched(gitLog)
    /\ p \in svnTree \cup gitTree

\* When a cycle starts to copy, this cycle has queued every file that both
\* sides changed and that not both have deleted, however many changes the
\* lists hold and in whatever order; only a failed insertion loses one.
CollisionsReported ==
    pc = "apply" =>
        \A p \in Paths \ missed : Collides(p) =>
            \E n \in (first + 1)..Len(rows) : rows[n].path = p

\* What the status pages count, and what a list shows of one status.
ActiveRows ==
    {n \in 1..Len(rows) : rows[n].status \notin {"resolved", "deferred"}}

Listed(status) == {n \in 1..Len(rows) : rows[n].status = status}

\* Whatever callers race for a row, its status, its resolution and who is
\* named belong to one decision, and every row counted as active is one that a
\* list of the detected conflicts shows.
DecisionsAreWhole ==
    /\ ActiveRows = Listed("detected")
    /\ \A n \in 1..Len(rows) :
        /\ rows[n].status = "detected" <=> rows[n].resolution = None
        /\ rows[n].status = "detected" <=> rows[n].by = None
        /\ rows[n].status = "deferred" <=> rows[n].resolution = "deferred"
        /\ rows[n].resolution \in {"accept_merged"} => rows[n].by \in Callers
        /\ rows[n].resolution = "custom" => rows[n].by = "api"

\* No step removes a row, makes it another file's or forgets that it was
\* decided: a new conflict on the same file leaves the old row as it is.
QueueIsALog ==
    [][ /\ Len(rows) <= Len(rows')
        /\ \A n \in 1..Len(rows) :
            /\ rows'[n].path = rows[n].path
            /\ rows[n].status # "detected" => rows'[n].status # "detected"
            /\ rows[n].merged # None => rows'[n].merged # None ]_vars
=============================================================================
